----------------------------- MODULE MCSyncClient -----------------------------
(***************************************************************************)
(* Four blobs, two of which have the same name, and two requests at a      *)
(* time.                                                                   *)
(***************************************************************************)
EXTENDS SyncClient, TLC

CONSTANTS b1, b2, b3, b4, n1, n2, n3

MCName == b1 :> n1 @@ b2 :> n2 @@ b3 :> n3 @@ b4 :> n3

=============================================================================
