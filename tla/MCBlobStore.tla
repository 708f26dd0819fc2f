------------------------------ MODULE MCBlobStore ------------------------------
(***************************************************************************)
(* Two requests on two threads, for a text of one chunk and an image that  *)
(* begins with the same chunk.                                             *)
(***************************************************************************)
EXTENDS BlobStore, TLC

CONSTANTS x, y

MCBodies == {<<>>, <<x>>, <<x, y>>}

MCImages == {<<x, y>>}

Symmetry == Permutations(Requests)

=============================================================================
