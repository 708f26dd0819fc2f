--------------------------- MODULE MCAuthentication ---------------------------
(***************************************************************************)
(* Instances of Authentication for TLC.                                    *)
(***************************************************************************)
EXTENDS Authentication, TLC

\* Session IDs are random and requests interchangeable.
Symmetry == Permutations(Sessions) \union Permutations(Requests)
=============================================================================
