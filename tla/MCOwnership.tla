----------------------------- MODULE MCOwnership -----------------------------
(* Small instances of Ownership for TLC. *)
EXTENDS Ownership, TLC

\* No operation distinguishes two users, two collections, two blobs or two
\* names except by equality.
Symmetry ==
  Permutations(Users) \union Permutations(Colls) \union Permutations(Blobs)
    \union Permutations(Names)
=============================================================================
