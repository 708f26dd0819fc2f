--------------------------- MODULE MCCollectionView ---------------------------
(* Small instances of CollectionView for TLC. *)
EXTENDS CollectionView, TLC

\* Users, collections and views are interchangeable; blobs are not when only
\* one of them has a date.
Symmetry == Permutations(Users) \union Permutations(Colls) \union Permutations(Views)
=============================================================================
