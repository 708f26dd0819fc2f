\* One user with three collections and two blobs, so that a blob can be in one
\* collection, on its way between two others and counted in all of them.
CONSTANTS
  Users = {alice}
  Colls = {c1, c2, c3}
  Blobs = {b1, b2}
  Names = {n1}
  PublicLimit = 1
  Null = Null
SYMMETRY Symmetry
SPECIFICATION Spec
INVARIANTS
  TypeOK
  EntriesBacked
  CollectionsListed
  ReadersAgree
PROPERTIES
  BlobsConserved
  CoverKept
  InodesReclaimable
