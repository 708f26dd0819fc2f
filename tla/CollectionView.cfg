\* Two users with one blob that has a date and one that has none, and a view
\* in progress while they change their collections.
CONSTANTS
  Users = {alice, bob}
  Colls = {c1}
  Blobs = {b1, b2}
  Names = {n1}
  PublicLimit = 1
  Null = Null
  Views = {v1}
  Undated = {b1}
SYMMETRY Symmetry
SPECIFICATION ViewSpec
INVARIANTS
  OwnersKeepInodes
PROPERTIES
  OwnerPublishesDated
