\* Two users who own the same two blobs, four candidates for a front page of
\* two places.
CONSTANTS
  Users = {alice, bob}
  Colls = {c1}
  Blobs = {b1, b2}
  Names = {n1}
  PublicLimit = 2
  Null = Null
SYMMETRY Symmetry
SPECIFICATION Spec
INVARIANTS
  OwnersHaveInodes
  PublicListSound
PROPERTIES
  FrontPageStable
  
