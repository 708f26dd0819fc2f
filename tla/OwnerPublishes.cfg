CONSTANTS
  Users = {alice, bob}
  Colls = {c1, c2}
  Blobs = {b1}
  Names = {n1, n2}
  PublicLimit = 1
  Null = Null
  Views = {v1}
  Undated = {b1}
SPECIFICATION ViewSpec
PROPERTY OwnerPublishes
