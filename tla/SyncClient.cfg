\* Four blobs, two of them with one name, and two requests at a time.
SPECIFICATION Spec
CONSTANTS
  b1 = b1
  b2 = b2
  b3 = b3
  b4 = b4
  n1 = n1
  n2 = n2
  n3 = n3
  Blobs = {b1, b2, b3, b4}
  Names = {n1, n2, n3}
  Name <- MCName
  Limit = 2
INVARIANTS
  PartsCounted
  LeftOver
  Synced
PROPERTY RunsEnd
