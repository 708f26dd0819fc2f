SPECIFICATION Spec
CONSTANTS
  x = x
  y = y
  Null = Null
  Bodies <- MCBodies
  Images <- MCImages
  Requests = {r1, r2}
  Threads = 2
  DiskErrors = TRUE
SYMMETRY Symmetry
INVARIANTS
  ContentAddressed
  LinkedBlobsStored
PROPERTIES
  UploadsAcknowledged
  RenditionsImmutable
  ReadsSucceed
