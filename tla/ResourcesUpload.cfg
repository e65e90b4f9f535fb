SPECIFICATION Spec
CONSTANTS
  Request = {r1, r2, r3, r4, r5}
  Kinds = {"write", "upload"}
  PoolSize = 4
  Slots = 2
  Places = 18
  SqlBlobs = TRUE
  MaxFiles = 1
  None = None
SYMMETRY Symmetry
INVARIANTS UploadsDoNotWaitForThemselves
