SPECIFICATION FairSpec
CONSTANTS
  Request = {r1, r2, r3}
  Kinds = {"signin", "manage", "upload", "image"}
  PoolSize = 4
  Slots = 1
  Places = 2
  SqlBlobs = TRUE
  MaxFiles = 1
  None = None
INVARIANTS TypeOK Ownership NoCircularWait
PROPERTIES RequestsAnswered
