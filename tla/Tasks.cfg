SPECIFICATION FairSpec
CONSTANTS
  Request = {r1, r2, r3, r4}
  Worker = {w1, w2}
  QueueSize = 1
  PoolSize = 1
  None = None
INVARIANTS TypeOK Counter TasksKept
PROPERTIES KeepsPromise TasksAttempted
