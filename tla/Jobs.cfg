SPECIFICATION FairSpec
CONSTANTS
  Server = {s1, s2}
  Ticks = 2
  PoolSize = 3
  MaxFailures = 1
  None = None
INVARIANTS TypeOK HandlersNeverOverlap SuccessIsTrue
PROPERTIES RunsEnd
