SPECIFICATION CacheSpec
CONSTANTS
  Ids = {i1, i2}
  ExpSeconds = 2
  CleanupFreq = 1
  TicksPerSecond = 3
  MaxTime = 10
CHECK_DEADLOCK FALSE
INVARIANTS StaleBound
PROPERTY Fresh
