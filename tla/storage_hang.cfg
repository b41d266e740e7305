SPECIFICATION FairSpec
CONSTANTS
  Workers = {w1}
  Streams = {s1}
  Known = {s1}
  MaxSegments = 1
  NoTask = NoTask
CHECK_DEADLOCK FALSE
PROPERTY DestroyReturns
