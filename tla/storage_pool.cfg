SPECIFICATION FairSpec
CONSTANTS
  Workers = {w1, w2}
  Streams = {s1, s2}
  Known = {s1}
  MaxSegments = 3
  NoTask = NoTask
CHECK_DEADLOCK FALSE
INVARIANTS OnePlace OneQuery EarlyDrained LateOnlyIfSkipped
PROPERTY BusyDrains
