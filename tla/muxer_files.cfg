SPECIFICATION Spec
CONSTANTS
  Sources = {s1, s2}
  BufferMax = 2
  MaxPackets = 3
  MayFail = TRUE
  MaxFlushes = 1
  MaxOpens = 1
CHECK_DEADLOCK FALSE
INVARIANTS BufferBound Ordered ClosedComplete NeverCrashes
