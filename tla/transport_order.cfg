SPECIFICATION FairSpec
CONSTANTS
  Publishers = {p1, p2}
  HighWater = 2
  MaxSegments = 3
  MaxRuns = 2
CHECK_DEADLOCK FALSE
INVARIANTS LossHasCause InOrder OneAfterClose
PROPERTY Arrives
