SPECIFICATION Spec
CONSTANTS
  NFrames = 2
  MaxPackets = 7
  MaxFlushes = 2
CHECK_DEADLOCK FALSE
INVARIANTS VideoShape AudioSize Partition NoneLost SurvivesWire
