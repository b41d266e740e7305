SPECIFICATION FairSpec
CONSTANTS
  j1 = j1
  j2 = j2
  w1 = w1
  w2 = w2
  Workers <- TwoWorkers
  Pools <- OneOrTwo
  Jobs <- TwoJobs
  PacketsPerSegment = 2
  MaxSegments = 2
  MaxExpired = 1
CHECK_DEADLOCK FALSE
INVARIANTS TakenInOrder CloseDrains
PROPERTIES Linear Delivered CloseTerminates
