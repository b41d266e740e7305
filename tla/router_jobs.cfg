SPECIFICATION ClusterSpec
CONSTANTS
  Clients = {c1, c2}
  JobIds = {1, 2}
  StreamIds = {1, 2, 3}
  OfferedJobs = {1}
  OfferedStreams <- ClashingStreams
  MaxRestarts = 1
  Followed = {1, 2}
  MaxSegments = 2
  HighWater = 1
  None = None
  Unasked = Unasked
CHECK_DEADLOCK FALSE
INVARIANTS UniqueIds StreamsHaveJobs HeardRegistered NeverWrittenOff FiledRight NoHoles
