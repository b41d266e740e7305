SPECIFICATION Spec
CONSTANTS
  MaxPackets = 3
  FramesUpTo <- OneOrTwo
  DecoderDelay = 1
  EncoderDelay = 1
  MaxSlots = 2
  MaxErrors = 1
CHECK_DEADLOCK FALSE
INVARIANT UnpackedDecodes
