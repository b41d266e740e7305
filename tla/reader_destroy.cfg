SPECIFICATION FairSpec
CONSTANTS
  NumAv = 2
  NumPackets = 2
  Layouts <- CompleteLayouts
  MaxOpens = 1
  UserOps <- PlayOps
  CallbackPauses = FALSE
  CallbackResets = FALSE
PROPERTY DestroyRejoins
CHECK_DEADLOCK FALSE
