SPECIFICATION FairSpec
CONSTANTS
  NumAv = 2
  NumPackets = 3
  Layouts <- AnyLayouts
  MaxOpens = 2
  UserOps <- AllOps
  CallbackPauses = TRUE
  CallbackResets = TRUE
INVARIANTS  RightStream HangShape
PROPERTIES SourceStable  CloseTerminates
CHECK_DEADLOCK FALSE
