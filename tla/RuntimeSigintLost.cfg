CONSTANTS
  QUEUE_INITIAL_CAP = 1
  PIPE_CAP = 1
  PipeAvailable = TRUE
  AllocMayFail = FALSE
  MaxMsgs = 1
  MaxCmds = 0
  Views <- JustFull
  NoFrame = NoFrame
  Titles = {}
  NoTitle = NoTitle
  ParentKbdDepth = 1
  KbdStackPerScreen = FALSE
  RawMode = TRUE
  BlockForever = {TRUE}
  SyscallsMayFail = FALSE
  MaxResizes = 0
  MaxInput = 0
  MaxExternal = 0
  MaxRuns = 1
SPECIFICATION RTFairSpec
PROPERTIES
  SigintReturns
CHECK_DEADLOCK FALSE
