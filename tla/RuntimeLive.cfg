CONSTANTS
  QUEUE_INITIAL_CAP = 1
  PIPE_CAP = 1
  PipeAvailable = TRUE
  AllocMayFail = FALSE
  MaxMsgs = 2
  MaxCmds = 0
  Views <- JustFull
  NoFrame = NoFrame
  Titles = {}
  NoTitle = NoTitle
  ParentKbdDepth = 1
  KbdStackPerScreen = FALSE
  RawMode = TRUE
  BlockForever = {TRUE, FALSE}
  SyscallsMayFail = TRUE
  MaxResizes = 1
  MaxInput = 1
  MaxExternal = 0
  MaxRuns = 1
SPECIFICATION RTFairSpec
PROPERTIES
  QuitReturns
  PostReachesUpdate
  TimeoutServesSignals
CHECK_DEADLOCK FALSE
