CONSTANTS
  QUEUE_INITIAL_CAP = 1
  PIPE_CAP = 1
  PipeAvailable = TRUE
  AllocMayFail = FALSE
  MaxMsgs = 1
  MaxCmds = 1
  Views <- PlainAndFull
  NoFrame = NoFrame
  Titles = {}
  NoTitle = NoTitle
  ParentKbdDepth = 1
  KbdStackPerScreen = FALSE
  RawMode = TRUE
  BlockForever = {FALSE}
  SyscallsMayFail = TRUE
  MaxResizes = 1
  MaxInput = 1
  MaxExternal = 1
  MaxRuns = 2
SPECIFICATION RTSpec
INVARIANTS
  LoopConsistent
  TerminalHandedBack
  FrameIsFresh
PROPERTIES
  UsesItsParts
CHECK_DEADLOCK FALSE
