CONSTANTS
  Cap = 4
  MaxMsgs = 3
  PostPoints = {"idle", "check", "read_buffer", "read_count", "install", "reset_count", "deliver"}
SPECIFICATION APSpec
INVARIANTS
  NoPostLost
CHECK_DEADLOCK FALSE
