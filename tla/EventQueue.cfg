CONSTANTS
  QUEUE_INITIAL_CAP = 1
  PIPE_CAP = 2
  PipeAvailable = TRUE
  AllocMayFail = TRUE
  MaxMsgs = 4
  MaxCmds = 3
SPECIFICATION EQFairSpec
INVARIANTS
  QueuesConsistent
  NoLostWakeup
  CommandsBeforeMessages
PROPERTIES
  MailboxSpec
  QueuedIsTaken
