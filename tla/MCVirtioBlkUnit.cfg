CONSTANTS
  r1 = r1
  r2 = r2
  r3 = r3
  Requests = {r1, r2}
  Commands = {"CMD_READ", "VB_FORMAT", "CMD_INVALID"}
  MaxChains = 4
  OneInterrupt = FALSE
SPECIFICATION FairSpec
INVARIANTS TypeOK HeadIsCurrent HeadReady ReplyOwed NoLostWakeup
PROPERTIES Answered ImplementsQueue
CHECK_DEADLOCK FALSE
