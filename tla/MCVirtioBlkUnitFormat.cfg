CONSTANTS
  r1 = r1
  r2 = r2
  r3 = r3
  Requests = {r1, r2}
  Commands = {"CMD_READ", "VB_FORMAT", "CMD_INVALID"}
  MaxChains = 4
  OneInterrupt = TRUE
SPECIFICATION Spec
INVARIANT FormatIsWrite
CHECK_DEADLOCK FALSE
