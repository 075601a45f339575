CONSTANTS
  r1 = r1
  r2 = r2
  r3 = r3
  Requests = {r1, r2, r3}
  Commands = {"CMD_WRITE", "CMD_UPDATE", "CMD_CLEAR"}
  MaxChains = 4
  OneInterrupt = TRUE
SYMMETRY MCSymmetry
SPECIFICATION Spec
INVARIANT InterruptExpected
PROPERTY ImplementsQueue
CHECK_DEADLOCK FALSE
