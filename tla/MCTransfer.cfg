CONSTANTS
  Sectors = {0, 64, 128}
  num = 4
  IndexRange = 8
  OneInterrupt = TRUE
SPECIFICATION FairSpec
INVARIANTS NoTornRequest StatusIsCurrent NoLostWakeup
PROPERTIES TransferEnds ImplementsHandshake
