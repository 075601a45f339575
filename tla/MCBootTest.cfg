CONSTANTS
  suite0 = suite0
  suite1 = suite1
  Tasks = {suite0, suite1}
  Suites <- MCSuites
  Turns = 2
  OneInterrupt = TRUE
SPECIFICATION FairSpec
INVARIANTS TypeOK LiveIsHeld RequestStaysAlive
PROPERTY TestsEnd
CHECK_DEADLOCK FALSE
