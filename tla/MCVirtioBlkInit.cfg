CONSTANTS
  VB_UNIT_MAX = 2
  MaxFound = 3
SPECIFICATION FairSpec
INVARIANTS TypeOK AvailableIsServed ConfigurationIsHosts FailureIsContained
PROPERTY BootEnds
CHECK_DEADLOCK FALSE
