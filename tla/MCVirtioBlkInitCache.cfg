CONSTANTS
  VB_UNIT_MAX = 2
  MaxFound = 3
SPECIFICATION Spec
INVARIANT OneCachePerUnit
CHECK_DEADLOCK FALSE
