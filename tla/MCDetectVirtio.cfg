CONSTANTS
  Features = {"SEG_MAX", "GEOMETRY"}
  Sectors = 3
SPECIFICATION FairSpec
INVARIANTS ShownIsAsked MemorySafe
PROPERTY DetectEnds
CHECK_DEADLOCK FALSE
