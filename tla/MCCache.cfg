CONSTANTS
  d1 = d1
  d2 = d2
  NumTracks = 2
  DiskTracks = 1
  CacheNumBlocks = 2
  Data = {d1, d2}
  Zero = d1
SPECIFICATION FairSpec
INVARIANTS TypeOK Coherence
PROPERTIES PromiseKept ImplementsStore EveryStepCounts RequestEnds SyncEnds
CHECK_DEADLOCK TRUE
