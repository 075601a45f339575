CONSTANTS
  r1 = r1
  r2 = r2
  d1 = d1
  d2 = d2
  Requests = {r1, r2}
  Uses <- MCUses
  Calls = {"DoIO"}
  NumTracks = 3
  DiskTracks = 1
  CacheNumBlocks = 1
  Data = {d1, d2}
  Zero = d1
SPECIFICATION MCSpec
INVARIANTS InStep UpdateSaves FillsFromDisk
PROPERTIES ImplementsUnit ImplementsCache
CHECK_DEADLOCK FALSE
