SPECIFICATION Spec
CONSTANTS
  Threads = {t1, t2}
  Owner = owner
  Batches = {1}
  SyncModes = {TRUE}
  MaxOps = 2
  MaxCalls = 2
  MemCap = 1
  GroupSmall = 1
  GroupMax = 2
  CompactionTrigger = 1
  SlowdownTrigger = 1
  StopTrigger = 2
  MaxOpenL0 = 3
  MaxDeep = 0
  MaxLevels = 1
  MaxChunks = 1
  MaxRetries = 1
  IOErrors = TRUE
  Kinds = {"write", "range"}
SYMMETRY Symmetry
INVARIANTS CancelIsSafe
