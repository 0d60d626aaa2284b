SPECIFICATION LivenessSpec
CONSTANTS
  Threads = {t1, t2}
  Owner = owner
  Batches = {2}
  SyncModes = {FALSE}
  MaxOps = 2
  MaxCalls = 3
  MemCap = 1
  GroupSmall = 1
  GroupMax = 2
  CompactionTrigger = 1
  SlowdownTrigger = 1
  StopTrigger = 1
  MaxOpenL0 = 2
  MaxDeep = 0
  MaxLevels = 1
  MaxChunks = 1
  MaxRetries = 1
  IOErrors = TRUE
  Kinds = {"write", "flush", "range", "get"}
PROPERTIES CallsReturn CloseCompletes
