SPECIFICATION MCSpec
CONSTANTS
  Threads = {t1, t2, t3}
  Owner = owner
  Batches = {1, 2}
  SyncModes = {TRUE, FALSE}
  MaxOps = 2
  MaxCalls = 3
  MemCap = 1
  GroupSmall = 1
  GroupMax = 2
  CompactionTrigger = 1
  SlowdownTrigger = 1
  StopTrigger = 2
  MaxOpenL0 = 3
  MaxDeep = 0
  MaxLevels = 2
  MaxChunks = 1
  MaxRetries = 1
  IOErrors = TRUE
  Kinds = {"write", "flush", "range", "get"}
  PebblesBatches <- MixedBatches
  PebblesKeys = {1, 2}
  PebblesCalls = 3
  WriteBufferSize = 1
  None = None
SYMMETRY Symmetry
INVARIANTS TypeOK NoLostWakeup RecordsDisjoint AckedRecoverable SyncDurable
  ErrorSticks WorkScheduled SleepersHaveWaker OneTask
  PebblesNothingLost
PROPERTY L0GrowsToTrigger
