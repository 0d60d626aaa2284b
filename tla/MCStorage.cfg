SPECIFICATION MCSpec
CONSTANTS
  WordSize = 256
  Words <- SomeWords
  BitsPerKey = {0, 10, 33, 50}
  MaxKeys = 3
  MaxFilters = 2
  UserKeys = {1, 2, 3}
  Seqs = {1, 2}
  MaxEntries = 4
  BlockSizes = {1, 5}
  Base = 2
  B = 7
  H = 3
  Lens = {2, 9}
  MaxRecords = 3
  MaxCrashes = 2
  MaxFailures = 1
  BufferSize = 3
  AppendSizes = {0, 1, 2, 3, 4, 5, 6, 7}
  MaxBytes = 9
  Threads <- ThreadIds
  Process <- ProcessOf
  NoProcess = "none"
  Files = {f1, f2, f3}
  MaxMmaps = 1
  MaxFds = 1
  MaxItems = 3
CHECK_DEADLOCK FALSE
INVARIANTS
  NoFalseNegatives TableReads LogReads FileHoldsAppended LocksExclude
  LimitsExact QueueAttended
PROPERTY SyncMakesDurable
