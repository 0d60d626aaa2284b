SPECIFICATION MCSpec
CONSTANTS
  Keys = {1, 2}
  Batches <- BatchAndDelete
  MaxSeq = 3
  Snaps = {s1}
  Iters = {i1}
  NumLevels = 3
  MaxMemCompactLevel = 1
  ManualRanges <- AllRanges
  MaxFileNumber = 4
  MaxRepairs = 2
  Parts = {"store", "repair"}
INVARIANTS LevelsOrdered LiveFilesExist RepairSound
PROPERTY ImplementsKVStore
CHECK_DEADLOCK FALSE
