SPECIFICATION MCSpec
CONSTANTS
  Keys = {1, 2}
  Batches <- DeleteSharedKey
  MaxSeq = 4
  Snaps = {s1}
  Iters = {}
  NumLevels = 3
  MaxMemCompactLevel = 1
  ManualRanges <- WideRanges
  MaxFileNumber = 4
  MaxRepairs = 0
  Parts = {"store"}
INVARIANTS DroppedDeletionsObsolete
CHECK_DEADLOCK FALSE
