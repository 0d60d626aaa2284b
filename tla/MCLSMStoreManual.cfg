SPECIFICATION MCSpec
CONSTANTS
  Keys = {1, 2, 3}
  Batches <- SingleUpdates
  MaxSeq = 5
  Snaps = {}
  Iters = {}
  NumLevels = 3
  MaxMemCompactLevel = 1
  ManualRanges <- WideRanges
  MaxFileNumber = 6
  MaxRepairs = 0
  Parts = {"store"}
INVARIANTS LevelsDisjoint
CHECK_DEADLOCK FALSE
