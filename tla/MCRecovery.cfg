SPECIFICATION MCSpec
CONSTANTS
  MaxWrites = 2
  MaxCrashes = 2
  MaxCompactions = 1
  MachineCrashes = TRUE
  SyncModes = {TRUE, FALSE}
  ProcessWrites = 3
INVARIANTS AckedSurvive NothingReturns OpenIsSound
CHECK_DEADLOCK FALSE
