SPECIFICATION Spec
CONSTANTS
  Threads = {t1, t2, t3}
  None = None
  Keys = {1, 2}
  Batches <- OneKey
  WriteBufferSize = 1
  MaxCalls = 3
SYMMETRY ThreadSymmetry
INVARIANT AckedRecoverable
