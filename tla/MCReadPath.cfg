SPECIFICATION MCSpec
CONSTANTS
  Children = {mem, imm, table}
  MemTables = {mem}
  Keys = {1, 2, 3, 4}
  None = None
  UserKeys = {1, 2, 3}
  Initial = 2
  MaxSeq = 3
  Nil = Nil
  NodeKeys = {1, 2, 3}
  MaxHeight = 2
  Intervals = {1, 2, 3}
  MaxEntries = 6
  CacheKeys = {k1, k2, k3}
  Threads = {t1, t2, t3}
  Slots = {e1, e2, e3, e4, e5, e6}
  Charges = {1, 2}
  Capacities = {0, 2, 3}
SYMMETRY Symmetric
INVARIANTS ShowsSnapshot ListReads BlockReads CacheSound
PROPERTY ImplementsOrderedIter
