CONSTANTS
  Readers = {}
  Writers = {w1, w2, w3}
  Null = Null
  Registry = Registry
  CurSnap = CurSnap
  Qs = Qs
  MaxNest = 1
  MaxSyncs = 1
SPECIFICATION UrcuFairSpec
PROPERTY SyncReturns
CHECK_DEADLOCK FALSE
