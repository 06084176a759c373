CONSTANTS
  Readers = {r1}
  Writers = {w1, w2, w3}
  Null = Null
  Registry = Registry
  CurSnap = CurSnap
  Qs = Qs
  MaxNest = 1
  MaxSyncs = 2
SPECIFICATION UrcuSpec
SYMMETRY ThreadSymmetry
PROPERTY GracePeriod
CHECK_DEADLOCK FALSE
