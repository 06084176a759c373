SPECIFICATION ComponentsSpec
CONSTANTS
  Items = {p1, p2}
  slot_size = 3
  MaxTime = 7
  MaxTimeout = 7
  IntMax = 31
  Co = {q1, q2, q3}
  Main = Main
  NoCo = NoCo
  count = 2
  UIntSize = 3
  StackMax = 4
  Disciplined = TRUE
  Readers = {q1, q2, q3}
  Writers = {p1, p2}
  Null = Null
  Registry = Registry
  CurSnap = CurSnap
  Qs = Qs
  MaxNest = 2
  MaxSyncs = 2
  T = {t1, t2, t3}
  Raw = Raw
  NumReactors = 2
  MaxConn = 2
  MaxMsg = 3
  ConnFds = {1}
  capacity_ = 4
  Size = 4
  MaxLevel = 2
  Capacity = 2
  RioSize = 2
  Longest = 3
  MaxCalls = 5
  Grain = 2
  WordBits = 2
SYMMETRY Symmetry
INVARIANTS SlotIsTime OwnFrames FramesKept EnvOfRunning RegistryRing QueueServed AnswersInOrder LiveCells ContainersHold ArraysAgree OptimaAgree LinkedAgree StringsAgree GraphsAgree
PROPERTIES SweepTakesDue EarlyOnlyIfLong ImplementsQueue
CHECK_DEADLOCK FALSE
