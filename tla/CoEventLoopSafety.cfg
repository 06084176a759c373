CONSTANTS
  c1 = c1
  c2 = c2
  f1 = f1
  v1 = v1
  Main = Main
  NoCo = NoCo
  Co = {c1, c2}
  Fds = {f1}
  Conds = {v1}
  Timeouts = {1, 3}
  PollForever = TRUE
  Signallers = {Main, c1, c2}
  Resumers = {Main, c1, c2}
  Yielders = {c1, c2}
  SharedFds = TRUE
  SetsBack = TRUE
  StackMax = 3
  slot_size = 2
  MaxTime = 4
  IntMax = 9
SPECIFICATION Spec
SYMMETRY CoSymmetry
INVARIANTS ItemsOfCalls RegisteredIsLive
PROPERTIES NeverEarly WheelRefined SignalStays
