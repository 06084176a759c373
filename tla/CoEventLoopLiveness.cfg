CONSTANTS
  c1 = c1
  c2 = c2
  f1 = f1
  v1 = v1
  Main = Main
  NoCo = NoCo
  Co = {c1, c2}
  Fds = {f1}
  Conds = {v1}
  Timeouts = {1, 3}
  PollForever = FALSE
  Signallers = {Main, c1, c2}
  Resumers = {Main}
  Yielders = {}
  SharedFds = FALSE
  SetsBack = FALSE
  StackMax = 3
  slot_size = 2
  MaxTime = 4
  IntMax = 9
SPECIFICATION FairSpec
PROPERTIES TimedWaitEnds ReadyServed SignalServed
