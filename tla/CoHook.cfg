SPECIFICATION HooksSpec
CONSTANTS
  Co = {c1, c2}
  NoCo = NoCo
  f1 = f1
  Fds = {f1}
  NoFd = NoFd
  PollArgs <- MCPollArgs
  MaxIn = 1
  MaxRoom = 1
  EnvCo = {c1, c2}
  Names = {n1, n2}
  Values = {1, 2}
  Null = Null
INVARIANTS ThreadStops WriteExact
PROPERTIES ConnectTruth PollFaithful WaitsEnd EnvPrivate
CHECK_DEADLOCK FALSE
