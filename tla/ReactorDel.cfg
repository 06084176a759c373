SPECIFICATION RSpec
CONSTANTS
  NumReactors = 2
  MaxConn = 3
  MaxMsg = 1
  ConnFds = {1}
INVARIANT Watched
CHECK_DEADLOCK FALSE
