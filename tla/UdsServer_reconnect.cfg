SPECIFICATION Spec
CONSTANTS
  Pids = {p1, p2}
  Attempts = {1, 2}
  Fds = {f1, f2, f3, f4}
  NoConn = NoConn
  NoFd = NoFd
  MaxCalls = 3
  TimeoutKinds = {}
CHECK_DEADLOCK FALSE
INVARIANT ConnectedClientIsFound
