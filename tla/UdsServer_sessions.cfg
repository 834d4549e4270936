SPECIFICATION FairSpec
CONSTANTS
  Pids = {p1, p2}
  Attempts = {1, 2}
  Fds = {f1, f2, f3, f4}
  NoConn = NoConn
  NoFd = NoFd
  MaxCalls = 2
  TimeoutKinds = {"posted", "running", "done"}
CHECK_DEADLOCK FALSE
INVARIANTS TypeOK SessionsOwnTheirSocket IndexLeadsToOwnSession BuffersBelongToOpenSockets
PROPERTIES TimerClosesOwnSockets DeletionIsNotified SocketsAreClosed DeadClientsAreForgotten
