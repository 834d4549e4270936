------------------------------ MODULE UdsServer ------------------------------
(***************************************************************************)
(* The server's side of client connections: UDSServer (uds_server.cpp) and *)
(* the binder call MMIService::AllocSocketFd that makes a connection.  A   *)
(* binder thread posts AddSocketPairInfo to the worker as a delegate task  *)
(* and waits for its result; the worker makes a socket pair, registers the *)
(* server's end and a session for it, and the reply carries the client's   *)
(* end to the client.  If the wait times out while the task is running,    *)
(* AllocSocketFdResult arms a timer that closes both ends.  When a client  *)
(* is gone the worker sees its socket hang up and releases the session.    *)
(*                                                                         *)
(* The mechanism of delegate tasks is used as TaskCall specifies it.  A    *)
(* connection is named by the call that makes it: the pid of the caller    *)
(* and the number of the attempt.                                          *)
(***************************************************************************)
EXTENDS Naturals, FiniteSets

CONSTANTS
  Pids,          \* client processes
  Attempts,      \* numbers of a process's calls of AllocSocketFd
  Fds,           \* descriptors that the service may have open
  NoConn, NoFd,
  TimeoutKinds,  \* states of a task in which the wait for it may time out
  MaxCalls       \* bound of the model on the number of calls

Conns == Pids \X Attempts

ASSUME UdsAssumption ==
  /\ NoConn \notin Conns
  /\ NoFd \notin Fds
  /\ TimeoutKinds \subseteq {"posted", "running", "done"}

Pid(c) == c[1]
Server(c) == [conn |-> c, end |-> "server"]
Client(c) == [conn |-> c, end |-> "client"]
Closed == [conn |-> NoConn, end |-> "closed"]

VARIABLES
  exec, waited, answer,   \* the delegate task of each call, as in TaskCall
  sessionsMap_,    \* fd -> the connection whose session is stored for it
  idxPidMap_,      \* pid -> fd
  epollEventMap_,  \* descriptors with an entry in the map of epoll events
  circleBufMap_,   \* descriptors with a receive buffer
  flag,            \* the SocketPairFlag shared by a call and its task
  leakTimer,       \* calls whose timer to close the sockets is armed
  notified,        \* sessions whose deletion the observers were told of
  fdTable,         \* the kernel's table of the service's descriptors
  held             \* held[c]: the client process has its end of c open

taskVars == <<exec, waited, answer>>
maps == <<sessionsMap_, idxPidMap_, epollEventMap_, circleBufMap_, notified>>
vars == <<taskVars, maps, flag, leakTimer, fdTable, held>>

Task == INSTANCE TaskCall WITH Ids <- Conns

NewFlag == [serverFd |-> NoFd, clientFd |-> NoFd, executeClosed |-> FALSE]

Init ==
  /\ Task!Init
  /\ sessionsMap_ = [fd \in Fds |-> NoConn]
  /\ idxPidMap_ = [p \in Pids |-> NoFd]
  /\ epollEventMap_ = {} /\ circleBufMap_ = {} /\ notified = {}
  /\ flag = [c \in Conns |-> NewFlag]
  /\ leakTimer = {}
  /\ fdTable = [fd \in Fds |-> Closed]
  /\ held = [c \in Conns |-> FALSE]

\* The worker is inside a task's function: it does nothing else.
WorkerFree == \A c \in Conns : exec[c] # "running"

\* Both ends of c that the service itself has open.
OpenEnds(c) == {fd \in Fds : fdTable[fd] \in {Server(c), Client(c)}}
-----------------------------------------------------------------------------
(* The client and the binder thread that serves its call.                  *)

\* The client calls AllocSocketFd; MMIClient has one connection at a time and
\* makes the next call only after it closed the last or was refused it.
AllocSocketFd(c) ==
  /\ Cardinality({d \in Conns : exec[d] # "none"}) < MaxCalls
  /\ \A d \in Conns : Pid(d) = Pid(c) /\ exec[d] # "none" =>
       /\ answer[d] # "none"
       /\ ~held[d]
       /\ answer[d] = "RESULT" => \A fd \in Fds : fdTable[fd] # Client(d)
  /\ Task!Accept(c)
  /\ UNCHANGED <<maps, flag, leakTimer, fdTable, held>>

\* Mutant: the early return for a result is missing and the timer is armed.
GetResult_ArmsTimer(c) ==
  /\ Task!ReturnResult(c)
  /\ leakTimer' = leakTimer \union {c}
  /\ UNCHANGED <<maps, flag, fdTable, held>>

\* future.get() returns what AddSocketPairInfo returned.
GetResult(c) ==
  /\ Task!ReturnResult(c)
  /\ UNCHANGED <<maps, flag, leakTimer, fdTable, held>>

\* wait_for times out.
WaitTimesOut(c) ==
  /\ exec[c] \in TimeoutKinds
  /\ Task!GiveUp(c)
  /\ UNCHANGED <<maps, flag, leakTimer, fdTable, held>>

\* PostSyncTask returns its code, and AllocSocketFdResult arms the timer if the
\* task is said to be running.
AllocSocketFdResult(c) ==
  /\ Task!ReturnTimeout(c)
  /\ leakTimer' = IF answer'[c] = "ETASKS_WAIT_TIMEOUT_BUT_RUNNING"
                  THEN leakTimer \union {c} ELSE leakTimer
  /\ UNCHANGED <<maps, flag, fdTable, held>>

\* The reply is sent: the client, unless it died meanwhile, has the descriptor
\* and the service's copy of it is closed.
Reply(c) ==
  /\ answer[c] = "RESULT"
  /\ \E fd \in Fds :
       /\ fdTable[fd] = Client(c)
       /\ fdTable' = [fdTable EXCEPT ![fd] = Closed]
  /\ \E alive \in BOOLEAN : held' = [held EXCEPT ![c] = alive]
  /\ UNCHANGED <<taskVars, maps, flag, leakTimer>>

\* The client closes its end (MMIClient::Stop, OnDisconnected) or dies.
ClientCloses(c) ==
  /\ held[c]
  /\ held' = [held EXCEPT ![c] = FALSE]
  /\ UNCHANGED <<taskVars, maps, flag, leakTimer, fdTable>>
-----------------------------------------------------------------------------
(* The worker.                                                             *)

\* DelegateTasks::ProcessTasks takes a task; one whose caller gave up is thrown
\* away if the worker sees it in time.
BeginTask(c) ==
  /\ WorkerFree
  /\ Task!Begin(c)
  /\ UNCHANGED <<maps, flag, leakTimer, fdTable, held>>

DiscardTask(c) ==
  /\ WorkerFree
  /\ Task!Discard(c)
  /\ UNCHANGED <<maps, flag, leakTimer, fdTable, held>>

\* Mutant: the index is given the pid where it wants the descriptor.
AddSession_Pid(c, fd) ==
  /\ idxPidMap_' = [idxPidMap_ EXCEPT ![Pid(c)] = Pid(c)]
  /\ sessionsMap_' = [sessionsMap_ EXCEPT ![fd] = c]

\* AddSession; the map of pids is written without a look at what is there.
AddSession(c, fd) ==
  /\ idxPidMap_' = [idxPidMap_ EXCEPT ![Pid(c)] = fd]
  /\ sessionsMap_' = [sessionsMap_ EXCEPT ![fd] = c]

\* Mutant: the server's end is not added to the epoll set.
AddSocketPairInfo_NoEpoll(c) ==
  /\ Task!Finish(c)
  /\ \E s, k \in Fds :
       /\ s # k /\ fdTable[s] = Closed /\ fdTable[k] = Closed
       /\ fdTable' = [fdTable EXCEPT ![s] = Server(c), ![k] = Client(c)]
       /\ flag' = [flag EXCEPT ![c].serverFd = s, ![c].clientFd = k]
       /\ AddSession(c, s)
  /\ UNCHANGED <<epollEventMap_, circleBufMap_, notified, leakTimer, held>>

AddSocketPairInfo(c) ==
  /\ Task!Finish(c)
  /\ \E s, k \in Fds :
       /\ s # k /\ fdTable[s] = Closed /\ fdTable[k] = Closed
       /\ fdTable' = [fdTable EXCEPT ![s] = Server(c), ![k] = Client(c)]
       /\ flag' = [flag EXCEPT ![c].serverFd = s, ![c].clientFd = k]
       /\ epollEventMap_' = epollEventMap_ \union {s}
       /\ AddSession(c, s)
  /\ UNCHANGED <<circleBufMap_, notified, leakTimer, held>>

\* socketpair fails.
SocketPairFails(c) ==
  /\ Task!Finish(c)
  /\ UNCHANGED <<maps, flag, leakTimer, fdTable, held>>

\* SetFdProperty or AddEpoll fails: CLOSE_SOCK closes both ends again.  The
\* flag keeps their numbers, which nobody reads once executeClosed is set.
CloseSock(c) ==
  /\ Task!Finish(c)
  /\ \E s, k \in Fds : s # k /\ fdTable[s] = Closed /\ fdTable[k] = Closed
  /\ flag' = [flag EXCEPT ![c].executeClosed = TRUE]
  /\ UNCHANGED <<maps, leakTimer, fdTable, held>>

\* Mutant: the timer forgets the client's end.
ClosedByTimer_ServerOnly(c) ==
  IF flag[c].executeClosed THEN {} ELSE {flag[c].serverFd}

\* The descriptors of a pair that its timer or CLOSE_SOCK has not closed.
ClosedByTimer(c) ==
  IF flag[c].executeClosed THEN {} ELSE {flag[c].serverFd, flag[c].clientFd}

\* The timer of AllocSocketFdResult.
CloseSocketFdTimer(c) ==
  /\ WorkerFree
  /\ c \in leakTimer
  /\ leakTimer' = leakTimer \ {c}
  /\ fdTable' = [fd \in Fds |->
                   IF fd \in ClosedByTimer(c) THEN Closed ELSE fdTable[fd]]
  /\ flag' = [flag EXCEPT ![c] =
                IF @.executeClosed THEN @
                ELSE [serverFd |-> NoFd, clientFd |-> NoFd,
                      executeClosed |-> TRUE]]
  /\ UNCHANGED <<taskVars, maps, held>>

\* A message of the client arrives; OnEpollRecv makes the buffer it needs.
OnEpollRecv(fd) ==
  /\ WorkerFree
  /\ fd \in epollEventMap_
  /\ \E c \in Conns : fdTable[fd] = Server(c) /\ held[c]
  /\ circleBufMap_' = circleBufMap_ \union {fd}
  /\ UNCHANGED <<taskVars, sessionsMap_, idxPidMap_, epollEventMap_, notified,
                 flag, leakTimer, fdTable, held>>

\* Mutants: the index keeps the pid, the map keeps the session, or the session
\* is erased before it is looked up for the observers.
DelSession_KeepsPid(fd) ==
  IF sessionsMap_[fd] = NoConn THEN UNCHANGED <<sessionsMap_, idxPidMap_, notified>>
  ELSE /\ notified' = notified \union {sessionsMap_[fd]}
       /\ sessionsMap_' = [sessionsMap_ EXCEPT ![fd] = NoConn]
       /\ UNCHANGED idxPidMap_

DelSession_KeepsSession(fd) ==
  IF sessionsMap_[fd] = NoConn THEN UNCHANGED <<sessionsMap_, idxPidMap_, notified>>
  ELSE /\ idxPidMap_' = [idxPidMap_ EXCEPT ![Pid(sessionsMap_[fd])] = NoFd]
       /\ notified' = notified \union {sessionsMap_[fd]}
       /\ UNCHANGED sessionsMap_

DelSession_Silent(fd) ==
  IF sessionsMap_[fd] = NoConn THEN UNCHANGED <<sessionsMap_, idxPidMap_, notified>>
  ELSE /\ idxPidMap_' = [idxPidMap_ EXCEPT ![Pid(sessionsMap_[fd])] = NoFd]
       /\ sessionsMap_' = [sessionsMap_ EXCEPT ![fd] = NoConn]
       /\ UNCHANGED notified

\* DelSession and NotifySessionDeleted.
DelSession(fd) ==
  IF sessionsMap_[fd] = NoConn THEN UNCHANGED <<sessionsMap_, idxPidMap_, notified>>
  ELSE /\ idxPidMap_' = [idxPidMap_ EXCEPT ![Pid(sessionsMap_[fd])] = NoFd]
       /\ notified' = notified \union {sessionsMap_[fd]}
       /\ sessionsMap_' = [sessionsMap_ EXCEPT ![fd] = NoConn]

\* Mutant: the receive buffer stays.
ReleaseSession_KeepsBuffer(fd) ==
  /\ DelSession(fd)
  /\ epollEventMap_' = epollEventMap_ \ {fd}
  /\ fdTable' = [fdTable EXCEPT ![fd] = Closed]
  /\ UNCHANGED circleBufMap_

ReleaseSession(fd) ==
  /\ DelSession(fd)
  /\ epollEventMap_' = epollEventMap_ \ {fd}
  /\ circleBufMap_' = circleBufMap_ \ {fd}
  /\ fdTable' = [fdTable EXCEPT ![fd] = Closed]

\* Nobody has the client's end of c open any more.
HungUp(c) == ~held[c] /\ \A fd \in Fds : fdTable[fd] # Client(c)

\* EPOLLHUP, EPOLLERR or an end of file on a socket of the epoll set.
OnEpollHangUp(fd) ==
  /\ WorkerFree
  /\ fd \in epollEventMap_
  /\ \E c \in Conns : fdTable[fd] = Server(c) /\ HungUp(c)
  /\ ReleaseSession(fd)
  /\ UNCHANGED <<taskVars, flag, leakTimer, held>>
-----------------------------------------------------------------------------
Binder(c) == GetResult(c) \/ AllocSocketFdResult(c) \/ Reply(c)

RunTask(c) ==
  \/ BeginTask(c) \/ DiscardTask(c)
  \/ AddSocketPairInfo(c) \/ SocketPairFails(c) \/ CloseSock(c)

Next ==
  \/ \E c \in Conns :
       \/ AllocSocketFd(c) \/ WaitTimesOut(c) \/ ClientCloses(c)
       \/ Binder(c) \/ RunTask(c) \/ CloseSocketFdTimer(c)
  \/ \E fd \in Fds : OnEpollRecv(fd) \/ OnEpollHangUp(fd)

Spec == Init /\ [][Next]_vars

\* The binder thread and the event loop go on; an armed timer fires.
Fairness ==
  /\ WF_vars(\E c \in Conns : RunTask(c))
  /\ \A c \in Conns : WF_vars(Binder(c)) /\ WF_vars(CloseSocketFdTimer(c))
  /\ \A fd \in Fds : WF_vars(OnEpollHangUp(fd))

FairSpec == Spec /\ Fairness
-----------------------------------------------------------------------------
(* Properties.                                                             *)

Ends == [conn : Conns, end : {"server", "client"}]

\* Every table of the server has its type.
TypeOK ==
  /\ Task!TypeOK
  /\ sessionsMap_ \in [Fds -> Conns \union {NoConn}]
  /\ idxPidMap_ \in [Pids -> Fds \union {NoFd}]
  /\ epollEventMap_ \subseteq Fds
  /\ circleBufMap_ \subseteq Fds
  /\ notified \subseteq Conns
  /\ flag \in [Conns -> [serverFd : Fds \union {NoFd},
                         clientFd : Fds \union {NoFd},
                         executeClosed : BOOLEAN]]
  /\ leakTimer \subseteq Conns
  /\ fdTable \in [Fds -> Ends \union {Closed}]
  /\ held \in [Conns -> BOOLEAN]

\* The sockets of c's session were closed by the timer of AllocSocketFdResult,
\* which tells nobody.
Abandoned(c) == flag[c].executeClosed

\* A descriptor with a session is the server's end of that session's own
\* socket, so SendMsg(fd) writes to the client it is meant for; only sessions
\* whose sockets the timer closed are out of step (sessionsMap_ against the
\* kernel's table).
SessionsOwnTheirSocket ==
  \A fd \in Fds : LET c == sessionsMap_[fd] IN
    c # NoConn => fdTable[fd] = Server(c) \/ Abandoned(c)

\* The index of pids leads to a session of that very pid, unless the timer
\* closed sockets of that pid (idxPidMap_ against sessionsMap_, which AddSession
\* and DelSession keep together without ever comparing the two).
IndexLeadsToOwnSession ==
  \A p \in Pids : idxPidMap_[p] # NoFd =>
    \/ /\ sessionsMap_[idxPidMap_[p]] # NoConn
       /\ Pid(sessionsMap_[idxPidMap_[p]]) = p
    \/ \E c \in Conns : Pid(c) = p /\ Abandoned(c)

\* Bytes received from one client are never left to be read as the start of
\* another client's messages: a receive buffer belongs to the open socket of
\* the session that the map has for it.
BuffersBelongToOpenSockets ==
  \A fd \in circleBufMap_ :
    sessionsMap_[fd] # NoConn /\ fdTable[fd] = Server(sessionsMap_[fd])

\* The timer closes the sockets of its own call and none that was opened under
\* the same descriptor later (CloseSocketFdTimer works by number).
TimerStep ==
  \A c \in Conns : c \in leakTimer /\ c \notin leakTimer' =>
    \A fd \in Fds : fdTable'[fd] # fdTable[fd] =>
      fdTable[fd] \in {Server(c), Client(c)}

TimerClosesOwnSockets == [][TimerStep]_vars

\* A session leaves the map only after the observers were told of it
\* (NotifySessionDeleted), unless its sockets were closed by the timer.
NotifyStep ==
  \A fd \in Fds : LET c == sessionsMap_[fd] IN
    c # NoConn /\ sessionsMap_'[fd] # c => c \in notified' \/ Abandoned(c)

DeletionIsNotified == [][NotifyStep]_vars

\* The client has no end of c and will never get one: its call failed, or the
\* reply was sent and its end is closed.  A call that was told that its task
\* never ran is not one of them: the race in DelegateTasks may have run it
\* (ExpiredTaskIsDiscarded), and nobody knows then.
LetGo(c) ==
  /\ answer[c] \notin {"none", "ETASKS_WAIT_TIMEOUT"}
  /\ HungUp(c) \/ answer[c] # "RESULT"

\* When a client let go of a connection, also by giving up its call, the
\* service closes every descriptor it has of it for good (AllocSocketFdResult's
\* timer for an abandoned call, ReleaseSession for a connection that was made).
SocketsAreClosed ==
  \A c \in Conns : LetGo(c) ~> [](OpenEnds(c) = {})

\* The session of a client that is gone leaves the map for good, so that its
\* observers drop what they keep for it (OnEpollEvent, ReleaseSession); only
\* the timer can take the socket away that would tell the server.
DeadClientsAreForgotten ==
  \A c \in Conns :
    LetGo(c) ~> Abandoned(c) \/ [](\A fd \in Fds : sessionsMap_[fd] # c)

\* What the test UDSServerTest_GetSessionByPid states of the index: the session
\* found for a pid is that pid's (here for every reachable state).
SessionOfPidIsItsOwn ==
  \A p \in Pids : idxPidMap_[p] # NoFd =>
    /\ sessionsMap_[idxPidMap_[p]] # NoConn
    /\ Pid(sessionsMap_[idxPidMap_[p]]) = p

\* A client that is connected is found by its pid (GetSessionByPid).
ConnectedClientIsFound ==
  \A c \in Conns : held[c] =>
    /\ idxPidMap_[Pid(c)] # NoFd
    /\ sessionsMap_[idxPidMap_[Pid(c)]] = c
=============================================================================
