-------------------------- MODULE UdsServer_proofs --------------------------
(***************************************************************************)
(* Proofs about UdsServer, for every set of processes and descriptors and  *)
(* for every way in which waits may time out.                              *)
(***************************************************************************)
EXTENDS UdsServer, TLAPS

\* A call is answered with its result only after its task is done, and its
\* timer runs only for a call that was told the task was running.
CallsInOrder ==
  \A c \in Conns :
    /\ answer[c] = "RESULT" => exec[c] = "done"
    /\ c \in leakTimer => answer[c] = "ETASKS_WAIT_TIMEOUT_BUT_RUNNING"
    /\ held[c] => answer[c] = "RESULT"

\* Until a call is answered with its result, the flag it shares with its task
\* names the two ends of its own pair.
FlagNamesOwnPair ==
  \A c \in Conns : answer[c] # "RESULT" /\ ~flag[c].executeClosed =>
    \/ flag[c].serverFd = NoFd /\ flag[c].clientFd = NoFd
    \/ /\ flag[c].serverFd \in Fds /\ fdTable[flag[c].serverFd] = Server(c)
       /\ flag[c].clientFd \in Fds /\ fdTable[flag[c].clientFd] = Client(c)

\* The session of an open server's end is in the map under its descriptor.
OpenSocketsHaveSessions ==
  \A fd \in Fds : \A c \in Conns :
    fdTable[fd] = Server(c) => sessionsMap_[fd] = c

\* Only a client that was given its end has sent anything.
BuffersAreOfAnsweredCalls ==
  \A fd \in circleBufMap_ :
    sessionsMap_[fd] # NoConn /\ answer[sessionsMap_[fd]] = "RESULT"

UInv ==
  /\ TypeOK
  /\ CallsInOrder
  /\ FlagNamesOwnPair
  /\ OpenSocketsHaveSessions
  /\ BuffersAreOfAnsweredCalls
  /\ SessionsOwnTheirSocket
  /\ BuffersBelongToOpenSockets
  /\ IndexLeadsToOwnSession
-----------------------------------------------------------------------------
(* Descriptors.                                                            *)

\* What a descriptor is open for tells whose it is and which end.
LEMMA EndsDiffer ==
  ASSUME NEW c \in Conns, NEW d \in Conns
  PROVE  /\ Server(c) # Client(d) /\ Server(c) # Closed /\ Client(c) # Closed
         /\ Server(c) = Server(d) => c = d
         /\ Client(c) = Client(d) => c = d
  <1>1. Server(c).end = "server" /\ Client(d).end = "client"
        /\ Client(c).end = "client" /\ Closed.end = "closed"
    BY DEF Server, Client, Closed
  <1>2. Server(c).conn = c /\ Server(d).conn = d
        /\ Client(c).conn = c /\ Client(d).conn = d
    BY DEF Server, Client
  <1> QED
    BY <1>1, <1>2

LEMMA EndsTyped ==
  ASSUME NEW c \in Conns
  PROVE  Server(c) \in Ends /\ Client(c) \in Ends
  BY DEF Server, Client, Ends

LEMMA InitUInv == Init => UInv
  <1> SUFFICES ASSUME Init PROVE UInv
    OBVIOUS
  <1>1. TypeOK
    BY DEF Init, TypeOK, Task!Init, Task!TypeOK, Task!ExecStates, Task!Answers,
           NewFlag
  <1>2. CallsInOrder
    BY DEF Init, CallsInOrder, Task!Init
  <1>3. FlagNamesOwnPair
    BY DEF Init, FlagNamesOwnPair, NewFlag
  <1>4. OpenSocketsHaveSessions
    BY EndsDiffer DEF Init, OpenSocketsHaveSessions
  <1>5. BuffersAreOfAnsweredCalls /\ BuffersBelongToOpenSockets
    BY DEF Init, BuffersAreOfAnsweredCalls, BuffersBelongToOpenSockets
  <1>6. SessionsOwnTheirSocket /\ IndexLeadsToOwnSession
    BY DEF Init, SessionsOwnTheirSocket, IndexLeadsToOwnSession
  <1> QED
    BY <1>1, <1>2, <1>3, <1>4, <1>5, <1>6 DEF UInv
-----------------------------------------------------------------------------
(* The steps of a call that open and close nothing.                        *)

\* If no table changes, it is enough that flags change only by being set to
\* executeClosed and that calls stay in order.
LEMMA CallStep ==
  ASSUME UInv, TypeOK', CallsInOrder', UNCHANGED <<maps, fdTable>>,
         \A c \in Conns : answer[c] = "RESULT" => answer'[c] = "RESULT",
         \A c \in Conns : flag'[c] = flag[c] \/ flag'[c].executeClosed
  PROVE  UInv'
  <1>1. \A c \in Conns : Abandoned(c) => Abandoned(c)'
    BY DEF Abandoned
  <1>2. FlagNamesOwnPair'
    BY DEF UInv, FlagNamesOwnPair
  <1>3. OpenSocketsHaveSessions'
    BY DEF UInv, OpenSocketsHaveSessions, maps
  <1>4. BuffersAreOfAnsweredCalls'
    BY DEF UInv, BuffersAreOfAnsweredCalls, maps, TypeOK
  <1>5. SessionsOwnTheirSocket'
    BY <1>1 DEF UInv, SessionsOwnTheirSocket, maps, TypeOK
  <1>6. BuffersBelongToOpenSockets'
    BY DEF UInv, BuffersBelongToOpenSockets, maps
  <1>7. IndexLeadsToOwnSession'
    BY <1>1 DEF UInv, IndexLeadsToOwnSession, maps
  <1> QED
    BY <1>2, <1>3, <1>4, <1>5, <1>6, <1>7 DEF UInv

\* The steps of TaskCall keep its variables typed.
LEMMA TaskTyped ==
  ASSUME Task!TypeOK, NEW c \in Conns,
         \/ Task!Accept(c) \/ Task!Begin(c) \/ Task!Finish(c) \/ Task!Discard(c)
         \/ Task!ReturnResult(c) \/ Task!GiveUp(c) \/ Task!ReturnTimeout(c)
  PROVE  Task!TypeOK'
  BY DEF Task!TypeOK, Task!Accept, Task!Begin, Task!Finish, Task!Discard,
         Task!ReturnResult, Task!GiveUp, Task!ReturnTimeout, Task!Move,
         Task!ExecStates, Task!Answers

\* What they do to answers and to a task that is done.
LEMMA TaskOrder ==
  ASSUME Task!TypeOK, NEW c \in Conns,
         \/ Task!Accept(c) \/ Task!Begin(c) \/ Task!Finish(c) \/ Task!Discard(c)
         \/ Task!ReturnResult(c) \/ Task!GiveUp(c) \/ Task!ReturnTimeout(c)
  PROVE  /\ \A d \in Conns : exec[d] = "done" => exec'[d] = "done"
         /\ \A d \in Conns : answer[d] # "none" => answer'[d] = answer[d]
         /\ \A d \in Conns : answer'[d] = "RESULT" =>
              answer[d] = "RESULT" \/ exec'[d] = "done"
  BY DEF Task!TypeOK, Task!Accept, Task!Begin, Task!Finish, Task!Discard,
         Task!ReturnResult, Task!GiveUp, Task!ReturnTimeout, Task!Move

LEMMA QuietUInv ==
  ASSUME UInv, NEW c \in Conns,
         \/ AllocSocketFd(c) \/ GetResult(c) \/ WaitTimesOut(c)
         \/ AllocSocketFdResult(c) \/ ClientCloses(c)
         \/ BeginTask(c) \/ DiscardTask(c) \/ SocketPairFails(c) \/ CloseSock(c)
  PROVE  UInv'
  <1>0. TypeOK /\ Task!TypeOK /\ CallsInOrder
    BY DEF UInv, TypeOK
  <1>1. CASE ClientCloses(c)
    <2>1. TypeOK'
      BY <1>0, <1>1 DEF ClientCloses, TypeOK, Task!TypeOK, taskVars, maps
    <2>2. CallsInOrder'
      BY <1>0, <1>1 DEF ClientCloses, TypeOK, CallsInOrder, taskVars
    <2>3. UNCHANGED <<maps, fdTable>>
          /\ \A d \in Conns : flag'[d] = flag[d] /\ answer'[d] = answer[d]
      BY <1>1 DEF ClientCloses, taskVars
    <2> QED
      BY <2>1, <2>2, <2>3, CallStep
  <1>2. CASE \/ AllocSocketFd(c) \/ GetResult(c) \/ WaitTimesOut(c)
             \/ BeginTask(c) \/ DiscardTask(c) \/ SocketPairFails(c)
    <2>1. /\ UNCHANGED <<maps, flag, leakTimer, fdTable, held>>
          /\ \/ Task!Accept(c) \/ Task!Begin(c) \/ Task!Finish(c)
             \/ Task!Discard(c) \/ Task!ReturnResult(c) \/ Task!GiveUp(c)
      BY <1>2 DEF AllocSocketFd, GetResult, WaitTimesOut, BeginTask,
                  DiscardTask, SocketPairFails
    <2>2. Task!TypeOK'
      BY <1>0, <2>1, TaskTyped
    <2>3. TypeOK'
      BY <1>0, <2>1, <2>2 DEF TypeOK, maps
    <2>4. CallsInOrder'
      BY <1>0, <2>1, TaskOrder DEF CallsInOrder
    <2>5. /\ UNCHANGED <<maps, fdTable>>
          /\ \A d \in Conns : flag'[d] = flag[d]
          /\ \A d \in Conns : answer[d] = "RESULT" => answer'[d] = "RESULT"
      BY <1>0, <2>1, TaskOrder
    <2> QED
      BY <2>3, <2>4, <2>5, CallStep
  <1>3. CASE AllocSocketFdResult(c)
    <2>1. Task!ReturnTimeout(c) /\ UNCHANGED <<maps, flag, fdTable, held>>
      BY <1>3 DEF AllocSocketFdResult
    <2>2. leakTimer' \subseteq leakTimer \union {c}
          /\ (c \in leakTimer' =>
                c \in leakTimer \/ answer'[c] = "ETASKS_WAIT_TIMEOUT_BUT_RUNNING")
      BY <1>3 DEF AllocSocketFdResult
    <2>3. Task!TypeOK'
      BY <1>0, <2>1, TaskTyped
    <2>4. TypeOK'
      BY <1>0, <2>1, <2>2, <2>3 DEF TypeOK, maps
    <2>5. /\ \A d \in Conns : exec[d] = "done" => exec'[d] = "done"
          /\ \A d \in Conns : answer[d] # "none" => answer'[d] = answer[d]
          /\ \A d \in Conns : answer'[d] = "RESULT" =>
               answer[d] = "RESULT" \/ exec'[d] = "done"
      BY <1>0, <2>1, TaskOrder
    <2>6. CallsInOrder'
      BY <1>0, <2>1, <2>2, <2>5 DEF CallsInOrder
    <2> QED
      BY <2>1, <2>4, <2>5, <2>6, CallStep
  <1>4. CASE CloseSock(c)
    <2>1. /\ Task!Finish(c) /\ UNCHANGED <<maps, leakTimer, fdTable, held>>
          /\ flag' = [flag EXCEPT ![c].executeClosed = TRUE]
      BY <1>4 DEF CloseSock
    <2>2. Task!TypeOK'
      BY <1>0, <2>1, TaskTyped
    <2>3. TypeOK'
      BY <1>0, <2>1, <2>2 DEF TypeOK, maps
    <2>4. CallsInOrder'
      BY <1>0, <2>1, TaskOrder DEF CallsInOrder
    <2>5. \A d \in Conns : flag'[d] = flag[d] \/ flag'[d].executeClosed
      BY <1>0, <2>1 DEF TypeOK
    <2>6. \A d \in Conns : answer[d] = "RESULT" => answer'[d] = "RESULT"
      BY <1>0, <2>1, TaskOrder
    <2> QED
      BY <2>1, <2>3, <2>4, <2>5, <2>6, CallStep
  <1> QED
    BY <1>1, <1>2, <1>3, <1>4
-----------------------------------------------------------------------------
(* The steps that open and close descriptors.                              *)

\* The task makes a pair: both descriptors were free.
LEMMA AddSocketPairInfoUInv ==
  ASSUME UInv, NEW c \in Conns, AddSocketPairInfo(c)
  PROVE  UInv'
  <1>1. PICK s \in Fds, k \in Fds :
          /\ s # k /\ fdTable[s] = Closed /\ fdTable[k] = Closed
          /\ fdTable' = [fdTable EXCEPT ![s] = Server(c), ![k] = Client(c)]
          /\ flag' = [flag EXCEPT ![c].serverFd = s, ![c].clientFd = k]
          /\ epollEventMap_' = epollEventMap_ \union {s}
          /\ AddSession(c, s)
    BY DEF AddSocketPairInfo
  <1>2. Task!Finish(c) /\ UNCHANGED <<circleBufMap_, notified, leakTimer, held>>
    BY DEF AddSocketPairInfo
  <1>3. TypeOK /\ Task!TypeOK /\ CallsInOrder
    BY DEF UInv, TypeOK
  <1>4. /\ idxPidMap_' = [idxPidMap_ EXCEPT ![Pid(c)] = s]
        /\ sessionsMap_' = [sessionsMap_ EXCEPT ![s] = c]
    BY <1>1 DEF AddSession
  <1>5. /\ answer' = answer /\ answer[c] # "RESULT"
        /\ \A d \in Conns : exec[d] = "done" => exec'[d] = "done"
    <2>1. answer' = answer /\ exec[c] = "running"
      BY <1>2 DEF Task!Finish, Task!Move
    <2> QED
      BY <1>2, <1>3, <2>1, TaskOrder DEF CallsInOrder
  <1>6. /\ fdTable'[s] = Server(c) /\ fdTable'[k] = Client(c)
        /\ \A fd \in Fds \ {s, k} : fdTable'[fd] = fdTable[fd]
        /\ sessionsMap_'[s] = c
        /\ \A fd \in Fds \ {s} : sessionsMap_'[fd] = sessionsMap_[fd]
        /\ Pid(c) \in Pids /\ idxPidMap_'[Pid(c)] = s
        /\ \A p \in Pids \ {Pid(c)} : idxPidMap_'[p] = idxPidMap_[p]
    BY <1>1, <1>3, <1>4 DEF TypeOK, Pid, Conns
  <1>7. /\ \A d \in Conns \ {c} : flag'[d] = flag[d]
        /\ flag'[c].serverFd = s /\ flag'[c].clientFd = k
        /\ \A d \in Conns : Abandoned(d)' <=> Abandoned(d)
    BY <1>1, <1>3 DEF TypeOK, Abandoned
  <1>8. \A fd \in Fds : fdTable[fd] # Closed => fd # s /\ fd # k
    BY <1>1
  <1>a. TypeOK'
    <2>1. Task!TypeOK'
      BY <1>2, <1>3, TaskTyped
    <2>2. fdTable' \in [Fds -> Ends \union {Closed}]
      BY <1>1, <1>3, EndsTyped DEF TypeOK
    <2>3. sessionsMap_' \in [Fds -> Conns \union {NoConn}]
          /\ idxPidMap_' \in [Pids -> Fds \union {NoFd}]
      BY <1>3, <1>4 DEF TypeOK
    <2>4. flag' \in [Conns -> [serverFd : Fds \union {NoFd},
                               clientFd : Fds \union {NoFd},
                               executeClosed : BOOLEAN]]
      <3>1. flag \in [Conns -> [serverFd : Fds \union {NoFd},
                                clientFd : Fds \union {NoFd},
                                executeClosed : BOOLEAN]]
        BY <1>3 DEF TypeOK
      <3>2. flag' = [flag EXCEPT ![c].serverFd = s, ![c].clientFd = k]
        BY <1>1
      <3> QED
        BY <3>1, <3>2
    <2> QED
      <3>1. epollEventMap_' \subseteq Fds
        BY <1>1, <1>3 DEF TypeOK
      <3>2. /\ circleBufMap_ \subseteq Fds /\ notified \subseteq Conns
            /\ leakTimer \subseteq Conns /\ held \in [Conns -> BOOLEAN]
        BY <1>3 DEF TypeOK
      <3> QED
        BY <1>2, <2>1, <2>2, <2>3, <2>4, <3>1, <3>2 DEF TypeOK
  <1>b. CallsInOrder'
    BY <1>2, <1>3, <1>5 DEF CallsInOrder
  <1>c. FlagNamesOwnPair'
    <2>1. ASSUME NEW d \in Conns, answer'[d] # "RESULT", ~flag'[d].executeClosed
          PROVE  \/ flag'[d].serverFd = NoFd /\ flag'[d].clientFd = NoFd
                 \/ /\ flag'[d].serverFd \in Fds /\ fdTable'[flag'[d].serverFd] = Server(d)
                    /\ flag'[d].clientFd \in Fds /\ fdTable'[flag'[d].clientFd] = Client(d)
      <3>1. CASE d = c
        BY <1>6, <1>7, <3>1
      <3>2. CASE d # c
        <4>1. \/ flag[d].serverFd = NoFd /\ flag[d].clientFd = NoFd
              \/ /\ flag[d].serverFd \in Fds /\ fdTable[flag[d].serverFd] = Server(d)
                 /\ flag[d].clientFd \in Fds /\ fdTable[flag[d].clientFd] = Client(d)
          BY <1>5, <1>7, <2>1, <3>2 DEF UInv, FlagNamesOwnPair
        <4>2. flag'[d] = flag[d]
          BY <1>7, <3>2
        <4> QED
          BY <1>6, <1>8, <4>1, <4>2, EndsDiffer
      <3> QED
        BY <3>1, <3>2
    <2> QED
      BY <2>1 DEF FlagNamesOwnPair
  <1>d. OpenSocketsHaveSessions'
    <2>1. ASSUME NEW fd \in Fds, NEW d \in Conns, fdTable'[fd] = Server(d)
          PROVE  sessionsMap_'[fd] = d
      BY <1>6, <2>1, EndsDiffer DEF UInv, OpenSocketsHaveSessions
    <2> QED
      BY <2>1 DEF OpenSocketsHaveSessions
  <1>e. ASSUME NEW fd \in circleBufMap_
        PROVE  /\ fd \in Fds \ {s, k} /\ sessionsMap_[fd] \in Conns
               /\ fdTable[fd] = Server(sessionsMap_[fd])
               /\ answer[sessionsMap_[fd]] = "RESULT"
    <2>1. fd \in Fds /\ sessionsMap_[fd] \in Conns
          /\ fdTable[fd] = Server(sessionsMap_[fd])
          /\ answer[sessionsMap_[fd]] = "RESULT"
      BY <1>3 DEF UInv, TypeOK, BuffersBelongToOpenSockets, BuffersAreOfAnsweredCalls
    <2> QED
      BY <1>8, <2>1, EndsDiffer
  <1>f. BuffersAreOfAnsweredCalls' /\ BuffersBelongToOpenSockets'
    BY <1>2, <1>5, <1>6, <1>e, UdsAssumption
    DEF BuffersAreOfAnsweredCalls, BuffersBelongToOpenSockets
  <1>g. SessionsOwnTheirSocket'
    <2>1. ASSUME NEW fd \in Fds, sessionsMap_'[fd] # NoConn
          PROVE  \/ fdTable'[fd] = Server(sessionsMap_'[fd])
                 \/ flag'[sessionsMap_'[fd]].executeClosed
      <3>1. CASE fd = s
        BY <1>6, <3>1
      <3>2. CASE fd # s
        <4>1. sessionsMap_'[fd] = sessionsMap_[fd] /\ sessionsMap_[fd] \in Conns
          BY <1>3, <1>6, <2>1, <3>2 DEF TypeOK
        <4>2. fdTable[fd] = Server(sessionsMap_[fd]) \/ Abandoned(sessionsMap_[fd])
          BY <2>1, <4>1 DEF UInv, SessionsOwnTheirSocket
        <4> QED
          BY <1>6, <1>7, <1>8, <3>2, <4>1, <4>2, EndsDiffer DEF Abandoned
      <3> QED
        BY <3>1, <3>2
    <2> QED
      BY <2>1 DEF SessionsOwnTheirSocket, Abandoned
  <1>h. IndexLeadsToOwnSession'
    <2>1. ASSUME NEW p \in Pids, idxPidMap_'[p] # NoFd
          PROVE  \/ /\ sessionsMap_'[idxPidMap_'[p]] # NoConn
                    /\ Pid(sessionsMap_'[idxPidMap_'[p]]) = p
                 \/ \E d \in Conns : Pid(d) = p /\ Abandoned(d)'
      <3>1. CASE p = Pid(c)
        BY <1>6, <3>1, UdsAssumption
      <3>2. CASE p # Pid(c)
        <4>1. idxPidMap_'[p] = idxPidMap_[p] /\ idxPidMap_[p] \in Fds
          BY <1>3, <1>6, <2>1, <3>2 DEF TypeOK
        <4>2. CASE \E d \in Conns : Pid(d) = p /\ Abandoned(d)
          BY <1>7, <4>2
        <4>3. CASE /\ sessionsMap_[idxPidMap_[p]] # NoConn
                   /\ Pid(sessionsMap_[idxPidMap_[p]]) = p
          <5>1. CASE idxPidMap_[p] # s
            BY <1>6, <4>1, <4>3, <5>1
          <5>2. CASE idxPidMap_[p] = s
            <6>1. sessionsMap_[s] \in Conns
              BY <1>3, <4>3, <5>2 DEF TypeOK
            <6>2. Abandoned(sessionsMap_[s])
              BY <1>1, <4>3, <5>2, <6>1, EndsDiffer
              DEF UInv, SessionsOwnTheirSocket
            <6> QED
              BY <1>7, <4>3, <5>2, <6>1, <6>2
          <5> QED
            BY <5>1, <5>2
        <4> QED
          BY <2>1, <4>1, <4>2, <4>3 DEF UInv, IndexLeadsToOwnSession
      <3> QED
        BY <3>1, <3>2
    <2> QED
      BY <2>1 DEF IndexLeadsToOwnSession
  <1> QED
    BY <1>a, <1>b, <1>c, <1>d, <1>f, <1>g, <1>h DEF UInv

\* The service's copy of the client's end is closed, so it is not a socket that
\* any table names.
LEMMA ReplyUInv ==
  ASSUME UInv, NEW c \in Conns, Reply(c)
  PROVE  UInv'
  <1>1. PICK k \in Fds : /\ fdTable[k] = Client(c)
                         /\ fdTable' = [fdTable EXCEPT ![k] = Closed]
    BY DEF Reply
  <1>2. /\ answer[c] = "RESULT"
        /\ UNCHANGED <<exec, waited, answer, flag, leakTimer>>
        /\ UNCHANGED maps
        /\ \E alive \in BOOLEAN : held' = [held EXCEPT ![c] = alive]
    BY DEF Reply, taskVars
  <1>3. TypeOK /\ CallsInOrder
    BY DEF UInv
  <1>4. /\ fdTable'[k] = Closed
        /\ \A fd \in Fds \ {k} : fdTable'[fd] = fdTable[fd]
    BY <1>1, <1>3 DEF TypeOK
  <1>5. \A fd \in Fds : \A d \in Conns :
          /\ fdTable'[fd] = Server(d) <=> fdTable[fd] = Server(d)
          /\ d # c => (fdTable'[fd] = Client(d) <=> fdTable[fd] = Client(d))
    BY <1>1, <1>4, EndsDiffer
  <1>a. TypeOK'
    BY <1>1, <1>2, <1>3 DEF TypeOK, Task!TypeOK, maps
  <1>b. CallsInOrder'
    BY <1>2, <1>3 DEF CallsInOrder, TypeOK
  <1>c. FlagNamesOwnPair'
    BY <1>2, <1>5 DEF UInv, FlagNamesOwnPair
  <1>d. OpenSocketsHaveSessions'
    BY <1>2, <1>5 DEF UInv, OpenSocketsHaveSessions, maps
  <1>e. BuffersAreOfAnsweredCalls'
    BY <1>2 DEF UInv, BuffersAreOfAnsweredCalls, maps
  <1>f. BuffersBelongToOpenSockets'
    BY <1>2, <1>3, <1>5 DEF UInv, BuffersBelongToOpenSockets, maps, TypeOK
  <1>g. SessionsOwnTheirSocket'
    BY <1>2, <1>3, <1>5 DEF UInv, SessionsOwnTheirSocket, Abandoned, maps, TypeOK
  <1>h. IndexLeadsToOwnSession'
    BY <1>2 DEF UInv, IndexLeadsToOwnSession, Abandoned, maps
  <1> QED
    BY <1>a, <1>b, <1>c, <1>d, <1>e, <1>f, <1>g, <1>h DEF UInv

\* What the timer closes are the ends of its own call's pair.
LEMMA TimerCloses ==
  ASSUME UInv, NEW c \in Conns, CloseSocketFdTimer(c)
  PROVE  /\ \A fd \in Fds : fdTable'[fd] # fdTable[fd] =>
              fdTable[fd] \in {Server(c), Client(c)} /\ fdTable'[fd] = Closed
         /\ \A d \in Conns \ {c} : flag'[d] = flag[d]
         /\ flag'[c].executeClosed
         /\ answer[c] # "RESULT"
  <1>1. /\ c \in leakTimer
        /\ fdTable' = [fd \in Fds |->
                         IF fd \in ClosedByTimer(c) THEN Closed ELSE fdTable[fd]]
        /\ flag' = [flag EXCEPT ![c] =
                      IF @.executeClosed THEN @
                      ELSE [serverFd |-> NoFd, clientFd |-> NoFd,
                            executeClosed |-> TRUE]]
    BY DEF CloseSocketFdTimer
  <1>2. TypeOK /\ CallsInOrder /\ FlagNamesOwnPair
    BY DEF UInv
  <1>3. answer[c] # "RESULT"
    BY <1>1, <1>2 DEF CallsInOrder
  <1>4. /\ \A d \in Conns \ {c} : flag'[d] = flag[d]
        /\ flag'[c].executeClosed
    BY <1>1, <1>2 DEF TypeOK
  <1>5. ASSUME NEW fd \in Fds, fdTable'[fd] # fdTable[fd]
        PROVE  fdTable[fd] \in {Server(c), Client(c)} /\ fdTable'[fd] = Closed
    <2>1. fd \in ClosedByTimer(c) /\ fdTable'[fd] = Closed
      BY <1>1, <1>5
    <2>2. ~flag[c].executeClosed /\ fd \in {flag[c].serverFd, flag[c].clientFd}
      BY <2>1 DEF ClosedByTimer
    <2> QED
      BY <1>2, <1>3, <2>1, <2>2, UdsAssumption DEF FlagNamesOwnPair
  <1> QED
    BY <1>3, <1>4, <1>5

LEMMA TimerUInv ==
  ASSUME UInv, NEW c \in Conns, CloseSocketFdTimer(c)
  PROVE  UInv'
  <1>1. /\ \A fd \in Fds : fdTable'[fd] # fdTable[fd] =>
             fdTable[fd] \in {Server(c), Client(c)} /\ fdTable'[fd] = Closed
        /\ \A d \in Conns \ {c} : flag'[d] = flag[d]
        /\ flag'[c].executeClosed
        /\ answer[c] # "RESULT"
    BY TimerCloses
  <1>2. UNCHANGED <<exec, waited, answer, held>> /\ UNCHANGED maps
        /\ leakTimer' = leakTimer \ {c}
    BY DEF CloseSocketFdTimer, taskVars
  <1>3. TypeOK /\ CallsInOrder
    BY DEF UInv
  <1>4. \A fd \in Fds : \A d \in Conns \ {c} :
          /\ fdTable'[fd] = Server(d) <=> fdTable[fd] = Server(d)
          /\ fdTable'[fd] = Client(d) <=> fdTable[fd] = Client(d)
    BY <1>1, EndsDiffer
  <1>5. \A fd \in Fds : fdTable'[fd] = Server(c) => fdTable[fd] = Server(c)
    BY <1>1, EndsDiffer
  <1>6. \A d \in Conns : Abandoned(d) => flag'[d].executeClosed
    BY <1>1 DEF Abandoned
  <1>a. TypeOK'
    <2>1. fdTable' \in [Fds -> Ends \union {Closed}]
      BY <1>3 DEF TypeOK, CloseSocketFdTimer
    <2>2. flag' \in [Conns -> [serverFd : Fds \union {NoFd},
                               clientFd : Fds \union {NoFd},
                               executeClosed : BOOLEAN]]
      BY <1>3 DEF TypeOK, CloseSocketFdTimer
    <2> QED
      BY <1>2, <1>3, <2>1, <2>2 DEF TypeOK, Task!TypeOK, maps
  <1>b. CallsInOrder'
    BY <1>2, <1>3 DEF CallsInOrder
  <1>c. FlagNamesOwnPair'
    <2>1. ASSUME NEW d \in Conns, answer'[d] # "RESULT", ~flag'[d].executeClosed
          PROVE  \/ flag'[d].serverFd = NoFd /\ flag'[d].clientFd = NoFd
                 \/ /\ flag'[d].serverFd \in Fds /\ fdTable'[flag'[d].serverFd] = Server(d)
                    /\ flag'[d].clientFd \in Fds /\ fdTable'[flag'[d].clientFd] = Client(d)
      BY <1>1, <1>2, <1>4, <2>1 DEF UInv, FlagNamesOwnPair
    <2> QED
      BY <2>1 DEF FlagNamesOwnPair
  <1>d. OpenSocketsHaveSessions'
    BY <1>2, <1>4, <1>5 DEF UInv, OpenSocketsHaveSessions, maps
  <1>e. BuffersAreOfAnsweredCalls'
    BY <1>2 DEF UInv, BuffersAreOfAnsweredCalls, maps
  <1>f. BuffersBelongToOpenSockets'
    <2>1. ASSUME NEW fd \in circleBufMap_
          PROVE  sessionsMap_[fd] # NoConn /\ fdTable'[fd] = Server(sessionsMap_[fd])
      <3>1. /\ fd \in Fds /\ sessionsMap_[fd] \in Conns /\ sessionsMap_[fd] # NoConn
            /\ fdTable[fd] = Server(sessionsMap_[fd])
            /\ sessionsMap_[fd] # c
        BY <1>1, <1>3 DEF UInv, TypeOK, BuffersBelongToOpenSockets,
                          BuffersAreOfAnsweredCalls
      <3> QED
        BY <1>4, <3>1
    <2> QED
      BY <1>2, <2>1 DEF BuffersBelongToOpenSockets, maps
  <1>g. SessionsOwnTheirSocket'
    <2>1. ASSUME NEW fd \in Fds, sessionsMap_[fd] # NoConn
          PROVE  \/ fdTable'[fd] = Server(sessionsMap_[fd])
                 \/ flag'[sessionsMap_[fd]].executeClosed
      <3>1. sessionsMap_[fd] \in Conns
        BY <1>3, <2>1 DEF TypeOK
      <3>2. fdTable[fd] = Server(sessionsMap_[fd]) \/ Abandoned(sessionsMap_[fd])
        BY <2>1 DEF UInv, SessionsOwnTheirSocket
      <3> QED
        BY <1>1, <1>4, <1>6, <3>1, <3>2
    <2> QED
      BY <1>2, <2>1 DEF SessionsOwnTheirSocket, Abandoned, maps
  <1>h. IndexLeadsToOwnSession'
    BY <1>2, <1>6 DEF UInv, IndexLeadsToOwnSession, Abandoned, maps
  <1> QED
    BY <1>a, <1>b, <1>c, <1>d, <1>e, <1>f, <1>g, <1>h DEF UInv

\* A message: the descriptor is the server's end of an answered call.
LEMMA RecvUInv ==
  ASSUME UInv, NEW fd \in Fds, OnEpollRecv(fd)
  PROVE  UInv'
  <1>1. PICK c \in Conns : fdTable[fd] = Server(c) /\ held[c]
    BY DEF OnEpollRecv
  <1>2. /\ circleBufMap_' = circleBufMap_ \union {fd}
        /\ UNCHANGED <<exec, waited, answer, sessionsMap_, idxPidMap_,
                       epollEventMap_, notified, flag, leakTimer, fdTable, held>>
    BY DEF OnEpollRecv, taskVars
  <1>3. sessionsMap_[fd] = c /\ answer[c] = "RESULT"
    BY <1>1 DEF UInv, OpenSocketsHaveSessions, CallsInOrder
  <1>a. TypeOK'
    BY <1>2 DEF UInv, TypeOK, Task!TypeOK
  <1>b. CallsInOrder' /\ FlagNamesOwnPair' /\ OpenSocketsHaveSessions'
    BY <1>2 DEF UInv, CallsInOrder, FlagNamesOwnPair, OpenSocketsHaveSessions
  <1>c. BuffersAreOfAnsweredCalls' /\ BuffersBelongToOpenSockets'
    BY <1>1, <1>2, <1>3, UdsAssumption
    DEF UInv, BuffersAreOfAnsweredCalls, BuffersBelongToOpenSockets
  <1>d. SessionsOwnTheirSocket' /\ IndexLeadsToOwnSession'
    BY <1>2 DEF UInv, SessionsOwnTheirSocket, IndexLeadsToOwnSession, Abandoned
  <1> QED
    BY <1>a, <1>b, <1>c, <1>d DEF UInv

\* A hang-up: the session of the descriptor goes with everything it had.
LEMMA HangUpUInv ==
  ASSUME UInv, NEW fd \in Fds, OnEpollHangUp(fd)
  PROVE  UInv'
  <1>1. PICK c \in Conns : fdTable[fd] = Server(c) /\ HungUp(c)
    BY DEF OnEpollHangUp
  <1>2. /\ UNCHANGED <<exec, waited, answer, flag, leakTimer, held>>
        /\ DelSession(fd)
        /\ epollEventMap_' = epollEventMap_ \ {fd}
        /\ circleBufMap_' = circleBufMap_ \ {fd}
        /\ fdTable' = [fdTable EXCEPT ![fd] = Closed]
    BY DEF OnEpollHangUp, ReleaseSession, taskVars
  <1>3. TypeOK /\ CallsInOrder /\ sessionsMap_[fd] = c /\ c # NoConn
        /\ Pid(c) \in Pids
    BY <1>1, UdsAssumption DEF UInv, OpenSocketsHaveSessions, Pid, Conns
  <1>4. /\ idxPidMap_' = [idxPidMap_ EXCEPT ![Pid(c)] = NoFd]
        /\ notified' = notified \union {c}
        /\ sessionsMap_' = [sessionsMap_ EXCEPT ![fd] = NoConn]
    BY <1>2, <1>3 DEF DelSession
  <1>5. /\ fdTable'[fd] = Closed /\ sessionsMap_'[fd] = NoConn
        /\ idxPidMap_'[Pid(c)] = NoFd
        /\ \A e \in Fds \ {fd} : fdTable'[e] = fdTable[e]
                                 /\ sessionsMap_'[e] = sessionsMap_[e]
        /\ \A p \in Pids \ {Pid(c)} : idxPidMap_'[p] = idxPidMap_[p]
    BY <1>2, <1>3, <1>4 DEF TypeOK
  <1>6. \A e \in Fds : fdTable[e] # Client(c)
    BY <1>1 DEF HungUp
  <1>a. TypeOK'
    <2>1. fdTable' \in [Fds -> Ends \union {Closed}]
          /\ sessionsMap_' \in [Fds -> Conns \union {NoConn}]
          /\ idxPidMap_' \in [Pids -> Fds \union {NoFd}]
      BY <1>2, <1>3, <1>4 DEF TypeOK
    <2> QED
      BY <1>2, <1>3, <1>4, <2>1 DEF TypeOK, Task!TypeOK
  <1>b. CallsInOrder'
    BY <1>2, <1>3 DEF CallsInOrder
  <1>c. FlagNamesOwnPair'
    <2>1. ASSUME NEW d \in Conns, answer[d] # "RESULT", ~flag[d].executeClosed
          PROVE  \/ flag[d].serverFd = NoFd /\ flag[d].clientFd = NoFd
                 \/ /\ flag[d].serverFd \in Fds /\ fdTable'[flag[d].serverFd] = Server(d)
                    /\ flag[d].clientFd \in Fds /\ fdTable'[flag[d].clientFd] = Client(d)
      BY <1>1, <1>5, <1>6, <2>1, EndsDiffer DEF UInv, FlagNamesOwnPair
    <2> QED
      BY <1>2, <2>1 DEF FlagNamesOwnPair
  <1>d. OpenSocketsHaveSessions'
    <2>1. ASSUME NEW e \in Fds, NEW d \in Conns, fdTable'[e] = Server(d)
          PROVE  sessionsMap_'[e] = d
      BY <1>5, <2>1, EndsDiffer DEF UInv, OpenSocketsHaveSessions
    <2> QED
      BY <2>1 DEF OpenSocketsHaveSessions
  <1>e. BuffersAreOfAnsweredCalls' /\ BuffersBelongToOpenSockets'
    <2>1. \A e \in circleBufMap_' : e \in Fds \ {fd} /\ e \in circleBufMap_
      BY <1>2, <1>3 DEF TypeOK
    <2> QED
      BY <1>2, <1>5, <2>1
      DEF UInv, BuffersAreOfAnsweredCalls, BuffersBelongToOpenSockets
  <1>f. SessionsOwnTheirSocket'
    <2>1. ASSUME NEW e \in Fds, sessionsMap_'[e] # NoConn
          PROVE  \/ fdTable'[e] = Server(sessionsMap_'[e])
                 \/ flag[sessionsMap_'[e]].executeClosed
      BY <1>5, <2>1 DEF UInv, SessionsOwnTheirSocket, Abandoned
    <2> QED
      BY <1>2, <2>1 DEF SessionsOwnTheirSocket, Abandoned
  <1>g. IndexLeadsToOwnSession'
    <2>1. ASSUME NEW p \in Pids, idxPidMap_'[p] # NoFd
          PROVE  \/ /\ sessionsMap_'[idxPidMap_'[p]] # NoConn
                    /\ Pid(sessionsMap_'[idxPidMap_'[p]]) = p
                 \/ \E d \in Conns : Pid(d) = p /\ Abandoned(d)
      <3>1. p # Pid(c) /\ idxPidMap_'[p] = idxPidMap_[p] /\ idxPidMap_[p] \in Fds
        BY <1>3, <1>5, <2>1 DEF TypeOK
      <3> QED
        BY <1>3, <1>5, <2>1, <3>1 DEF UInv, IndexLeadsToOwnSession
    <2> QED
      BY <1>2, <2>1 DEF IndexLeadsToOwnSession, Abandoned
  <1> QED
    BY <1>a, <1>b, <1>c, <1>d, <1>e, <1>f, <1>g DEF UInv
-----------------------------------------------------------------------------
(* The theorems.                                                           *)

LEMMA NextUInv == UInv /\ [Next]_vars => UInv'
  <1> SUFFICES ASSUME UInv, [Next]_vars PROVE UInv'
    OBVIOUS
  <1>1. ASSUME NEW c \in Conns,
               AllocSocketFd(c) \/ WaitTimesOut(c) \/ ClientCloses(c)
        PROVE  UInv'
    BY <1>1, QuietUInv
  <1>2. ASSUME NEW c \in Conns, Binder(c) PROVE UInv'
    BY <1>2, QuietUInv, ReplyUInv DEF Binder
  <1>3. ASSUME NEW c \in Conns, RunTask(c) PROVE UInv'
    BY <1>3, QuietUInv, AddSocketPairInfoUInv DEF RunTask
  <1>4. ASSUME NEW c \in Conns, CloseSocketFdTimer(c) PROVE UInv'
    BY <1>4, TimerUInv
  <1>5. ASSUME NEW fd \in Fds, OnEpollRecv(fd) \/ OnEpollHangUp(fd) PROVE UInv'
    BY <1>5, RecvUInv, HangUpUInv
  <1>6. CASE UNCHANGED vars
    BY <1>6 DEF vars, taskVars, maps, UInv, TypeOK, Task!TypeOK, CallsInOrder,
                FlagNamesOwnPair, OpenSocketsHaveSessions,
                BuffersAreOfAnsweredCalls, SessionsOwnTheirSocket,
                BuffersBelongToOpenSockets, IndexLeadsToOwnSession, Abandoned
  <1> QED
    BY <1>1, <1>2, <1>3, <1>4, <1>5, <1>6 DEF Next

\* The tables of the server and what they say of each other, in every state.
THEOREM TablesAgree == Spec => []UInv
  <1> QED
    BY InitUInv, NextUInv, PTL DEF Spec

\* Every variable keeps its type.
THEOREM TypeCorrect == Spec => []TypeOK
  <1>1. UInv => TypeOK
    BY DEF UInv
  <1> QED
    BY <1>1, TablesAgree, PTL

\* No message goes to another client's socket: only a session whose sockets the
\* timer closed has a descriptor that is not its own.
THEOREM SocketsAreTheSessions == Spec => []SessionsOwnTheirSocket
  <1>1. UInv => SessionsOwnTheirSocket
    BY DEF UInv
  <1> QED
    BY <1>1, TablesAgree, PTL

\* The index of pids leads to a session of the pid.
THEOREM IndexIsRight == Spec => []IndexLeadsToOwnSession
  <1>1. UInv => IndexLeadsToOwnSession
    BY DEF UInv
  <1> QED
    BY <1>1, TablesAgree, PTL

\* No client's bytes are read as another's.
THEOREM BuffersAreOwn == Spec => []BuffersBelongToOpenSockets
  <1>1. UInv => BuffersBelongToOpenSockets
    BY DEF UInv
  <1> QED
    BY <1>1, TablesAgree, PTL
-----------------------------------------------------------------------------
(* What a step may never do.                                               *)

\* Steps other than the timer's leave every armed timer armed.
LEMMA OnlyTheTimerDisarms ==
  ASSUME [Next]_vars, NEW c \in leakTimer, c \notin leakTimer', c \in Conns
  PROVE  CloseSocketFdTimer(c)
  <1>1. ASSUME NEW d \in Conns, AllocSocketFd(d) \/ WaitTimesOut(d) \/ ClientCloses(d)
        PROVE  leakTimer' = leakTimer
    BY <1>1 DEF AllocSocketFd, WaitTimesOut, ClientCloses
  <1>2. ASSUME NEW d \in Conns, Binder(d) PROVE leakTimer \subseteq leakTimer'
    BY <1>2 DEF Binder, GetResult, AllocSocketFdResult, Reply
  <1>3. ASSUME NEW d \in Conns, RunTask(d) PROVE leakTimer' = leakTimer
    BY <1>3 DEF RunTask, BeginTask, DiscardTask, AddSocketPairInfo,
                SocketPairFails, CloseSock
  <1>4. ASSUME NEW d \in Conns, CloseSocketFdTimer(d) PROVE d = c
    BY <1>4 DEF CloseSocketFdTimer
  <1>5. ASSUME NEW fd \in Fds, OnEpollRecv(fd) \/ OnEpollHangUp(fd)
        PROVE  leakTimer' = leakTimer
    BY <1>5 DEF OnEpollRecv, OnEpollHangUp
  <1>6. CASE UNCHANGED vars
    BY <1>6 DEF vars
  <1> QED
    BY <1>1, <1>2, <1>3, <1>4, <1>5, <1>6 DEF Next

\* The timer of a call closes the two ends of that call's own pair and nothing
\* else, although it works by descriptor number: as long as the call was not
\* answered with its result, the flag names open descriptors of its own.
THEOREM TimerIsExact == Spec => TimerClosesOwnSockets
  <1>1. ASSUME UInv, [Next]_vars, NEW c \in Conns, c \in leakTimer, c \notin leakTimer',
               NEW fd \in Fds, fdTable'[fd] # fdTable[fd]
        PROVE  fdTable[fd] \in {Server(c), Client(c)}
    <2>1. CloseSocketFdTimer(c)
      BY <1>1, OnlyTheTimerDisarms
    <2>2. fd \in ClosedByTimer(c)
      BY <1>1, <2>1 DEF CloseSocketFdTimer
    <2>3. ~flag[c].executeClosed /\ fd \in {flag[c].serverFd, flag[c].clientFd}
      BY <2>2 DEF ClosedByTimer
    <2>4. answer[c] # "RESULT"
      BY <1>1 DEF UInv, CallsInOrder
    <2>5. fd # NoFd
      BY UdsAssumption
    <2> QED
      BY <1>1, <2>3, <2>4, <2>5 DEF UInv, FlagNamesOwnPair
  <1>2. UInv /\ [Next]_vars => TimerStep
    BY <1>1 DEF TimerStep
  <1> QED
    BY <1>2, TablesAgree, PTL DEF Spec, TimerClosesOwnSockets

\* A step that takes a session out of the map is the release that notifies its
\* observers, or stores a new session under a descriptor the timer had closed.
THEOREM ObserversAreTold == Spec => DeletionIsNotified
  <1>1. ASSUME UInv, [Next]_vars, NEW fd \in Fds, sessionsMap_[fd] # NoConn,
               sessionsMap_'[fd] # sessionsMap_[fd]
        PROVE  sessionsMap_[fd] \in notified' \/ Abandoned(sessionsMap_[fd])
    <2>1. ASSUME NEW c \in Conns,
                 AllocSocketFd(c) \/ WaitTimesOut(c) \/ ClientCloses(c)
                   \/ Binder(c) \/ CloseSocketFdTimer(c)
          PROVE  sessionsMap_' = sessionsMap_
      BY <2>1 DEF AllocSocketFd, WaitTimesOut, ClientCloses, Binder, GetResult,
                  AllocSocketFdResult, Reply, CloseSocketFdTimer, maps
    <2>2. ASSUME NEW c \in Conns,
                 BeginTask(c) \/ DiscardTask(c) \/ SocketPairFails(c) \/ CloseSock(c)
          PROVE  sessionsMap_' = sessionsMap_
      BY <2>2 DEF BeginTask, DiscardTask, SocketPairFails, CloseSock, maps
    <2>3. ASSUME NEW c \in Conns, AddSocketPairInfo(c)
          PROVE  Abandoned(sessionsMap_[fd])
      <3>1. PICK s \in Fds : fdTable[s] = Closed
                             /\ sessionsMap_' = [sessionsMap_ EXCEPT ![s] = c]
        BY <2>3 DEF AddSocketPairInfo, AddSession
      <3>2. s = fd /\ sessionsMap_[fd] \in Conns
        BY <1>1, <3>1 DEF UInv, TypeOK
      <3>3. fdTable[fd] # Server(sessionsMap_[fd])
        BY <3>1, <3>2, EndsDiffer
      <3> QED
        BY <1>1, <3>3 DEF UInv, SessionsOwnTheirSocket
    <2>4. ASSUME NEW e \in Fds, OnEpollRecv(e) PROVE sessionsMap_' = sessionsMap_
      BY <2>4 DEF OnEpollRecv
    <2>5. ASSUME NEW e \in Fds, OnEpollHangUp(e)
          PROVE  sessionsMap_[fd] \in notified'
      <3>1. DelSession(e)
        BY <2>5 DEF OnEpollHangUp, ReleaseSession
      <3>2. /\ sessionsMap_' = [sessionsMap_ EXCEPT ![e] = NoConn]
            /\ notified' = notified \union {sessionsMap_[e]}
        BY <1>1, <3>1 DEF DelSession
      <3> QED
        BY <1>1, <3>2 DEF UInv, TypeOK
    <2>6. CASE UNCHANGED vars
      BY <1>1, <2>6 DEF vars, maps
    <2> QED
      BY <1>1, <2>1, <2>2, <2>3, <2>4, <2>5, <2>6 DEF Next, RunTask
  <1>2. UInv /\ [Next]_vars => NotifyStep
    BY <1>1 DEF NotifyStep
  <1> QED
    BY <1>2, TablesAgree, PTL DEF Spec, DeletionIsNotified
-----------------------------------------------------------------------------
(* Clients that are connected.                                             *)

\* Somebody has the client's end of c open.
HasEnd(c) == held[c] \/ \E k \in Fds : fdTable[k] = Client(c)

\* A pair is made once, when its task runs; as long as somebody has the client's
\* end, the server has the other.
PairsAreNew ==
  \A fd \in Fds, c \in Conns :
    fdTable[fd] \in {Server(c), Client(c)} => exec[c] = "done"
OnePair ==
  \A c \in Conns, k, l \in Fds :
    fdTable[k] = Client(c) /\ fdTable[l] = Client(c) => k = l
EndsMatch ==
  \A c \in Conns : HasEnd(c) => \E fd \in Fds : fdTable[fd] = Server(c)

PairInv == PairsAreNew /\ OnePair /\ EndsMatch

\* A step that neither opens nor closes anything for the service.
Still ==
  /\ UNCHANGED <<fdTable, sessionsMap_, idxPidMap_>>
  /\ \A c \in Conns : exec[c] = "done" => exec'[c] = "done"
  /\ \A c \in Conns : held'[c] => held[c]

LEMMA Steps ==
  ASSUME UInv, [Next]_vars
  PROVE  \/ Still
         \/ \E c \in Conns : AddSocketPairInfo(c) \/ Reply(c) \/ CloseSocketFdTimer(c)
         \/ \E fd \in Fds : OnEpollHangUp(fd)
  <1>0. TypeOK /\ Task!TypeOK
    BY DEF UInv, TypeOK
  <1>1. ASSUME NEW c \in Conns, ClientCloses(c) PROVE Still
    BY <1>0, <1>1 DEF ClientCloses, Still, TypeOK, taskVars, maps
  <1>2. ASSUME NEW c \in Conns,
               \/ AllocSocketFd(c) \/ WaitTimesOut(c) \/ GetResult(c)
               \/ AllocSocketFdResult(c) \/ BeginTask(c) \/ DiscardTask(c)
               \/ SocketPairFails(c) \/ CloseSock(c)
        PROVE  Still
    <2>1. /\ UNCHANGED <<maps, fdTable, held>>
          /\ \/ Task!Accept(c) \/ Task!Begin(c) \/ Task!Finish(c) \/ Task!Discard(c)
             \/ Task!ReturnResult(c) \/ Task!GiveUp(c) \/ Task!ReturnTimeout(c)
      BY <1>2 DEF AllocSocketFd, WaitTimesOut, GetResult, AllocSocketFdResult,
                  BeginTask, DiscardTask, SocketPairFails, CloseSock
    <2>2. \A d \in Conns : exec[d] = "done" => exec'[d] = "done"
      BY <1>0, <2>1, TaskOrder
    <2> QED
      BY <2>1, <2>2 DEF Still, maps
  <1>3. ASSUME NEW fd \in Fds, OnEpollRecv(fd) PROVE Still
    BY <1>3 DEF OnEpollRecv, Still, taskVars
  <1>4. CASE UNCHANGED vars
    BY <1>4 DEF vars, taskVars, maps, Still
  <1> QED
    BY <1>1, <1>2, <1>3, <1>4 DEF Next, Binder, RunTask

\* What the making of a pair does to descriptors.
LEMMA AddEffect ==
  ASSUME UInv, PairInv, NEW c \in Conns, AddSocketPairInfo(c)
  PROVE  \E s, k \in Fds :
           /\ s # k /\ fdTable[s] = Closed /\ fdTable[k] = Closed
           /\ fdTable'[s] = Server(c) /\ fdTable'[k] = Client(c)
           /\ \A fd \in Fds \ {s, k} : fdTable'[fd] = fdTable[fd]
           /\ idxPidMap_'[Pid(c)] = s
           /\ \A p \in Pids \ {Pid(c)} : idxPidMap_'[p] = idxPidMap_[p]
           /\ UNCHANGED <<held, answer, waited>>
           /\ exec[c] = "running" /\ exec'[c] = "done"
           /\ \A d \in Conns \ {c} : exec'[d] = exec[d]
           /\ ~HasEnd(c)
           /\ \A d \in Conns \ {c} : HasEnd(d)' <=> HasEnd(d)
  <1>1. PICK s \in Fds, k \in Fds :
          /\ s # k /\ fdTable[s] = Closed /\ fdTable[k] = Closed
          /\ fdTable' = [fdTable EXCEPT ![s] = Server(c), ![k] = Client(c)]
          /\ idxPidMap_' = [idxPidMap_ EXCEPT ![Pid(c)] = s]
    BY DEF AddSocketPairInfo, AddSession
  <1>2. TypeOK /\ Task!TypeOK /\ CallsInOrder /\ Pid(c) \in Pids
    BY DEF UInv, TypeOK, Pid, Conns
  <1>3. /\ UNCHANGED <<held, answer, waited>>
        /\ exec[c] = "running" /\ exec' = [exec EXCEPT ![c] = "done"]
    BY DEF AddSocketPairInfo, Task!Finish, Task!Move
  <1>4. /\ fdTable'[s] = Server(c) /\ fdTable'[k] = Client(c)
        /\ \A fd \in Fds \ {s, k} : fdTable'[fd] = fdTable[fd]
        /\ idxPidMap_'[Pid(c)] = s
        /\ \A p \in Pids \ {Pid(c)} : idxPidMap_'[p] = idxPidMap_[p]
    BY <1>1, <1>2 DEF TypeOK
  <1>5. exec'[c] = "done" /\ \A d \in Conns \ {c} : exec'[d] = exec[d]
    BY <1>2, <1>3 DEF Task!TypeOK
  <1>6. ~HasEnd(c)
    BY <1>2, <1>3 DEF HasEnd, PairInv, PairsAreNew, CallsInOrder
  <1>7. \A d \in Conns \ {c} : HasEnd(d)' <=> HasEnd(d)
    <2> SUFFICES ASSUME NEW d \in Conns \ {c}
                 PROVE  HasEnd(d)' <=> HasEnd(d)
      OBVIOUS
    <2>1. \A fd \in Fds : fdTable'[fd] = Client(d) <=> fdTable[fd] = Client(d)
      BY <1>1, <1>4, EndsDiffer
    <2> QED
      BY <1>3, <2>1 DEF HasEnd
  <1> QED
    BY <1>1, <1>3, <1>4, <1>5, <1>6, <1>7

\* What a reply does: nobody else's end is touched.
LEMMA ReplyEffect ==
  ASSUME UInv, NEW c \in Conns, Reply(c)
  PROVE  /\ HasEnd(c) /\ answer[c] = "RESULT"
         /\ UNCHANGED <<exec, answer, waited, idxPidMap_>>
         /\ \A fd \in Fds : fdTable'[fd] = fdTable[fd]
              \/ (fdTable[fd] = Client(c) /\ fdTable'[fd] = Closed)
         /\ \A d \in Conns \ {c} : held'[d] = held[d]
  <1>1. TypeOK
    BY DEF UInv
  <1>2. PICK k \in Fds : fdTable[k] = Client(c)
                         /\ fdTable' = [fdTable EXCEPT ![k] = Closed]
    BY DEF Reply
  <1>3. \A fd \in Fds : fdTable'[fd] = fdTable[fd]
          \/ (fdTable[fd] = Client(c) /\ fdTable'[fd] = Closed)
    BY <1>1, <1>2 DEF TypeOK
  <1>4. \A d \in Conns \ {c} : held'[d] = held[d]
    BY <1>1 DEF Reply, TypeOK
  <1> QED
    BY <1>2, <1>3, <1>4 DEF Reply, HasEnd, taskVars, maps

\* What a release does: the client's end of the connection is gone.
LEMMA HangUpEffect ==
  ASSUME UInv, NEW fd \in Fds, OnEpollHangUp(fd)
  PROVE  \E c \in Conns :
           /\ fdTable[fd] = Server(c) /\ ~HasEnd(c)
           /\ UNCHANGED <<exec, answer, waited, held>>
           /\ fdTable'[fd] = Closed
           /\ \A e \in Fds \ {fd} : fdTable'[e] = fdTable[e]
           /\ idxPidMap_'[Pid(c)] = NoFd
           /\ \A p \in Pids \ {Pid(c)} : idxPidMap_'[p] = idxPidMap_[p]
  <1>1. PICK c \in Conns : fdTable[fd] = Server(c) /\ HungUp(c)
    BY DEF OnEpollHangUp
  <1>2. /\ TypeOK /\ sessionsMap_[fd] = c /\ c # NoConn /\ Pid(c) \in Pids
    BY <1>1, UdsAssumption DEF UInv, OpenSocketsHaveSessions, Pid, Conns
  <1>3. /\ idxPidMap_' = [idxPidMap_ EXCEPT ![Pid(c)] = NoFd]
        /\ fdTable' = [fdTable EXCEPT ![fd] = Closed]
        /\ UNCHANGED <<exec, answer, waited, held>>
    BY <1>2 DEF OnEpollHangUp, ReleaseSession, DelSession, taskVars
  <1>4. ~HasEnd(c)
    BY <1>1 DEF HasEnd, HungUp
  <1> QED
    BY <1>1, <1>2, <1>3, <1>4 DEF TypeOK

LEMMA PairInvInit == Init => PairInv
  <1> SUFFICES ASSUME Init PROVE PairInv
    OBVIOUS
  <1>1. \A fd \in Fds, c \in Conns : fdTable[fd] \notin {Server(c), Client(c)}
    BY EndsDiffer DEF Init
  <1>2. \A c \in Conns : ~held[c]
    BY DEF Init
  <1> QED
    BY <1>1, <1>2 DEF PairInv, PairsAreNew, OnePair, EndsMatch, HasEnd

LEMMA PairInvStep == UInv /\ PairInv /\ [Next]_vars => PairInv'
  <1> SUFFICES ASSUME UInv, PairInv, [Next]_vars PROVE PairInv'
    OBVIOUS
  <1>0. PairsAreNew /\ OnePair /\ EndsMatch
    BY DEF PairInv
  <1>1. CASE Still
    <2>1. \A c \in Conns : HasEnd(c)' => HasEnd(c)
      BY <1>1 DEF Still, HasEnd
    <2>2. PairsAreNew' /\ OnePair'
      BY <1>0, <1>1 DEF Still, PairsAreNew, OnePair
    <2>3. EndsMatch'
      BY <1>0, <1>1, <2>1 DEF Still, EndsMatch
    <2> QED
      BY <2>2, <2>3 DEF PairInv
  <1>2. ASSUME NEW c \in Conns, AddSocketPairInfo(c) PROVE PairInv'
    <2>1. PICK s, k \in Fds :
            /\ s # k /\ fdTable[s] = Closed /\ fdTable[k] = Closed
            /\ fdTable'[s] = Server(c) /\ fdTable'[k] = Client(c)
            /\ \A fd \in Fds \ {s, k} : fdTable'[fd] = fdTable[fd]
            /\ exec[c] = "running" /\ exec'[c] = "done"
            /\ \A d \in Conns \ {c} : exec'[d] = exec[d]
            /\ \A d \in Conns \ {c} : HasEnd(d)' <=> HasEnd(d)
      BY <1>2, AddEffect
    <2>2. \A fd \in Fds : fdTable[fd] \notin {Server(c), Client(c)}
      BY <1>0, <2>1 DEF PairsAreNew
    <2>3. PairsAreNew'
      <3> SUFFICES ASSUME NEW fd \in Fds, NEW d \in Conns \ {c},
                          fdTable'[fd] \in {Server(d), Client(d)}
                   PROVE  exec'[d] = "done"
        BY <2>1 DEF PairsAreNew
      <3>1. fd \notin {s, k}
        BY <2>1, EndsDiffer
      <3> QED
        BY <1>0, <2>1, <3>1 DEF PairsAreNew
    <2>4. OnePair'
      <3> SUFFICES ASSUME NEW d \in Conns, NEW l \in Fds, NEW m \in Fds,
                          fdTable'[l] = Client(d), fdTable'[m] = Client(d)
                   PROVE  l = m
        BY DEF OnePair
      <3>1. CASE d = c
        BY <2>1, <2>2, <3>1, EndsDiffer
      <3>2. CASE d # c
        <4>1. l \notin {s, k} /\ m \notin {s, k}
          BY <2>1, <3>2, EndsDiffer
        <4> QED
          BY <1>0, <2>1, <4>1 DEF OnePair
      <3> QED
        BY <3>1, <3>2
    <2>5. EndsMatch'
      <3> SUFFICES ASSUME NEW d \in Conns \ {c}, HasEnd(d)'
                   PROVE  \E fd \in Fds : fdTable'[fd] = Server(d)
        BY <2>1 DEF EndsMatch
      <3>1. PICK fd \in Fds : fdTable[fd] = Server(d)
        BY <1>0, <2>1 DEF EndsMatch
      <3>2. fd \notin {s, k}
        BY <2>1, <3>1, EndsDiffer
      <3> QED
        BY <2>1, <3>1, <3>2
    <2> QED
      BY <2>3, <2>4, <2>5 DEF PairInv
  \* A step that only closes descriptors.
  <1>3. ASSUME UNCHANGED exec,
               \A fd \in Fds : fdTable'[fd] \in {fdTable[fd], Closed},
               \A c \in Conns : HasEnd(c)' =>
                 HasEnd(c) /\ \A fd \in Fds : fdTable[fd] = Server(c) =>
                                fdTable'[fd] = Server(c)
        PROVE  PairInv'
    <2>1. \A fd \in Fds, c \in Conns :
            /\ fdTable'[fd] = Server(c) => fdTable[fd] = Server(c)
            /\ fdTable'[fd] = Client(c) => fdTable[fd] = Client(c)
      BY <1>3, EndsDiffer
    <2>2. PairsAreNew' /\ OnePair'
      BY <1>0, <1>3, <2>1 DEF PairsAreNew, OnePair
    <2>3. EndsMatch'
      BY <1>0, <1>3 DEF EndsMatch
    <2> QED
      BY <2>2, <2>3 DEF PairInv
  <1>4. ASSUME NEW c \in Conns, Reply(c) PROVE PairInv'
    <2>1. /\ HasEnd(c) /\ UNCHANGED exec
          /\ \A fd \in Fds : fdTable'[fd] = fdTable[fd]
               \/ (fdTable[fd] = Client(c) /\ fdTable'[fd] = Closed)
          /\ \A d \in Conns \ {c} : held'[d] = held[d]
      BY <1>4, ReplyEffect
    <2>2. \A fd \in Fds, d \in Conns : fdTable[fd] = Server(d) => fdTable'[fd] = Server(d)
      BY <2>1, EndsDiffer
    <2>3. \A d \in Conns : HasEnd(d)' => HasEnd(d)
      BY <2>1, EndsDiffer DEF HasEnd
    <2> QED
      BY <1>3, <2>1, <2>2, <2>3
  <1>5. ASSUME NEW c \in Conns, CloseSocketFdTimer(c) PROVE PairInv'
    <2>1. /\ UNCHANGED <<exec, held>> /\ c \in leakTimer
          /\ \A fd \in Fds : fdTable'[fd] =
               IF fd \in ClosedByTimer(c) THEN Closed ELSE fdTable[fd]
      BY <1>5 DEF CloseSocketFdTimer, taskVars
    <2>2. /\ \A fd \in Fds : fdTable'[fd] # fdTable[fd] =>
               fdTable[fd] \in {Server(c), Client(c)} /\ fdTable'[fd] = Closed
          /\ answer[c] # "RESULT"
      BY <1>5, TimerCloses
    <2>3. ~held[c]
      BY <2>2 DEF UInv, CallsInOrder
    <2>4. \A d \in Conns : HasEnd(d)' => HasEnd(d)
      BY <2>1, EndsDiffer DEF HasEnd
    <2>5. ASSUME NEW d \in Conns, HasEnd(d)', NEW fd \in Fds, fdTable[fd] = Server(d)
          PROVE  fdTable'[fd] = Server(d)
      <3>1. CASE d # c
        BY <2>2, <2>5, <3>1, EndsDiffer
      <3>2. CASE d = c
        <4>1. PICK k \in Fds : fdTable'[k] = Client(c)
          BY <2>1, <2>3, <2>5, <3>2 DEF HasEnd
        <4>2. k \notin ClosedByTimer(c) /\ fdTable[k] = Client(c)
          BY <2>1, <4>1, EndsDiffer
        <4>3. flag[c].executeClosed \/ flag[c].clientFd # k
          BY <4>2 DEF ClosedByTimer
        <4>4. flag[c].executeClosed
              \/ (flag[c].serverFd = NoFd /\ flag[c].clientFd = NoFd)
          BY <1>0, <2>2, <4>2, <4>3 DEF UInv, FlagNamesOwnPair, OnePair
        <4>5. fd \notin ClosedByTimer(c)
          BY <4>4, UdsAssumption DEF ClosedByTimer
        <4> QED
          BY <2>1, <2>5, <4>5
      <3> QED
        BY <3>1, <3>2
    <2> QED
      BY <1>3, <2>1, <2>4, <2>5
  <1>6. ASSUME NEW fd \in Fds, OnEpollHangUp(fd) PROVE PairInv'
    <2>1. PICK c \in Conns :
            /\ fdTable[fd] = Server(c) /\ ~HasEnd(c)
            /\ UNCHANGED <<exec, held>>
            /\ fdTable'[fd] = Closed
            /\ \A e \in Fds \ {fd} : fdTable'[e] = fdTable[e]
      BY <1>6, HangUpEffect
    <2>2. \A d \in Conns : HasEnd(d)' => HasEnd(d)
      BY <2>1, EndsDiffer DEF HasEnd
    <2>3. \A d \in Conns, e \in Fds :
            HasEnd(d) /\ fdTable[e] = Server(d) => fdTable'[e] = Server(d)
      BY <2>1, EndsDiffer
    <2> QED
      BY <1>3, <2>1, <2>2, <2>3
  <1> QED
    BY <1>1, <1>2, <1>4, <1>5, <1>6, Steps

LEMMA PairInvAlways == Spec => [](UInv /\ PairInv)
  <1> QED
    BY InitUInv, NextUInv, PairInvInit, PairInvStep, PTL DEF Spec

\* A client that is connected has an open socket in the server with a session
\* of its own.
ConnectedHaveSessions ==
  \A c \in Conns : held[c] =>
    \E fd \in Fds : fdTable[fd] = Server(c) /\ sessionsMap_[fd] = c

\* A connected client never loses its session, whatever calls are given up, timers
\* fire and descriptors are used again; it is only its index entry that can go.
THEOREM ConnectedClientsHaveSessions == Spec => []ConnectedHaveSessions
  <1>1. UInv /\ PairInv => ConnectedHaveSessions
    <2> SUFFICES ASSUME UInv, PairInv, NEW c \in Conns, held[c]
                 PROVE  \E fd \in Fds : fdTable[fd] = Server(c) /\ sessionsMap_[fd] = c
      BY DEF ConnectedHaveSessions
    <2>1. PICK fd \in Fds : fdTable[fd] = Server(c)
      BY DEF PairInv, EndsMatch, HasEnd
    <2> QED
      BY <2>1 DEF UInv, OpenSocketsHaveSessions
  <1> QED
    BY <1>1, PairInvAlways, PTL
-----------------------------------------------------------------------------
(* The index of pids, for processes whose calls were waited for.           *)

\* The service waited for every call of p until it had its result.
Patient(p) == \A c \in Conns : Pid(c) = p /\ waited[c] => answer[c] = "RESULT"

Answered == \A c \in Conns : answer[c] # "none" => waited[c]

\* Of a process's calls one at most is under way or has led to a connection that
\* is still open.
Current(c) == exec[c] # "none" /\ (answer[c] = "none" \/ HasEnd(c))
OneCurrent(p) ==
  \A c, d \in Conns : Pid(c) = p /\ Pid(d) = p /\ Current(c) /\ Current(d) => c = d

\* The index leads to an open socket of p, and to the one that is connected.
IndexIsOpen(p) ==
  idxPidMap_[p] # NoFd =>
    \E c \in Conns : Pid(c) = p /\ fdTable[idxPidMap_[p]] = Server(c)
IndexIsLatest(p) ==
  \A c \in Conns : Pid(c) = p /\ HasEnd(c) =>
    idxPidMap_[p] = NoFd \/ fdTable[idxPidMap_[p]] = Server(c)

IndexInv(p) == OneCurrent(p) /\ IndexIsOpen(p) /\ IndexIsLatest(p)
PatientInv == Answered /\ \A p \in Pids : Patient(p) => IndexInv(p)

LEMMA EndsGo ==
  ASSUME UInv, PairInv, [Next]_vars, NEW d \in Conns, HasEnd(d)'
  PROVE  HasEnd(d) \/ AddSocketPairInfo(d)
  <1>1. CASE Still
    BY <1>1 DEF Still, HasEnd
  <1>2. ASSUME NEW c \in Conns, AddSocketPairInfo(c)
        PROVE  HasEnd(d) \/ AddSocketPairInfo(d)
    BY <1>2, AddEffect
  <1>3. ASSUME NEW c \in Conns, Reply(c) PROVE HasEnd(d)
    BY <1>3, ReplyEffect, EndsDiffer DEF HasEnd
  <1>4. ASSUME NEW c \in Conns, CloseSocketFdTimer(c) PROVE HasEnd(d)
    <2>1. UNCHANGED held
      BY <1>4 DEF CloseSocketFdTimer
    <2>2. \A fd \in Fds : fdTable'[fd] # fdTable[fd] => fdTable'[fd] = Closed
      BY <1>4, TimerCloses
    <2> QED
      BY <2>1, <2>2, EndsDiffer DEF HasEnd
  <1>5. ASSUME NEW fd \in Fds, OnEpollHangUp(fd) PROVE HasEnd(d)
    <2>1. PICK c \in Conns :
            /\ UNCHANGED held /\ fdTable'[fd] = Closed
            /\ \A e \in Fds \ {fd} : fdTable'[e] = fdTable[e]
      BY <1>5, HangUpEffect
    <2> QED
      BY <2>1, EndsDiffer DEF HasEnd
  <1> QED
    BY <1>1, <1>2, <1>3, <1>4, <1>5, Steps

\* What a step may do to a call: it begins only with AllocSocketFd, the wait
\* ends once, and the result is returned to who still waits.
CallGoes(d) ==
  /\ exec'[d] # "none" => exec[d] # "none" \/ AllocSocketFd(d)
  /\ waited[d] => waited'[d]
  /\ answer[d] # "none" => answer'[d] = answer[d]
  /\ answer'[d] # answer[d] => waited'[d] /\ (answer'[d] = "RESULT" => ~waited[d])

LEMMA TaskGoes ==
  ASSUME Task!TypeOK, NEW c \in Conns, NEW d \in Conns,
         \/ AllocSocketFd(c) \/ Task!Begin(c) \/ Task!Finish(c) \/ Task!Discard(c)
         \/ Task!ReturnResult(c) \/ Task!GiveUp(c) \/ Task!ReturnTimeout(c)
  PROVE  CallGoes(d)
  <1>1. CASE AllocSocketFd(c)
    <2>1. exec' = [exec EXCEPT ![c] = "posted"] /\ UNCHANGED <<waited, answer>>
      BY <1>1 DEF AllocSocketFd, Task!Accept, Task!Move
    <2> QED
      BY <1>1, <2>1 DEF CallGoes, Task!TypeOK
  <1>2. CASE Task!Begin(c) \/ Task!Finish(c) \/ Task!Discard(c)
    BY <1>2 DEF CallGoes, Task!TypeOK, Task!Begin, Task!Finish, Task!Discard, Task!Move
  <1>3. CASE Task!ReturnResult(c) \/ Task!GiveUp(c) \/ Task!ReturnTimeout(c)
    BY <1>3 DEF CallGoes, Task!TypeOK, Task!ReturnResult, Task!GiveUp,
                Task!ReturnTimeout
  <1> QED
    BY <1>1, <1>2, <1>3

LEMMA CallsGo ==
  ASSUME UInv, [Next]_vars, NEW d \in Conns
  PROVE  CallGoes(d)
  <1>0. Task!TypeOK
    BY DEF UInv, TypeOK
  <1>1. CASE UNCHANGED <<exec, waited, answer>>
    BY <1>1 DEF CallGoes
  <1>2. ASSUME NEW c \in Conns, AllocSocketFd(c) \/ WaitTimesOut(c) \/ ClientCloses(c)
        PROVE  CallGoes(d)
    BY <1>0, <1>1, <1>2, TaskGoes DEF WaitTimesOut, ClientCloses, taskVars
  <1>3. ASSUME NEW c \in Conns, Binder(c) PROVE CallGoes(d)
    BY <1>0, <1>1, <1>3, TaskGoes
    DEF Binder, GetResult, AllocSocketFdResult, Reply, taskVars
  <1>4. ASSUME NEW c \in Conns, RunTask(c) PROVE CallGoes(d)
    BY <1>0, <1>4, TaskGoes
    DEF RunTask, BeginTask, DiscardTask, AddSocketPairInfo, SocketPairFails, CloseSock
  <1>5. ASSUME NEW c \in Conns, CloseSocketFdTimer(c) PROVE CallGoes(d)
    BY <1>1, <1>5 DEF CloseSocketFdTimer, taskVars
  <1>6. ASSUME NEW fd \in Fds, OnEpollRecv(fd) \/ OnEpollHangUp(fd)
        PROVE  CallGoes(d)
    BY <1>1, <1>6 DEF OnEpollRecv, OnEpollHangUp, taskVars
  <1>7. CASE UNCHANGED vars
    BY <1>1, <1>7 DEF vars, taskVars
  <1> QED
    BY <1>2, <1>3, <1>4, <1>5, <1>6, <1>7 DEF Next

LEMMA PatienceWasThere ==
  ASSUME UInv, [Next]_vars, NEW p, Patient(p)'
  PROVE  Patient(p)
  <1> SUFFICES ASSUME NEW c \in Conns, Pid(c) = p, waited[c]
               PROVE  answer[c] = "RESULT"
    BY DEF Patient
  <1>1. answer'[c] = "RESULT"
    BY CallsGo DEF CallGoes, Patient
  <1> QED
    BY <1>1, CallsGo DEF CallGoes

\* The calls of a patient process have no timer, and are not answered while their
\* task runs.
LEMMA PatientCalls ==
  ASSUME UInv, Answered, NEW c \in Conns, Patient(Pid(c))
  PROVE  /\ c \notin leakTimer
         /\ exec[c] # "done" => answer[c] = "none"
  BY DEF UInv, CallsInOrder, Answered, Patient

LEMMA OneCurrentStep ==
  ASSUME UInv, PairInv, Answered, [Next]_vars, NEW p, Patient(p), OneCurrent(p)
  PROVE  OneCurrent(p)'
  <1>1. ASSUME NEW d \in Conns, Pid(d) = p, Current(d)'
        PROVE  Current(d) \/ AllocSocketFd(d)
    <2>1. exec[d] # "none" \/ AllocSocketFd(d)
      BY <1>1, CallsGo DEF Current, CallGoes
    <2>2. CASE answer'[d] = "none"
      BY <2>1, <2>2, CallsGo DEF Current, CallGoes
    <2>3. CASE HasEnd(d)'
      <3>1. HasEnd(d) \/ AddSocketPairInfo(d)
        BY <2>3, EndsGo
      <3>2. AddSocketPairInfo(d) => answer[d] = "none"
        BY <1>1, AddEffect, PatientCalls
      <3> QED
        BY <2>1, <3>1, <3>2 DEF Current
    <2> QED
      BY <1>1, <2>2, <2>3 DEF Current
  <1>2. ASSUME NEW a \in Conns, AllocSocketFd(a), Pid(a) = p,
               NEW d \in Conns, Pid(d) = p, Current(d)
        PROVE  FALSE
    <2>1. /\ exec[d] # "none" /\ answer[d] # "none" /\ ~held[d]
          /\ answer[d] = "RESULT" => \A fd \in Fds : fdTable[fd] # Client(d)
      BY <1>2 DEF AllocSocketFd, Current
    <2>2. answer[d] = "RESULT"
      BY <1>2, <2>1 DEF Answered, Patient
    <2> QED
      BY <1>2, <2>1, <2>2 DEF Current, HasEnd
  <1>3. ASSUME NEW a \in Conns, AllocSocketFd(a), NEW d \in Conns, AllocSocketFd(d)
        PROVE  a = d
    <2>1. exec[d] = "none" /\ exec'[d] = "posted" /\ exec' = [exec EXCEPT ![a] = "posted"]
      BY <1>3 DEF AllocSocketFd, Task!Accept, Task!Move, UInv, TypeOK, Task!TypeOK
    <2> QED
      BY <2>1 DEF UInv, TypeOK, Task!TypeOK
  <1>4. ASSUME NEW c \in Conns, NEW d \in Conns, Pid(c) = p, Pid(d) = p,
               Current(c)', Current(d)'
        PROVE  c = d
    <2>1. (Current(c) \/ AllocSocketFd(c)) /\ (Current(d) \/ AllocSocketFd(d))
      BY <1>1, <1>4
    <2> QED
      BY <1>2, <1>3, <1>4, <2>1 DEF OneCurrent
  <1> QED
    BY <1>4 DEF OneCurrent

LEMMA IndexStep ==
  ASSUME UInv, PairInv, Answered, [Next]_vars, NEW p \in Pids, Patient(p), IndexInv(p)
  PROVE  IndexIsOpen(p)' /\ IndexIsLatest(p)'
  <1> DEFINE Good == IndexIsOpen(p)' /\ IndexIsLatest(p)'
  <1>0. IndexIsOpen(p) /\ IndexIsLatest(p) /\ idxPidMap_[p] \in Fds \union {NoFd}
    BY DEF IndexInv, UInv, TypeOK
  \* The entry of p and the sockets of p stay.
  <1>1. ASSUME idxPidMap_'[p] = idxPidMap_[p],
               \A fd \in Fds, d \in Conns :
                 Pid(d) = p /\ fdTable[fd] = Server(d)
                            /\ (fd = idxPidMap_[p] \/ HasEnd(d)) =>
                   fdTable'[fd] = Server(d),
               \A d \in Conns : Pid(d) = p /\ HasEnd(d)' => HasEnd(d)
        PROVE  Good
    <2>1. IndexIsOpen(p)'
      BY <1>0, <1>1 DEF IndexIsOpen
    <2>2. IndexIsLatest(p)'
      BY <1>0, <1>1 DEF IndexIsLatest
    <2> QED
      BY <2>1, <2>2
  <1>2. CASE Still
    BY <1>1, <1>2 DEF Still, HasEnd
  <1>3. ASSUME NEW c \in Conns, AddSocketPairInfo(c) PROVE Good
    <2>1. PICK s, k \in Fds :
            /\ fdTable[s] = Closed /\ fdTable[k] = Closed
            /\ fdTable'[s] = Server(c)
            /\ \A fd \in Fds \ {s, k} : fdTable'[fd] = fdTable[fd]
            /\ idxPidMap_'[Pid(c)] = s
            /\ \A q \in Pids \ {Pid(c)} : idxPidMap_'[q] = idxPidMap_[q]
            /\ exec[c] = "running"
            /\ \A d \in Conns \ {c} : HasEnd(d)' <=> HasEnd(d)
      BY <1>3, AddEffect
    <2>2. CASE Pid(c) = p
      <3>1. IndexIsOpen(p)'
        BY <2>1, <2>2 DEF IndexIsOpen
      <3>2. Current(c)
        BY <2>1, <2>2, PatientCalls DEF Current
      <3>3. \A d \in Conns : HasEnd(d) => exec[d] = "done"
        BY DEF HasEnd, UInv, CallsInOrder, PairInv, PairsAreNew
      <3>4. \A d \in Conns : Pid(d) = p /\ HasEnd(d)' => d = c
        BY <2>1, <2>2, <3>2, <3>3 DEF Current, IndexInv, OneCurrent
      <3>5. IndexIsLatest(p)'
        BY <2>1, <2>2, <3>4 DEF IndexIsLatest
      <3> QED
        BY <3>1, <3>5
    <2>3. CASE Pid(c) # p
      <3>1. \A fd \in Fds, d \in Conns :
              fdTable[fd] = Server(d) => fdTable'[fd] = Server(d)
        BY <2>1, EndsDiffer
      <3> QED
        BY <1>1, <2>1, <2>3, <3>1
    <2> QED
      BY <2>2, <2>3
  <1>4. ASSUME NEW c \in Conns, Reply(c) PROVE Good
    <2>1. /\ HasEnd(c) /\ UNCHANGED idxPidMap_
          /\ \A fd \in Fds : fdTable'[fd] = fdTable[fd] \/ fdTable[fd] = Client(c)
          /\ ~AddSocketPairInfo(c)
      <3>1. answer[c] = "RESULT" /\ UNCHANGED exec
        BY <1>4, ReplyEffect
      <3>2. ~AddSocketPairInfo(c)
        BY <3>1, AddEffect DEF UInv, CallsInOrder
      <3> QED
        BY <1>4, <3>2, ReplyEffect
    <2>2. \A fd \in Fds, d \in Conns :
            fdTable[fd] = Server(d) => fdTable'[fd] = Server(d)
      BY <2>1, EndsDiffer
    <2>3. \A d \in Conns : HasEnd(d)' => HasEnd(d)
      <3>1. \A d \in Conns : AddSocketPairInfo(d) => d = c
        BY <1>4, AddEffect, ReplyEffect
      <3> QED
        BY <2>1, <3>1, EndsGo
    <2> QED
      BY <1>1, <2>1, <2>2, <2>3
  <1>5. ASSUME NEW c \in Conns, CloseSocketFdTimer(c) PROVE Good
    <2>1. Pid(c) # p
      BY <1>5, PatientCalls DEF CloseSocketFdTimer
    <2>2. \A fd \in Fds : fdTable'[fd] # fdTable[fd] =>
            fdTable[fd] \in {Server(c), Client(c)}
      BY <1>5, TimerCloses
    <2>3. \A fd \in Fds, d \in Conns :
            Pid(d) = p /\ fdTable[fd] = Server(d) => fdTable'[fd] = Server(d)
      BY <2>1, <2>2, EndsDiffer
    <2>4. UNCHANGED <<exec, idxPidMap_>>
      BY <1>5 DEF CloseSocketFdTimer, taskVars, maps
    <2>5. \A d \in Conns : HasEnd(d)' => HasEnd(d)
      BY <2>4, EndsGo, AddEffect
    <2> QED
      BY <1>1, <2>3, <2>4, <2>5
  <1>6. ASSUME NEW fd \in Fds, OnEpollHangUp(fd) PROVE Good
    <2>1. PICK c \in Conns :
            /\ fdTable[fd] = Server(c) /\ ~HasEnd(c)
            /\ UNCHANGED exec
            /\ \A e \in Fds \ {fd} : fdTable'[e] = fdTable[e]
            /\ idxPidMap_'[Pid(c)] = NoFd
            /\ \A q \in Pids \ {Pid(c)} : idxPidMap_'[q] = idxPidMap_[q]
      BY <1>6, HangUpEffect
    <2>2. CASE Pid(c) = p
      BY <2>1, <2>2 DEF IndexIsOpen, IndexIsLatest
    <2>3. CASE Pid(c) # p
      <3>1. \A e \in Fds, d \in Conns :
              Pid(d) = p /\ fdTable[e] = Server(d) => fdTable'[e] = Server(d)
        BY <2>1, <2>3, EndsDiffer
      <3>2. \A d \in Conns : HasEnd(d)' => HasEnd(d)
        BY <2>1, EndsGo, AddEffect
      <3> QED
        BY <1>1, <2>1, <2>3, <3>1, <3>2
    <2> QED
      BY <2>2, <2>3
  <1> QED
    BY <1>2, <1>3, <1>4, <1>5, <1>6, Steps

LEMMA PatientInvInit == Init => PatientInv
  <1> SUFFICES ASSUME Init PROVE PatientInv
    OBVIOUS
  <1>1. Answered
    BY DEF Init, Task!Init, Answered
  <1>2. \A c \in Conns : ~HasEnd(c) /\ ~Current(c)
    BY EndsDiffer DEF Init, Task!Init, HasEnd, Current
  <1>3. \A p \in Pids : idxPidMap_[p] = NoFd
    BY DEF Init
  <1> QED
    BY <1>1, <1>2, <1>3 DEF PatientInv, IndexInv, OneCurrent, IndexIsOpen, IndexIsLatest

LEMMA PatientInvStep == UInv /\ PairInv /\ PatientInv /\ [Next]_vars => PatientInv'
  <1> SUFFICES ASSUME UInv, PairInv, PatientInv, [Next]_vars PROVE PatientInv'
    OBVIOUS
  <1>1. Answered'
    <2> SUFFICES ASSUME NEW c \in Conns, answer'[c] # "none"
                 PROVE  waited'[c]
      BY DEF Answered
    <2> QED
      BY CallsGo DEF CallGoes, PatientInv, Answered
  <1>2. ASSUME NEW p \in Pids, Patient(p)'
        PROVE  IndexInv(p)'
    <2>1. Patient(p)
      BY <1>2, PatienceWasThere
    <2>2. Answered /\ IndexInv(p)
      BY <2>1 DEF PatientInv
    <2>3. OneCurrent(p)'
      BY <2>1, <2>2, OneCurrentStep DEF IndexInv
    <2> QED
      BY <2>1, <2>2, <2>3, IndexStep DEF IndexInv
  <1> QED
    BY <1>1, <1>2 DEF PatientInv

LEMMA PatientInvAlways == Spec => [](UInv /\ PairInv /\ PatientInv)
  <1> QED
    BY PairInvAlways, PatientInvInit, PatientInvStep, PTL DEF Spec

\* The index as the test of GetSessionByPid has it (SessionOfPidIsItsOwn), for
\* every process whose calls did not time out, whatever happened to others.
PatientIndexIsOwn ==
  \A p \in Pids : Patient(p) /\ idxPidMap_[p] # NoFd =>
    /\ sessionsMap_[idxPidMap_[p]] # NoConn
    /\ Pid(sessionsMap_[idxPidMap_[p]]) = p

\* GetSessionByPid finds the session of a connected client, or nothing; never an
\* older one.
PatientClientsAreFound ==
  \A c \in Conns : Patient(Pid(c)) /\ held[c] =>
    idxPidMap_[Pid(c)] = NoFd \/ sessionsMap_[idxPidMap_[Pid(c)]] = c

\* What the runs find violated takes a wait that timed out, or an old session
\* that is released after the new one was stored: without the first, the index
\* is never wrong, it only may be empty.
THEOREM IndexIsRightForThePatient ==
  Spec => [](PatientIndexIsOwn /\ PatientClientsAreFound)
  <1>1. ASSUME UInv, PatientInv PROVE PatientIndexIsOwn
    <2> SUFFICES ASSUME NEW p \in Pids, Patient(p), idxPidMap_[p] # NoFd
                 PROVE  /\ sessionsMap_[idxPidMap_[p]] # NoConn
                        /\ Pid(sessionsMap_[idxPidMap_[p]]) = p
      BY DEF PatientIndexIsOwn
    <2>1. idxPidMap_[p] \in Fds
      BY <1>1 DEF UInv, TypeOK
    <2>2. PICK c \in Conns : Pid(c) = p /\ fdTable[idxPidMap_[p]] = Server(c)
      BY <1>1 DEF PatientInv, IndexInv, IndexIsOpen
    <2> QED
      BY <1>1, <2>1, <2>2, UdsAssumption DEF UInv, OpenSocketsHaveSessions
  <1>2. ASSUME UInv, PatientInv PROVE PatientClientsAreFound
    <2> SUFFICES ASSUME NEW c \in Conns, Patient(Pid(c)), held[c],
                        idxPidMap_[Pid(c)] # NoFd
                 PROVE  sessionsMap_[idxPidMap_[Pid(c)]] = c
      BY DEF PatientClientsAreFound
    <2>1. Pid(c) \in Pids
      BY DEF Pid, Conns
    <2>2. idxPidMap_[Pid(c)] \in Fds
      BY <1>2, <2>1 DEF UInv, TypeOK
    <2>3. fdTable[idxPidMap_[Pid(c)]] = Server(c)
      BY <1>2, <2>1 DEF PatientInv, IndexInv, IndexIsLatest, HasEnd
    <2> QED
      BY <1>2, <2>2, <2>3 DEF UInv, OpenSocketsHaveSessions
  <1> QED
    BY <1>1, <1>2, PatientInvAlways, PTL

\* A client that is found stays to be found while it is connected, unless the
\* session of an older connection of its process is released.
Found(c) == idxPidMap_[Pid(c)] # NoFd /\ sessionsMap_[idxPidMap_[Pid(c)]] = c

HideStep ==
  \A c \in Conns : Patient(Pid(c))' /\ held[c] /\ held'[c] /\ Found(c) /\ ~Found(c)' =>
    \E d \in Conns \ {c}, fd \in Fds :
      Pid(d) = Pid(c) /\ sessionsMap_[fd] = d /\ sessionsMap_'[fd] = NoConn

\* DelSession of an older connection of the same process is the only way in which
\* the index loses a connected client.
THEOREM OnlyOldSessionsHideNew == Spec => [][HideStep]_vars
  <1>1. ASSUME UInv, PairInv, [Next]_vars, UInv', PatientInv', NEW c \in Conns,
               Patient(Pid(c))', held[c], held'[c], Found(c), ~Found(c)'
        PROVE  \E d \in Conns \ {c}, fd \in Fds :
                 Pid(d) = Pid(c) /\ sessionsMap_[fd] = d /\ sessionsMap_'[fd] = NoConn
    <2>0. Pid(c) \in Pids
      BY DEF Pid, Conns
    <2>1. idxPidMap_'[Pid(c)] = NoFd /\ idxPidMap_[Pid(c)] # NoFd
      <3> SUFFICES ASSUME idxPidMap_'[Pid(c)] # NoFd
                   PROVE  sessionsMap_'[idxPidMap_'[Pid(c)]] = c
        BY <1>1 DEF Found
      <3>1. idxPidMap_'[Pid(c)] \in Fds
        BY <1>1, <2>0 DEF UInv, TypeOK
      <3>2. fdTable'[idxPidMap_'[Pid(c)]] = Server(c)
        BY <1>1, <2>0 DEF PatientInv, IndexInv, IndexIsLatest, HasEnd
      <3> QED
        BY <1>1, <3>1, <3>2 DEF UInv, OpenSocketsHaveSessions
    <2>2. ~Still
      BY <2>1 DEF Still
    <2>3. ASSUME NEW d \in Conns, AddSocketPairInfo(d) PROVE FALSE
      BY <1>1, <2>0, <2>1, <2>3, AddEffect, UdsAssumption
    <2>4. ASSUME NEW d \in Conns, Reply(d) \/ CloseSocketFdTimer(d) PROVE FALSE
      BY <2>1, <2>4 DEF Reply, CloseSocketFdTimer, maps
    <2>5. PICK fd \in Fds : OnEpollHangUp(fd)
      BY <1>1, <2>2, <2>3, <2>4, Steps
    <2>6. PICK d \in Conns :
            /\ fdTable[fd] = Server(d) /\ ~HasEnd(d)
            /\ \A p \in Pids \ {Pid(d)} : idxPidMap_'[p] = idxPidMap_[p]
      BY <1>1, <2>5, HangUpEffect
    <2>7. d # c /\ Pid(d) = Pid(c)
      BY <1>1, <2>0, <2>1, <2>6 DEF HasEnd
    <2>8. sessionsMap_[fd] = d /\ sessionsMap_ \in [Fds -> Conns \union {NoConn}]
      BY <1>1, <2>6 DEF UInv, OpenSocketsHaveSessions, TypeOK
    <2>9. sessionsMap_'[fd] = NoConn
      BY <2>5, <2>8, UdsAssumption DEF OnEpollHangUp, ReleaseSession, DelSession
    <2> QED
      BY <2>7, <2>8, <2>9
  <1>2. UInv /\ PairInv /\ [Next]_vars /\ UInv' /\ PatientInv' => HideStep
    BY <1>1 DEF HideStep
  <1> QED
    BY <1>2, PatientInvAlways, PTL DEF Spec
=============================================================================
