-------------------------- MODULE ClientConnection --------------------------
(***************************************************************************)
(* The connection of a client to the service: MMIClient and UDSClient with *)
(* the event handler that watches the socket.  When the service closes its *)
(* end - it died, or it gave the session up - the event handler calls      *)
(* OnShutdown, OnException or both, each of which takes the connection     *)
(* down and posts OnReconnect, which tries again until it is connected.    *)
(*                                                                         *)
(* An application may pass its own event handler to the library.  It       *)
(* listens to the socket as soon as there is one; with some settings of    *)
(* the system, StartEventRunner then replaces it by one of the library,    *)
(* which it also makes when there is none.  Every connection has a number, *)
(* which stands for the file descriptor and is not used again; 0 is none.  *)
(*                                                                         *)
(* What an event handler does is outside: it never refuses a listener or a *)
(* task, and calls one function at a time.  The delay of OnReconnect is    *)
(* left out, a posted call may start at any time.  isExit stays FALSE.     *)
(***************************************************************************)
EXTENDS MessageStream, FiniteSets

CONSTANTS
  App, Own, NoHandler,  \* event handlers: the application's, the library's
  MaxLosses             \* bound of the model: connections the service drops

ASSUME ConnectionAssumption ==
  /\ App # Own /\ NoHandler \notin {App, Own}
  /\ MaxLosses \in Nat

Handlers == {App, Own}

VARIABLES
  up,             \* the service runs
  losses,         \* connections it dropped
  conn,           \* the latest connection
  open,           \*   whose end at the service is open
  phase,          \* of Start: "new", "connected", "started"
  fd_, isConnected_, isListening_, isRunning_, eventHandler_,
  listener,       \* handler -> connection whose socket it watches
  reconnects,     \* handler -> calls of OnReconnect posted to it
  calls,          \* what the handler at work still calls: OnShutdown, OnException
  raced           \* the connection was lost before Start was done

service == <<up, losses, conn, open>>
flags == <<fd_, isConnected_, isListening_, isRunning_, eventHandler_>>
posted == <<listener, reconnects>>
client == <<phase, flags, posted, calls, raced>>
vars == <<stream, service, client>>

Init ==
  /\ StreamInit
  /\ up = TRUE /\ losses = 0 /\ conn = 0 /\ open = FALSE
  /\ phase = "new"
  /\ fd_ = 0 /\ isConnected_ = FALSE /\ isListening_ = FALSE /\ isRunning_ = FALSE
  /\ eventHandler_ \in {App, NoHandler}
  /\ listener = [h \in Handlers |-> 0]
  /\ reconnects = [h \in Handlers |-> 0]
  /\ calls = {} /\ raced = FALSE

Idle == reading = "idle" /\ calls = {}
-----------------------------------------------------------------------------
(* The service.                                                            *)

ServiceSends ==
  /\ open
  /\ SendSome \/ \E n \in Sizes : SendMsg(n)
  /\ UNCHANGED <<service, client>>

ServiceDies ==
  /\ up /\ losses < MaxLosses
  /\ up' = FALSE /\ open' = FALSE /\ losses' = losses + 1
  /\ sending' = NotSending
  /\ UNCHANGED <<packets, wire, rPos_, unread, reading, more, sent, got, torn, refused,
                 conn, client>>

ServiceStarts ==
  /\ ~up
  /\ up' = TRUE
  /\ UNCHANGED <<stream, losses, conn, open, client>>

\* The worker deletes the session and closes its socket.
SessionEnds ==
  /\ open /\ ~Sending /\ losses < MaxLosses
  /\ open' = FALSE /\ losses' = losses + 1
  /\ UNCHANGED <<stream, up, conn, client>>

\* The service makes a pair of sockets; the other end is for the client, where
\* bytes of the connection before may be left in circBuf_.
NewConnection ==
  /\ up /\ ~Sending
  /\ conn' = conn + 1 /\ open' = TRUE
  /\ wire' = << >>
  /\ torn' = (torn \/ unread # << >>)
  /\ UNCHANGED <<packets, sending, rPos_, unread, reading, more, sent, got, refused,
                 up, losses>>
-----------------------------------------------------------------------------
(* Start.                                                                  *)

AddFdListener(h, fd) == listener' = [listener EXCEPT ![h] = fd] /\ isRunning_' = TRUE

\* OnConnected listens unless it has no handler, or something listens already.
OnConnected ==
  /\ fd_' = conn' /\ isConnected_' = TRUE
  /\ IF ~isRunning_ /\ eventHandler_ # NoHandler
     THEN AddFdListener(eventHandler_, conn') /\ isListening_' = TRUE
     ELSE UNCHANGED <<listener, isRunning_, isListening_>>

\* Where the service does not answer, Start fails and the client is thrown away.
StartClient ==
  /\ phase = "new" /\ NewConnection /\ OnConnected
  /\ phase' = "connected"
  /\ UNCHANGED <<eventHandler_, reconnects, calls, raced>>

StartEventRunner ==
  /\ phase = "connected"
  /\ \E h \in {eventHandler_, Own} \ {NoHandler} :
       /\ eventHandler_' = h
       /\ IF isConnected_ /\ fd_ # 0
          THEN /\ IF isListening_ THEN UNCHANGED <<listener, isRunning_>>
                  ELSE AddFdListener(h, fd_)
               /\ UNCHANGED reconnects
          ELSE /\ reconnects' = [reconnects EXCEPT ![h] = @ + 1]
               /\ UNCHANGED <<listener, isRunning_>>
  /\ phase' = "started"
  /\ UNCHANGED <<stream, service, fd_, isConnected_, isListening_, calls, raced>>
-----------------------------------------------------------------------------
(* The handler that listens to the socket.                                 *)

\* There is something to read, or the other end was closed: the handler calls
\* OnReadable, then OnShutdown and OnException as the kernel says.
FdEvent ==
  /\ Idle /\ fd_ # 0 /\ \E h \in Handlers : listener[h] = conn
  /\ wire # << >> \/ ~open
  /\ reading' = "recv"
  /\ IF open THEN UNCHANGED calls
     ELSE calls' \in (SUBSET {"OnShutdown", "OnException"}) \ {{}}
  /\ UNCHANGED <<packets, sending, wire, rPos_, unread, more, sent, got, torn, refused,
                 service, phase, flags, posted, raced>>

OnReadable == ReadStep /\ UNCHANGED <<service, client>>

\* Mutant: tasks that were posted stay.
DelFdListener_KeepsEvents ==
  IF eventHandler_ = NoHandler THEN UNCHANGED <<posted, isRunning_>>
  ELSE /\ listener' = [listener EXCEPT ![eventHandler_] = IF @ = fd_ THEN 0 ELSE @]
       /\ reconnects' = [reconnects EXCEPT ![eventHandler_] = @ + 1]
       /\ isRunning_' = FALSE

\* Mutant: OnReconnect is posted before DelFdListener removes all tasks.
DelFdListener_Last ==
  IF eventHandler_ = NoHandler THEN UNCHANGED <<posted, isRunning_>>
  ELSE /\ listener' = [listener EXCEPT ![eventHandler_] = IF @ = fd_ THEN 0 ELSE @]
       /\ reconnects' = [reconnects EXCEPT ![eventHandler_] = 0]
       /\ isRunning_' = FALSE

\* DelFdListener removes the socket and all tasks from the handler; then
\* OnReconnect is posted.
DelFdListener ==
  IF eventHandler_ = NoHandler THEN UNCHANGED <<posted, isRunning_>>
  ELSE /\ listener' = [listener EXCEPT ![eventHandler_] = IF @ = fd_ THEN 0 ELSE @]
       /\ reconnects' = [reconnects EXCEPT ![eventHandler_] = 1]
       /\ isRunning_' = FALSE

\* OnDisconnected; the bytes of circBuf_ stay.
OnDisconnected(call) ==
  /\ reading = "idle" /\ call \in calls
  /\ call = "OnException" => "OnShutdown" \notin calls
  /\ calls' = calls \ {call}
  /\ isConnected_' = FALSE /\ isListening_' = FALSE
  /\ DelFdListener
  /\ fd_' = 0
  /\ wire' = << >> /\ open' = FALSE
  /\ raced' = (raced \/ phase = "connected")
  /\ UNCHANGED <<packets, sending, rPos_, unread, reading, more, sent, got, torn,
                 refused, up, losses, conn, phase, eventHandler_>>

\* OnReconnect, posted to handler h.
ReconnectSucceeds(h) ==
  /\ Idle /\ reconnects[h] > 0
  /\ NewConnection /\ OnConnected
  /\ reconnects' = [reconnects EXCEPT ![h] = @ - 1]
  /\ UNCHANGED <<phase, eventHandler_, calls, raced>>

\* The service is not there, or refuses: OnReconnect is posted again.
ReconnectFails(h) ==
  /\ Idle /\ reconnects[h] > 0
  /\ reconnects' = [reconnects EXCEPT ![h] = @ - 1, ![eventHandler_] = @ + 1]
  /\ UNCHANGED <<stream, service, phase, flags, listener, calls, raced>>
-----------------------------------------------------------------------------
Next ==
  \/ ServiceSends
  \/ ServiceDies \/ ServiceStarts \/ SessionEnds
  \/ StartClient \/ StartEventRunner
  \/ FdEvent \/ OnReadable
  \/ \E call \in {"OnShutdown", "OnException"} : OnDisconnected(call)
  \/ \E h \in Handlers : ReconnectSucceeds(h) \/ ReconnectFails(h)

Spec == Init /\ [][Next]_vars

\* Loops run and handlers are called; the service is started again, and does
\* not refuse a client for ever.
Fairness ==
  /\ WF_vars(Sending /\ ServiceSends)
  /\ WF_vars(ServiceStarts)
  /\ WF_vars(StartEventRunner)
  /\ WF_vars(FdEvent) /\ WF_vars(OnReadable)
  /\ WF_vars(\E call \in calls : OnDisconnected(call))
  /\ \A h \in Handlers : SF_vars(ReconnectSucceeds(h))

FairSpec == Spec /\ Fairness
-----------------------------------------------------------------------------
(* Properties.                                                             *)

\* The client's view of the connection is consistent with what its handlers do:
\* without a connection exactly one call of OnReconnect is posted, however often
\* the loss was reported; with one none is, and a handler listens to the socket.
\* A second call would open a second connection that nobody reads.
Posted == reconnects[App] + reconnects[Own]
Listens == \E h \in Handlers : listener[h] = fd_

ReconnectIsArmed ==
  phase = "started" /\ ~raced =>
    IF fd_ = 0 THEN Posted = 1
    ELSE Posted = 0 /\ Listens /\ fd_ = conn /\ isRunning_

\* A client that lost the service finds it again.
ConnectionComesBack ==
  phase = "started" /\ ~open ~> (open /\ fd_ = conn /\ Listens) \/ raced

\* What SendMsg says was sent is handed on by the client, to the last packet once
\* the service pauses, unless the connection is lost or the stream was torn.
Outstanding == sent \ {got[i] : i \in 1 .. Len(got)}

SentIsDelivered ==
  Outstanding # {} ~> Outstanding = {} \/ torn \/ ~open \/ raced
=============================================================================
