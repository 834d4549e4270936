---------------------------- MODULE KeyEventHooks ----------------------------
(***************************************************************************)
(* Hooks on key events, from the process that adds one to the service and  *)
(* back: KeyEventHookManager together with the client library.  A program  *)
(* calls OH_Input_AddKeyEventHook and its companions                       *)
(* (oh_input_manager.cpp) from a thread of its own; the library            *)
(* (KeyEventHookHandler) keeps the callback and the events that may still  *)
(* be passed on, and asks the service in a binder call.  The library's     *)
(* event thread reads the events, calls the callback and, when the         *)
(* connection was lost, makes a new one and adds the hook again.           *)
(*                                                                         *)
(* A call has three steps: it is made, it is served by the worker, and it  *)
(* returns.  Between them the other thread and the service go on.  Waits   *)
(* that time out (DelegateTasks) are left out, and so are ids that start   *)
(* again: the queue of pending keys is then ordered by id and by time.     *)
(* Of processes outside Programs only the calls that reach the service are *)
(* there, at any time; they remove their own hook only.                    *)
(***************************************************************************)
EXTENDS KeyEventHookManager

CONSTANTS
  Programs,    \* processes whose library is modelled
  TIMEOUT_MS   \* of the library: how long an event may be passed on

\* Both limits are 3000 ms.  An event may have grown old in the service before it
\* does in the library, which read it later.
ASSUME ClientAssumption ==
  /\ Programs \subseteq Pids /\ MaxEvents <= MAX_EVENT_ID
  /\ TIMEOUT_MS \in Nat \ {0} /\ STASH_EVENT_TIMEOUT <= TIMEOUT_MS

Threads == {"app", "event"}
NoHook == -1   \* INVALID_INTERCEPTOR_ID
Idle == [op |-> "idle", arg |-> 0]
Call(op, arg) == [op |-> op, arg |-> arg]

VARIABLES
  appCallback,     \* process -> oh_input_manager.cpp has its callback
  keyEventHookId,  \* process -> g_keyEventHookId
  hookCallback_,   \* process -> KeyEventHookHandler has the callback
  hookIdUpdater_,  \* process -> KeyEventHookHandler has the updater of the id
  pendingKeys_,    \* process -> events it may pass on, with the time
  inbox,           \* process -> messages it was sent and did not read
  seen,            \* process -> events its callback was called with
  call,            \* process, thread -> the call it is in
  passedOn,        \* history: process -> the last event passed on with success
  early,           \* history: events read while the hook was being added
  crossed          \* history: processes of which two calls on hooks overlapped,
                   \* or whose session was lost during one

callbacks == <<appCallback, keyEventHookId, hookCallback_, hookIdUpdater_>>
library == <<callbacks, pendingKeys_, inbox, seen, call, passedOn, early>>
server == vars
sysVars == <<vars, library, crossed>>

SysInit ==
  /\ Init
  /\ appCallback = [p \in Programs |-> FALSE]
  /\ keyEventHookId = [p \in Programs |-> NoHook]
  /\ hookCallback_ = [p \in Programs |-> FALSE]
  /\ hookIdUpdater_ = [p \in Programs |-> FALSE]
  /\ pendingKeys_ = [p \in Programs |-> {}]
  /\ inbox = [p \in Programs |-> << >>]
  /\ seen = [p \in Programs |-> {}]
  /\ call = [p \in Programs |-> [t \in Threads |-> Idle]]
  /\ passedOn = [p \in Programs |-> 0]
  /\ early = [p \in Programs |-> {}]
  /\ crossed = {}

IsIn(p, t, op) == call[p][t].op = op
Go(p, t, next) == call' = [call EXCEPT ![p][t] = next]

\* What the hooks are offered in this step goes to their processes.
Deliver ==
  inbox' = [p \in Programs |->
              IF \E h \in HookOf(p) : offered'[h] # offered[h]
              THEN Append(inbox[p], CHOOSE n \in 1 .. MaxEvents :
                     \E h \in HookOf(p) : offered'[h] = n /\ offered[h] # n)
              ELSE inbox[p]]
-----------------------------------------------------------------------------
(* OH_Input_AddKeyEventHook.                                               *)

\* One hook for a process; both callbacks are set before the service is asked.
AddHook(p) ==
  /\ IsIn(p, "app", "idle")
  /\ ~appCallback[p] /\ keyEventHookId[p] = NoHook
  /\ appCallback' = [appCallback EXCEPT ![p] = TRUE]
  /\ hookCallback_' = [hookCallback_ EXCEPT ![p] = TRUE]
  /\ Go(p, "app", Call("add", 0))
  /\ UNCHANGED <<server, keyEventHookId, hookIdUpdater_, pendingKeys_, inbox,
                 seen, passedOn, early>>

\* MMIService::AddKeyEventHook, for the program or for OnConnected: there may be
\* no session or already a hook.
ServeAdd(p, t) ==
  /\ IsIn(p, t, "add")
  /\ \/ \E h \in HookIds :
          AddKeyEventHook(p, h) /\ Go(p, t, Call("added", h))
     \/ ~CanAdd(p) /\ Go(p, t, Call("addFailed", 0)) /\ UNCHANGED server
  /\ UNCHANGED <<callbacks, pendingKeys_, inbox, seen, passedOn, early>>

\* Mutant: the callback stays after the service refused the hook.
AddFails_KeepsCallback(p) ==
  /\ IsIn(p, "app", "addFailed")
  /\ appCallback' = [appCallback EXCEPT ![p] = FALSE]
  /\ keyEventHookId' = [keyEventHookId EXCEPT ![p] = NoHook]
  /\ Go(p, "app", Idle)
  /\ UNCHANGED <<server, hookCallback_, hookIdUpdater_, pendingKeys_, inbox,
                 seen, passedOn, early>>

AddFails(p) ==
  /\ IsIn(p, "app", "addFailed")
  /\ appCallback' = [appCallback EXCEPT ![p] = FALSE]
  /\ keyEventHookId' = [keyEventHookId EXCEPT ![p] = NoHook]
  /\ hookCallback_' = [hookCallback_ EXCEPT ![p] = FALSE]
  /\ Go(p, "app", Idle)
  /\ UNCHANGED <<server, hookIdUpdater_, pendingKeys_, inbox, seen, passedOn,
                 early>>

\* The pending keys are removed when the hook is in place already.
AddReturns(p) ==
  /\ IsIn(p, "app", "added")
  /\ pendingKeys_' = [pendingKeys_ EXCEPT ![p] = {}]
  /\ keyEventHookId' = [keyEventHookId EXCEPT ![p] = call[p]["app"].arg]
  /\ hookIdUpdater_' = [hookIdUpdater_ EXCEPT ![p] = TRUE]
  /\ Go(p, "app", Idle)
  /\ UNCHANGED <<server, appCallback, hookCallback_, inbox, seen, passedOn,
                 early>>
-----------------------------------------------------------------------------
(* OH_Input_RemoveKeyEventHook.                                            *)

RemoveHook(p) ==
  /\ IsIn(p, "app", "idle") /\ appCallback[p]
  /\ Go(p, "app", Call("remove", keyEventHookId[p]))
  /\ UNCHANGED <<server, callbacks, pendingKeys_, inbox, seen, passedOn, early>>

\* MMIService::RemoveKeyEventHook: a process without a hook is told RET_OK.
ServeRemove(p) ==
  LET h == call[p]["app"].arg IN
  /\ IsIn(p, "app", "remove")
  /\ \/ RemoveKeyEventHook(p, h) /\ Go(p, "app", Call("removed", h))
     \/ HookOf(p) = {} /\ Go(p, "app", Call("removed", h)) /\ UNCHANGED server
     \/ HookOf(p) # {} /\ h \notin Hooks /\ Go(p, "app", Idle) /\ UNCHANGED server
  /\ UNCHANGED <<callbacks, pendingKeys_, inbox, seen, passedOn, early>>

RemoveReturns(p) ==
  /\ IsIn(p, "app", "removed")
  /\ appCallback' = [appCallback EXCEPT ![p] = FALSE]
  /\ hookCallback_' = [hookCallback_ EXCEPT ![p] = FALSE]
  /\ pendingKeys_' = [pendingKeys_ EXCEPT ![p] = {}]
  /\ keyEventHookId' = [keyEventHookId EXCEPT ![p] = NoHook]
  /\ Go(p, "app", Idle)
  /\ UNCHANGED <<server, hookIdUpdater_, inbox, seen, passedOn, early>>
-----------------------------------------------------------------------------
(* OH_Input_DispatchToNextHandler.                                         *)

\* UpdatePendingKeys and IsValidEvent: an event as old as the limit stays in the
\* queue and is not valid.
Recent(p) == {k \in pendingKeys_[p] : now - k.at <= TIMEOUT_MS}
IsValidEvent(p, n) ==
  \E k \in Recent(p) : k.event = n /\ now - k.at < TIMEOUT_MS

\* The program passes on an event its callback was called with, now or later.
PassOn(p, t, n) ==
  /\ IsIn(p, t, "idle") /\ n \in seen[p]
  /\ appCallback[p] /\ keyEventHookId[p] # NoHook
  /\ pendingKeys_' = [pendingKeys_ EXCEPT ![p] = Recent(p)]
  /\ \/ IsValidEvent(p, n) /\ Go(p, t, Call("pass", n))
     \/ ~IsValidEvent(p, n) /\ UNCHANGED call
  /\ UNCHANGED <<server, callbacks, inbox, seen, passedOn, early>>

ServePass(p, t) ==
  LET n == call[p][t].arg IN
  /\ IsIn(p, t, "pass")
  /\ \/ /\ DispatchToNextHandler(p, n, "RET_OK")
        /\ Go(p, t, Call("passed", n))
     \/ /\ \/ \E ret \in Results \ {"RET_OK"} : DispatchToNextHandler(p, n, ret)
           \/ HookOf(p) = {} /\ UNCHANGED server
        /\ Go(p, t, Idle)
  /\ Deliver
  /\ UNCHANGED <<callbacks, pendingKeys_, seen, passedOn, early>>

\* Mutant: the event that was passed on and those after it are removed.
PassReturns_Later(p, t) ==
  LET n == call[p][t].arg IN
  /\ IsIn(p, t, "passed")
  /\ pendingKeys_' = [pendingKeys_ EXCEPT ![p] = {k \in @ : k.event < n}]
  /\ passedOn' = [passedOn EXCEPT ![p] = IF n > @ THEN n ELSE @]
  /\ Go(p, t, Idle)
  /\ UNCHANGED <<server, callbacks, inbox, seen, early>>

\* RemoveExpiredPendingKeys: the event and those before it.
PassReturns(p, t) ==
  LET n == call[p][t].arg IN
  /\ IsIn(p, t, "passed")
  /\ pendingKeys_' = [pendingKeys_ EXCEPT ![p] = {k \in @ : k.event > n}]
  /\ passedOn' = [passedOn EXCEPT ![p] = IF n > @ THEN n ELSE @]
  /\ Go(p, t, Idle)
  /\ UNCHANGED <<server, callbacks, inbox, seen, early>>
-----------------------------------------------------------------------------
(* The event thread.                                                       *)

\* OnKeyEvent: the event is noted, and the callback called if there is one.
OnKeyEvent(p) ==
  LET n == Head(inbox[p])
      noted == pendingKeys_[p] \union {[event |-> n, at |-> now]}
  IN
  /\ IsIn(p, "event", "idle") /\ inbox[p] # << >>
  /\ inbox' = [inbox EXCEPT ![p] = Tail(@)]
  /\ pendingKeys_' =
       [pendingKeys_ EXCEPT ![p] = {k \in noted : now - k.at <= TIMEOUT_MS}]
  /\ seen' = [seen EXCEPT ![p] = IF hookCallback_[p] THEN @ \union {n} ELSE @]
  /\ early' = [early EXCEPT
                 ![p] = IF call[p]["app"].op \in {"add", "added"}
                        THEN @ \union {n} ELSE @]
  /\ UNCHANGED <<server, callbacks, call, passedOn>>

\* MMIClient reads the end of the stream, after the messages that were sent
\* before it, and connects again.
Reconnect(p) ==
  /\ IsIn(p, "event", "idle") /\ inbox[p] = << >>
  /\ Connect(p)
  /\ Go(p, "event", Call("connected", 0))
  /\ UNCHANGED <<callbacks, pendingKeys_, inbox, seen, passedOn, early>>

\* OnConnected: a hook that was added before is added again.
OnConnected(p) ==
  /\ IsIn(p, "event", "connected")
  /\ Go(p, "event", IF hookCallback_[p] THEN Call("add", 0) ELSE Idle)
  /\ UNCHANGED <<server, callbacks, pendingKeys_, inbox, seen, passedOn, early>>

\* Mutant: the id the program knows is not updated.
ReAddReturns_NoUpdate(p) ==
  /\ Go(p, "event", Idle)
  /\ \/ /\ IsIn(p, "event", "addFailed")
        /\ hookCallback_' = [hookCallback_ EXCEPT ![p] = FALSE]
     \/ IsIn(p, "event", "added") /\ UNCHANGED hookCallback_
  /\ UNCHANGED <<server, appCallback, keyEventHookId, hookIdUpdater_,
                 pendingKeys_, inbox, seen, passedOn, early>>

\* The service's answer to it.
ReAddReturns(p) ==
  /\ Go(p, "event", Idle)
  /\ \/ /\ IsIn(p, "event", "addFailed")
        /\ hookCallback_' = [hookCallback_ EXCEPT ![p] = FALSE]
        /\ UNCHANGED keyEventHookId
     \/ /\ IsIn(p, "event", "added")
        /\ keyEventHookId' =
             [keyEventHookId EXCEPT
                ![p] = IF hookIdUpdater_[p] THEN call[p]["event"].arg ELSE @]
        /\ UNCHANGED hookCallback_
  /\ UNCHANGED <<server, appCallback, hookIdUpdater_, pendingKeys_, inbox, seen,
                 passedOn, early>>
-----------------------------------------------------------------------------
\* A process whose library is not modelled.
OtherProcess(p) ==
  \/ Connect(p)
  \/ \E h \in HookIds : AddKeyEventHook(p, h)
  \/ \E h \in HookOf(p) : RemoveKeyEventHook(p, h)
  \/ \E n \in 1 .. MaxEvents, ret \in Results : DispatchToNextHandler(p, n, ret)

\* The service's own steps and what reaches it from elsewhere: events, the
\* clock, sessions that are lost.
ServerStep ==
  /\ \/ Tick
     \/ \E k \in Keys, a \in Actions : HandleKeyEvent(k, a)
     \/ \E p \in Pids : OnSessionLost(p)
     \/ \E p \in Pids \ Programs : OtherProcess(p)
  /\ Deliver
  /\ UNCHANGED <<callbacks, pendingKeys_, seen, call, passedOn, early>>

AppThread(p) ==
  \/ AddFails(p) \/ AddReturns(p) \/ RemoveReturns(p) \/ PassReturns(p, "app")

EventThread(p) ==
  \/ OnKeyEvent(p) \/ Reconnect(p) \/ OnConnected(p) \/ ReAddReturns(p)
  \/ PassReturns(p, "event")

Serve(p) ==
  \/ ServeRemove(p)
  \/ \E t \in Threads : ServeAdd(p, t) \/ ServePass(p, t)

\* Calls on hooks of p that are under way: adding, removing, adding again.
OnHooks == {"add", "added", "addFailed", "remove", "removed", "connected"}
InCalls(p, c) == {t \in Threads : c[p][t].op \in OnHooks}

Crossing(p) ==
  \/ InCalls(p, call') = Threads
  \/ p \in connected \ connected' /\ InCalls(p, call) # {}

SysStep ==
  \/ ServerStep
  \/ \E p \in Programs :
       \/ AddHook(p) \/ RemoveHook(p)
       \/ \E t \in Threads, n \in 1 .. MaxEvents : PassOn(p, t, n)
       \/ AppThread(p) \/ EventThread(p) \/ Serve(p)

SysNext == SysStep /\ crossed' = crossed \union {p \in Programs : Crossing(p)}

SysSpec == SysInit /\ [][SysNext]_sysVars
-----------------------------------------------------------------------------
(* Properties.                                                             *)

Quiet(p) == p \in connected /\ InCalls(p, call) = {}

\* Program, library and service agree on the hook once no call is under way,
\* also after the connection was lost and the hook added again.  Otherwise key
\* events go to a process that ignores them and are seen by nobody, or a hook
\* cannot be removed.  Only calls that overlapped can make them disagree.
HookAgreement ==
  \A p \in Programs \ crossed : Quiet(p) =>
    /\ hookCallback_[p] = (HookOf(p) # {})
    /\ appCallback[p] = (HookOf(p) # {})
    /\ HookOf(p) \subseteq {keyEventHookId[p]}

\* The library does not refuse what the service would accept: an event that the
\* callback was called with and that the service still lets the hook pass on is
\* valid for the library, unless it was read while the hook was being added
\* (AddReturns) or the program passed on a later one.
LibraryLetsPass ==
  \A p \in Programs \ crossed : \A h \in HookOf(p), n \in seen[p] :
    MayPass(h, n) /\ n \notin early[p] /\ n > passedOn[p]
      /\ InCalls(p, call) = {}
    => IsValidEvent(p, n)
=============================================================================
