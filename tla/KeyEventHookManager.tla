------------------------- MODULE KeyEventHookManager -------------------------
(***************************************************************************)
(* Hooks on key events, in the service: KeyEventHookManager                *)
(* (key_event_hook_manager.cpp) with the three checkers it keeps for each  *)
(* hook, and the end of the handler chain that asks it                     *)
(* (EventDispatchHandler::HandleKeyEvent).  An event goes to the hook that *)
(* was added last and to nobody else; the process of that hook may pass it *)
(* on by its id, to the hook added before and in the end to the window     *)
(* that has the focus.  What is not passed on within 3 s is dropped.       *)
(*                                                                         *)
(* Everything runs on the worker: events in the event loop, the calls of   *)
(* the processes as delegate tasks.  An event is named by its number; its  *)
(* id is what InputEvent::UpdateId makes of it, which starts again at 1    *)
(* after the largest one.  The focused window and the sockets are outside: *)
(* a message is taken or refused.  A session is released before its        *)
(* process has a new one (UdsServer has the other order).                  *)
(***************************************************************************)
EXTENDS Integers, Sequences, FiniteSets

CONSTANTS
  Pids,                       \* processes that add hooks
  Nobody,                     \* no process
  Keys,                       \* key codes
  STASH_EVENT_TIMEOUT,        \* STASH_EVENT_TIMEOUT_MS
  MAX_EVENT_ID,               \* INT32_MAX - 1
  MaxHooks, MaxEvents, MaxNow, MaxRefusals, MaxLost   \* bounds of the model

ASSUME HookAssumption ==
  /\ Nobody \notin Pids
  /\ STASH_EVENT_TIMEOUT \in Nat \ {0} /\ MAX_EVENT_ID \in Nat \ {0}
  /\ MaxHooks \in Nat /\ MaxEvents \in Nat /\ MaxNow \in Nat
  /\ MaxRefusals \in Nat /\ MaxLost \in Nat

HookIds == 0 .. MaxHooks - 1
Actions == {"down", "up"}   \* CANCEL is treated as UP

VARIABLES
  now,              \* the steady clock
  events,           \* the key events that were handled, in order
  connected,        \* processes that have a session
  globalHookId,     \* the id of the next hook
  hooks_,           \* hook -> the process it belongs to
  stashEvents_,     \* hook -> events it was offered, with the time
  dispatchedEventIds_,   \* hook -> the last event it passed on, or 0
  pendingDownKeys_, \* hook -> keys whose DOWN it passed on
  windowGot,        \* the events the focused window was sent, in order
  offered,          \* history: hook -> the last event it was offered
  bypassed,         \* history: events the first hook's socket refused
  refusals, lost    \* counters for the bounds

checkers == <<stashEvents_, dispatchedEventIds_, pendingDownKeys_>>
delivery == <<windowGot, offered, bypassed, refusals>>
vars == <<now, events, connected, globalHookId, hooks_, checkers, delivery, lost>>

Init ==
  /\ now = 0 /\ events = << >>
  /\ connected = Pids
  /\ globalHookId = 0
  /\ hooks_ = [h \in HookIds |-> Nobody]
  /\ stashEvents_ = [h \in HookIds |-> {}]
  /\ dispatchedEventIds_ = [h \in HookIds |-> 0]
  /\ pendingDownKeys_ = [h \in HookIds |-> {}]
  /\ windowGot = << >>
  /\ offered = [h \in HookIds |-> 0]
  /\ bypassed = {}
  /\ refusals = 0 /\ lost = 0

\* The id of the n-th event.
Id(n) == ((n - 1) % MAX_EVENT_ID) + 1

\* The chain: hooks are put in front and their ids grow.
Hooks == {h \in HookIds : hooks_[h] # Nobody}
IsFirst(h) == h \in Hooks /\ \A k \in Hooks : k <= h
IsNext(h, k) == k \in Hooks /\ k < h /\ \A j \in Hooks : j < h => j <= k
IsLast(h) == h \in Hooks /\ \A k \in Hooks : h <= k

\* RemoveExpiredStashEventLocked: only the front can be old, the times grow.
Fresh(h) == {s \in stashEvents_[h] : now - s.at < STASH_EVENT_TIMEOUT}

Tick ==
  /\ now < MaxNow
  /\ now' = now + 1
  /\ UNCHANGED <<events, connected, globalHookId, hooks_, checkers, delivery,
                 lost>>
-----------------------------------------------------------------------------
(* Sending.                                                                *)

CanRefuse == refusals < MaxRefusals

\* HookHandler: the socket takes the message, and the event is stashed.
SendToHook(h, n) ==
  /\ stashEvents_' =
       [stashEvents_ EXCEPT ![h] = Fresh(h) \union {[event |-> n, at |-> now]}]
  /\ offered' = [offered EXCEPT ![h] = n]
  /\ UNCHANGED <<windowGot, refusals>>

\* DispatchDirectly: the window's socket takes the event or refuses it.
SendToWindow(n) ==
  /\ \/ windowGot' = Append(windowGot, n) /\ UNCHANGED refusals
     \/ CanRefuse /\ refusals' = refusals + 1 /\ UNCHANGED windowGot
  /\ UNCHANGED offered

\* HookHandler: the socket refuses the message.
Refuse ==
  /\ CanRefuse
  /\ refusals' = refusals + 1
  /\ UNCHANGED <<windowGot, offered>>
-----------------------------------------------------------------------------
(* Events.                                                                 *)

\* A key event reaches the end of the handler chain.
NewEvent(k, a) ==
  /\ Len(events) < MaxEvents
  /\ events' = Append(events, [key |-> k, action |-> a])
  /\ UNCHANGED <<now, connected, globalHookId, hooks_, dispatchedEventIds_,
                 pendingDownKeys_, lost>>

\* Mutant: an event that was offered to a hook is dispatched as well.
HandleKeyEvent_FallsThrough(k, a) ==
  LET n == Len(events) + 1 IN
  /\ NewEvent(k, a)
  /\ \/ \E h \in Hooks :
          /\ IsFirst(h)
          /\ stashEvents_' = [stashEvents_ EXCEPT
                                ![h] = Fresh(h) \union {[event |-> n, at |-> now]}]
          /\ offered' = [offered EXCEPT ![h] = n]
          /\ windowGot' = Append(windowGot, n)
          /\ UNCHANGED <<refusals, bypassed>>
     \/ Hooks = {} /\ SendToWindow(n) /\ UNCHANGED <<stashEvents_, bypassed>>

\* HandleKeyEvent: the first hook has it; without a hook, or if the hook's
\* socket refuses it, the window.
HandleKeyEvent(k, a) ==
  LET n == Len(events) + 1 IN
  /\ NewEvent(k, a)
  /\ \/ \E h \in Hooks : IsFirst(h) /\ SendToHook(h, n) /\ UNCHANGED bypassed
     \/ /\ CanRefuse /\ Hooks # {}
        /\ windowGot' = Append(windowGot, n)
        /\ bypassed' = bypassed \union {n}
        /\ refusals' = refusals + 1
        /\ UNCHANGED <<stashEvents_, offered>>
     \/ Hooks = {} /\ SendToWindow(n) /\ UNCHANGED <<stashEvents_, bypassed>>
-----------------------------------------------------------------------------
(* The calls of the processes.                                             *)

HookOf(p) == {h \in Hooks : hooks_[h] = p}

\* PrependHook: the new hook has the id GenerateHookId gives and is the first.
PrependHook(p, h) ==
  /\ h = globalHookId
  /\ hooks_' = [hooks_ EXCEPT ![h] = p]
  /\ globalHookId' = globalHookId + 1

CanAdd(p) == p \in connected /\ HookOf(p) = {}

\* AddKeyEventHook: one hook for a process.
AddKeyEventHook(p, h) ==
  /\ CanAdd(p) /\ h \in HookIds
  /\ PrependHook(p, h)
  /\ UNCHANGED <<now, events, connected, checkers, delivery, lost>>

\* Mutant: the expiration checker of the hook is left behind.
DropHook_KeepsStash(h) ==
  /\ hooks_' = [hooks_ EXCEPT ![h] = Nobody]
  /\ dispatchedEventIds_' = [dispatchedEventIds_ EXCEPT ![h] = 0]
  /\ pendingDownKeys_' = [pendingDownKeys_ EXCEPT ![h] = {}]
  /\ UNCHANGED stashEvents_

\* RemoveHookById, and RemoveChecker of the three checkers.
DropHook(h) ==
  /\ hooks_' = [hooks_ EXCEPT ![h] = Nobody]
  /\ stashEvents_' = [stashEvents_ EXCEPT ![h] = {}]
  /\ dispatchedEventIds_' = [dispatchedEventIds_ EXCEPT ![h] = 0]
  /\ pendingDownKeys_' = [pendingDownKeys_ EXCEPT ![h] = {}]

\* RemoveKeyEventHook: a process that has a hook removes the one it names.
RemoveKeyEventHook(p, h) ==
  /\ HookOf(p) # {} /\ h \in Hooks
  /\ DropHook(h)
  /\ UNCHANGED <<now, events, connected, globalHookId, delivery, lost>>

\* The session of p is released; OnSessionLost drops the hook of its pid.
OnSessionLost(p) ==
  /\ lost < MaxLost
  /\ p \in connected
  /\ connected' = connected \ {p}
  /\ lost' = lost + 1
  /\ \/ \E h \in HookOf(p) : DropHook(h)
     \/ HookOf(p) = {} /\ UNCHANGED <<hooks_, checkers>>
  /\ UNCHANGED <<now, events, globalHookId, delivery>>

\* The process has a new session.
Connect(p) ==
  /\ p \notin connected
  /\ connected' = connected \union {p}
  /\ UNCHANGED <<now, events, globalHookId, hooks_, checkers, delivery, lost>>
-----------------------------------------------------------------------------
(* DispatchToNextHandler.                                                  *)

IsStashed(h, n) == \E s \in Fresh(h) : s.event = n

\* Mutant: CheckDispatchOrder is not made.
IsInOrder_Any(h, n) == TRUE

\* CheckDispatchOrder: the ids are compared.
IsInOrder(h, n) ==
  dispatchedEventIds_[h] # 0 => Id(dispatchedEventIds_[h]) < Id(n)

\* CheckExpiration and CheckDispatchOrder pass.
MayPass(h, n) == IsStashed(h, n) /\ IsInOrder(h, n)

\* CheckAndUpdateEventLoopClosure: an UP goes on after its DOWN did.
IsClosed(h, n) ==
  events[n].action = "down" \/ events[n].key \in pendingDownKeys_[h]

\* What CheckExpiration leaves of the stash of h.
Purge(h) == stashEvents_' = [stashEvents_ EXCEPT ![h] = Fresh(h)]

\* The hook passes n on: the keys that are down, and UpdateLastDispatchedId.
Passed(h, n) ==
  /\ MayPass(h, n) /\ IsClosed(h, n)
  /\ pendingDownKeys_' =
       [pendingDownKeys_ EXCEPT
          ![h] = IF events[n].action = "down" THEN @ \union {events[n].key}
                 ELSE @ \ {events[n].key}]
  /\ dispatchedEventIds_' = [dispatchedEventIds_ EXCEPT ![h] = n]

\* Mutant: the last event is only noted when there is no next hook.
PassToHook_NotNoted(h, n) ==
  /\ MayPass(h, n) /\ IsClosed(h, n)
  /\ \E k \in Hooks :
       /\ IsNext(h, k)
       /\ stashEvents_' = [stashEvents_ EXCEPT
                             ![h] = Fresh(h),
                             ![k] = Fresh(k) \union {[event |-> n, at |-> now]}]
       /\ offered' = [offered EXCEPT ![k] = n]
  /\ UNCHANGED <<dispatchedEventIds_, pendingDownKeys_, windowGot, refusals>>

\* The next hook is offered the event.
PassToHook(h, n) ==
  /\ Passed(h, n)
  /\ \E k \in Hooks :
       /\ IsNext(h, k)
       /\ stashEvents_' = [stashEvents_ EXCEPT
                             ![h] = Fresh(h),
                             ![k] = Fresh(k) \union {[event |-> n, at |-> now]}]
       /\ offered' = [offered EXCEPT ![k] = n]
  /\ UNCHANGED <<windowGot, refusals>>

\* No hooks are left and the window is sent the event.
PassToWindow(h, n) ==
  /\ Passed(h, n)
  /\ IsLast(h)
  /\ windowGot' = Append(windowGot, n)
  /\ Purge(h)
  /\ UNCHANGED <<offered, refusals>>

\* The message to the next hook, or to the window, is refused: RET_ERR.
PassFails(h, n) ==
  /\ Passed(h, n)
  /\ Refuse
  /\ Purge(h)

\* An UP whose DOWN was not passed on goes nowhere: RET_OK.
PassSwallowed(h, n) ==
  /\ MayPass(h, n) /\ ~IsClosed(h, n)
  /\ Purge(h)
  /\ UNCHANGED <<dispatchedEventIds_, pendingDownKeys_, windowGot, offered,
                 refusals>>

\* ERROR_INVALID_PARAMETER
PassRefused(h, n) ==
  /\ ~MayPass(h, n)
  /\ Purge(h)
  /\ UNCHANGED <<dispatchedEventIds_, pendingDownKeys_, windowGot, offered,
                 refusals>>

\* The result of the call, for a process that has a hook.
Pass(h, n, ret) ==
  \/ ret = "RET_OK" /\ (PassToHook(h, n) \/ PassToWindow(h, n) \/ PassSwallowed(h, n))
  \/ ret = "RET_ERR" /\ PassFails(h, n)
  \/ ret = "ERROR_INVALID_PARAMETER" /\ PassRefused(h, n)

Results == {"RET_OK", "RET_ERR", "ERROR_INVALID_PARAMETER"}

DispatchToNextHandler(p, n, ret) ==
  /\ n \in 1 .. Len(events)
  /\ \E h \in HookOf(p) : Pass(h, n, ret)
  /\ UNCHANGED <<now, events, connected, globalHookId, hooks_, bypassed, lost>>
-----------------------------------------------------------------------------
Next ==
  \/ Tick
  \/ \E k \in Keys, a \in Actions : HandleKeyEvent(k, a)
  \/ \E p \in Pids :
       \/ OnSessionLost(p) \/ Connect(p)
       \/ \E h \in HookIds : AddKeyEventHook(p, h) \/ RemoveKeyEventHook(p, h)
       \/ \E n \in 1 .. MaxEvents, ret \in Results : DispatchToNextHandler(p, n, ret)

Spec == Init /\ [][Next]_vars
-----------------------------------------------------------------------------
(* Properties.                                                             *)

Event == [key : Keys, action : Actions]
Stashed == [event : Nat, at : Nat]

\* Hooks, checkers and what was delivered have their types.
TypeOK ==
  /\ now \in Nat
  /\ events \in Seq(Event) /\ Len(events) <= MaxEvents
  /\ connected \subseteq Pids
  /\ globalHookId \in Nat
  /\ hooks_ \in [HookIds -> Pids \union {Nobody}]
  /\ stashEvents_ \in [HookIds -> SUBSET Stashed]
  /\ dispatchedEventIds_ \in [HookIds -> Nat]
  /\ pendingDownKeys_ \in [HookIds -> SUBSET Keys]
  /\ windowGot \in Seq(Nat)
  /\ offered \in [HookIds -> Nat]
  /\ bypassed \subseteq Nat
  /\ refusals \in Nat /\ lost \in Nat

\* The event is in the stash of h, be it old, and h did not pass it on yet.
Holds(h, n) ==
  /\ \E s \in stashEvents_[h] : s.event = n
  /\ IsInOrder(h, n)

\* An event goes one way only: at most one hook can still pass it on, and none
\* once the window has it; the window has it once.  So no key is typed twice,
\* whatever hooks come, go and pass on, in any order and again.
OneWay ==
  /\ \A n \in 1 .. Len(events), h, k \in Hooks :
       Holds(h, n) /\ Holds(k, n) => h = k
  /\ \A i \in 1 .. Len(windowGot) :
       /\ \A h \in Hooks : ~Holds(h, windowGot[i])
       /\ \A j \in 1 .. Len(windowGot) : windowGot[i] = windowGot[j] => i = j

\* The window sees key events in the order they happened, except that an event
\* the first hook's socket refused overtakes those that hooks still hold.
WindowOrder ==
  \A i, j \in 1 .. Len(windowGot) :
    i < j /\ windowGot[i] > windowGot[j] => windowGot[i] \in bypassed

\* Each hook is offered events in the order they happened, also when hooks
\* between it and the first one go.
OfferStep ==
  \A h \in Hooks : offered'[h] # offered[h] => offered'[h] > offered[h]

OffersInOrder == [][OfferStep]_vars

\* No checker outlives its hook: what a removed hook held, or a process that
\* went away, is not kept (hooks_ against the maps of the checkers).
CheckersBelongToHooks ==
  \A h \in HookIds \ Hooks :
    /\ stashEvents_[h] = {}
    /\ dispatchedEventIds_[h] = 0
    /\ pendingDownKeys_[h] = {}
=============================================================================
