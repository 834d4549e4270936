---------------------- MODULE KeyEventHookManager_proofs ----------------------
(***************************************************************************)
(* Proofs about KeyEventHookManager, for any number of processes, hooks    *)
(* and events.  What orders a chain of hooks is an invariant of pairs of   *)
(* them: what a hook still holds is newer than anything a hook behind it   *)
(* was offered (ChainOrder), and newer than what the window got            *)
(* (WindowBehind).  The order of ids is the order of events as long as the *)
(* ids did not start again, which NoWrap assumes.                          *)
(***************************************************************************)
EXTENDS KeyEventHookManager, SequenceTheorems, TLAPS

\* The ids did not start again at 1.
NoWrap == MaxEvents <= MAX_EVENT_ID

\* Event and hook numbers are where they belong.
Bounds ==
  \A h \in HookIds :
    /\ offered[h] \in 0 .. Len(events)
    /\ dispatchedEventIds_[h] \in 0 .. Len(events)
    /\ \A s \in stashEvents_[h] : s.event \in 1 .. offered[h]

\* The id of a new hook is not in use, and all hooks have smaller ones.
NewIds == \A h \in Hooks : h < globalHookId

\* What h still holds is newer than all that a hook behind it was offered.
ChainOrder ==
  \A h, k \in Hooks : k < h =>
    \A s \in stashEvents_[h] :
      dispatchedEventIds_[h] < s.event => offered[k] < s.event

\* What the window got is older than what a hook still holds, or went past it.
WindowBehind ==
  \A i \in 1 .. Len(windowGot) :
    /\ windowGot[i] \in 1 .. Len(events)
    /\ \A h \in Hooks : \A s \in stashEvents_[h] :
         dispatchedEventIds_[h] < s.event =>
           windowGot[i] < s.event \/ windowGot[i] \in bypassed

\* An event that went past the first hook is in no stash.
BypassedIsGone ==
  /\ bypassed \subseteq 1 .. Len(events)
  /\ \A h \in HookIds : \A s \in stashEvents_[h] : s.event \notin bypassed

WindowOnce ==
  \A i, j \in 1 .. Len(windowGot) : windowGot[i] = windowGot[j] => i = j

HInv ==
  /\ TypeOK /\ CheckersBelongToHooks
  /\ Bounds /\ NewIds /\ ChainOrder /\ WindowBehind /\ BypassedIsGone
  /\ WindowOnce /\ WindowOrder
-----------------------------------------------------------------------------
\* Without a wrap the id of an event is its number.
LEMMA IdIsNumber ==
  ASSUME NoWrap, NEW n \in 1 .. MaxEvents
  PROVE  Id(n) = n
<1>1. n - 1 \in 0 .. MAX_EVENT_ID - 1
  BY HookAssumption DEF NoWrap
<1>2. (n - 1) % MAX_EVENT_ID = n - 1
  BY <1>1, HookAssumption
<1> QED
  BY <1>2 DEF Id

\* The check of the order lets through what is newer than the last event.
LEMMA OrderIsByNumber ==
  ASSUME NoWrap, TypeOK, Bounds, NEW h \in HookIds, NEW n \in 1 .. Len(events)
  PROVE  IsInOrder(h, n) <=> dispatchedEventIds_[h] < n
<1>1. n \in 1 .. MaxEvents /\ dispatchedEventIds_[h] \in 0 .. MaxEvents
  BY HookAssumption DEF TypeOK, Bounds
<1>2. Id(n) = n
  BY <1>1, IdIsNumber
<1>3. dispatchedEventIds_[h] # 0 => Id(dispatchedEventIds_[h]) = dispatchedEventIds_[h]
  BY <1>1, IdIsNumber
<1> QED
  BY <1>1, <1>2, <1>3 DEF IsInOrder

\* What a hook may pass on is in its stash, and newer than the last it passed on.
LEMMA MayPassMeansHeld ==
  ASSUME NoWrap, TypeOK, Bounds, NEW h \in HookIds, NEW n \in 1 .. Len(events),
         MayPass(h, n)
  PROVE  /\ \E s \in stashEvents_[h] : s.event = n
         /\ n <= offered[h]
         /\ dispatchedEventIds_[h] < n
<1>1. PICK s \in stashEvents_[h] : s.event = n
  BY DEF MayPass, IsStashed, Fresh
<1>2. n \in 1 .. offered[h]
  BY <1>1 DEF Bounds
<1>3. dispatchedEventIds_[h] < n
  BY OrderIsByNumber DEF MayPass
<1> QED
  BY <1>1, <1>2, <1>3 DEF TypeOK
-----------------------------------------------------------------------------
(* Types.                                                                  *)

LEMMA FreshIsTyped ==
  ASSUME TypeOK, NEW h \in HookIds
  PROVE  Fresh(h) \subseteq stashEvents_[h] /\ Fresh(h) \in SUBSET Stashed
BY DEF TypeOK, Fresh

LEMMA StashIsTyped ==
  ASSUME TypeOK, NEW n \in Nat
  PROVE  [event |-> n, at |-> now] \in Stashed
BY DEF TypeOK, Stashed

LEMMA TypeOKInit == Init => TypeOK
BY HookAssumption DEF Init, TypeOK, HookIds, Event, Stashed

\* A pass leaves the types as they are.
LEMMA TypeOKPass ==
  ASSUME TypeOK, NEW h \in Hooks, NEW n \in 1 .. Len(events), NEW ret \in Results,
         Pass(h, n, ret),
         UNCHANGED <<now, events, connected, globalHookId, hooks_, bypassed, lost>>
  PROVE  TypeOK'
<1> USE DEF Hooks
<1>0. events[n] \in Event
  BY DEF TypeOK
<1>1. events[n] \in Event /\ n \in Nat /\ events[n].key \in Keys
  BY <1>0 DEF TypeOK, Event
<1>2. pendingDownKeys_' \in [HookIds -> SUBSET Keys]
  <2>1. \/ pendingDownKeys_' = pendingDownKeys_
        \/ pendingDownKeys_' =
             [pendingDownKeys_ EXCEPT ![h] = @ \union {events[n].key}]
        \/ pendingDownKeys_' =
             [pendingDownKeys_ EXCEPT ![h] = @ \ {events[n].key}]
    <3>1. CASE Passed(h, n)
      BY <3>1 DEF Passed
    <3> QED
      BY <3>1 DEF Pass, PassToHook, PassToWindow, PassFails, PassSwallowed,
                  PassRefused
  <2>2. pendingDownKeys_ \in [HookIds -> SUBSET Keys] /\ h \in HookIds
    BY DEF TypeOK
  <2> HIDE DEF Hooks
  <2> QED
    BY <1>1, <2>1, <2>2
<1>3. dispatchedEventIds_' \in [HookIds -> Nat]
  BY <1>1 DEF Pass, PassToHook, PassToWindow, PassFails, PassSwallowed,
              PassRefused, Passed, TypeOK
<1>4. windowGot' \in Seq(Nat) /\ refusals' \in Nat
  <2>1. windowGot' = windowGot \/ windowGot' = Append(windowGot, n)
    BY DEF Pass, PassToHook, PassToWindow, PassFails, PassSwallowed,
           PassRefused, Refuse
  <2>2. refusals' = refusals \/ refusals' = refusals + 1
    BY DEF Pass, PassToHook, PassToWindow, PassFails, PassSwallowed,
           PassRefused, Refuse
  <2>3. windowGot \in Seq(Nat) /\ refusals \in Nat
    BY DEF TypeOK
  <2>4. Append(windowGot, n) \in Seq(Nat)
    BY <1>1, <2>3, AppendProperties
  <2>5. windowGot' \in Seq(Nat)
    BY <2>1, <2>3, <2>4
  <2> QED
    BY <2>2, <2>3, <2>5
<1>5. stashEvents_' \in [HookIds -> SUBSET Stashed] /\ offered' \in [HookIds -> Nat]
  <2>1. CASE PassToHook(h, n)
    <3>1. PICK k \in HookIds :
            /\ stashEvents_' = [stashEvents_ EXCEPT
                 ![h] = Fresh(h),
                 ![k] = Fresh(k) \union {[event |-> n, at |-> now]}]
            /\ offered' = [offered EXCEPT ![k] = n]
      BY <2>1 DEF PassToHook
    <3>2. /\ Fresh(h) \in SUBSET Stashed /\ Fresh(k) \in SUBSET Stashed
          /\ [event |-> n, at |-> now] \in Stashed
      BY <1>1, FreshIsTyped, StashIsTyped
    <3> HIDE DEF Hooks
    <3> QED
      BY <1>1, <3>1, <3>2 DEF TypeOK, Hooks
  <2>2. CASE ~PassToHook(h, n)
    <3>1. Purge(h) /\ UNCHANGED offered
      BY <2>2 DEF Pass, PassToWindow, PassFails, PassSwallowed, PassRefused, Refuse
    <3> QED
      BY <3>1, FreshIsTyped DEF TypeOK, Purge
  <2> QED
    BY <2>1, <2>2
<1> QED
  BY <1>2, <1>3, <1>4, <1>5 DEF TypeOK

LEMMA TypeOKStep == TypeOK /\ [Next]_vars => TypeOK'
<1> SUFFICES ASSUME TypeOK, [Next]_vars PROVE TypeOK'
  OBVIOUS
<1>1. CASE Tick
  BY <1>1 DEF Tick, TypeOK, checkers, delivery
<1>2. CASE \E k \in Keys, a \in Actions : HandleKeyEvent(k, a)
  <2>1. PICK k \in Keys, a \in Actions : HandleKeyEvent(k, a)
    BY <1>2
  <2> DEFINE n == Len(events) + 1
  <2>2. /\ n \in Nat /\ Len(events) < MaxEvents
        /\ events' = Append(events, [key |-> k, action |-> a])
        /\ [key |-> k, action |-> a] \in Event
    BY <2>1 DEF HandleKeyEvent, NewEvent, TypeOK, Event
  <2>3. events' \in Seq(Event) /\ Len(events') <= MaxEvents
    BY <2>2, HookAssumption DEF TypeOK
  <2>4. /\ now' = now /\ connected' = connected /\ globalHookId' = globalHookId
        /\ hooks_' = hooks_ /\ dispatchedEventIds_' = dispatchedEventIds_
        /\ pendingDownKeys_' = pendingDownKeys_ /\ lost' = lost
    BY <2>1 DEF HandleKeyEvent, NewEvent
  <2>5. stashEvents_' \in [HookIds -> SUBSET Stashed] /\ offered' \in [HookIds -> Nat]
    <3>1. CASE UNCHANGED <<stashEvents_, offered>>
      BY <3>1 DEF TypeOK
    <3>2. CASE \E h \in Hooks : SendToHook(h, n)
      <4>1. PICK h \in HookIds : SendToHook(h, n)
        BY <3>2 DEF Hooks
      <4> QED
        BY <2>2, <4>1, FreshIsTyped, StashIsTyped DEF TypeOK, SendToHook
    <3> QED
      BY <2>1, <3>1, <3>2 DEF HandleKeyEvent, SendToWindow
  <2>6. windowGot' \in Seq(Nat) /\ bypassed' \subseteq Nat /\ refusals' \in Nat
    <3>1. windowGot' = windowGot \/ windowGot' = Append(windowGot, n)
      BY <2>1 DEF HandleKeyEvent, SendToHook, SendToWindow
    <3>2. bypassed' = bypassed \/ bypassed' = bypassed \union {n}
      BY <2>1 DEF HandleKeyEvent
    <3>3. refusals' = refusals \/ refusals' = refusals + 1
      BY <2>1 DEF HandleKeyEvent, SendToHook, SendToWindow
    <3>4. windowGot \in Seq(Nat) /\ bypassed \subseteq Nat /\ refusals \in Nat
      BY DEF TypeOK
    <3>5. Append(windowGot, n) \in Seq(Nat)
      BY <2>2, <3>4, AppendProperties
    <3>6. windowGot' \in Seq(Nat)
      BY <3>1, <3>4, <3>5
    <3>7. bypassed' \subseteq Nat
      BY <2>2, <3>2, <3>4
    <3>8. refusals' \in Nat
      BY <3>3, <3>4
    <3> QED
      BY <3>6, <3>7, <3>8
  <2> QED
    BY <2>3, <2>4, <2>5, <2>6 DEF TypeOK
<1>3. ASSUME NEW p \in Pids, NEW h \in HookIds, AddKeyEventHook(p, h)
      PROVE  TypeOK'
  BY <1>3 DEF AddKeyEventHook, PrependHook, TypeOK, checkers, delivery, HookIds
<1>4. ASSUME NEW h \in HookIds, DropHook(h)
      PROVE  /\ hooks_' \in [HookIds -> Pids \union {Nobody}]
             /\ stashEvents_' \in [HookIds -> SUBSET Stashed]
             /\ dispatchedEventIds_' \in [HookIds -> Nat]
             /\ pendingDownKeys_' \in [HookIds -> SUBSET Keys]
  BY <1>4 DEF DropHook, TypeOK
<1>5. ASSUME NEW p \in Pids, NEW h \in HookIds, RemoveKeyEventHook(p, h)
      PROVE  TypeOK'
  BY <1>4, <1>5 DEF RemoveKeyEventHook, TypeOK, delivery
<1>6. ASSUME NEW p \in Pids, OnSessionLost(p)
      PROVE  TypeOK'
  <2>1. connected' \subseteq Pids /\ lost' \in Nat
    BY <1>6 DEF OnSessionLost, TypeOK
  <2>2. /\ hooks_' \in [HookIds -> Pids \union {Nobody}]
        /\ stashEvents_' \in [HookIds -> SUBSET Stashed]
        /\ dispatchedEventIds_' \in [HookIds -> Nat]
        /\ pendingDownKeys_' \in [HookIds -> SUBSET Keys]
    <3>1. (\E h \in HookIds : DropHook(h)) \/ UNCHANGED <<hooks_, checkers>>
      BY <1>6 DEF OnSessionLost, HookOf, Hooks
    <3> QED
      BY <1>4, <3>1 DEF TypeOK, checkers
  <2> QED
    BY <1>6, <2>1, <2>2 DEF OnSessionLost, TypeOK, delivery
<1>7. ASSUME NEW p \in Pids, Connect(p)
      PROVE  TypeOK'
  BY <1>7 DEF Connect, TypeOK, checkers, delivery
<1>8. ASSUME NEW p \in Pids, NEW n \in 1 .. MaxEvents, NEW ret \in Results,
             DispatchToNextHandler(p, n, ret)
      PROVE  TypeOK'
  BY <1>8, TypeOKPass DEF DispatchToNextHandler, HookOf
<1>9. CASE UNCHANGED vars
  BY <1>9 DEF TypeOK, vars, checkers, delivery
<1> QED
  BY <1>1, <1>2, <1>3, <1>5, <1>6, <1>7, <1>8, <1>9 DEF Next

\* The state keeps its types: hooks, checkers and what was delivered.
THEOREM TypeCorrect == Spec => []TypeOK
BY TypeOKInit, TypeOKStep, PTL DEF Spec
-----------------------------------------------------------------------------
(* Checkers.                                                               *)

LEMMA CheckersStep ==
  ASSUME TypeOK, CheckersBelongToHooks, [Next]_vars
  PROVE  CheckersBelongToHooks'
<1>1. CASE UNCHANGED <<hooks_, checkers>>
  BY <1>1 DEF CheckersBelongToHooks, Hooks, checkers
<1>2. ASSUME NEW k \in Keys, NEW a \in Actions, HandleKeyEvent(k, a)
      PROVE  CheckersBelongToHooks'
  <2>1. UNCHANGED <<hooks_, dispatchedEventIds_, pendingDownKeys_>>
    BY <1>2 DEF HandleKeyEvent, NewEvent
  <2>2. \A g \in HookIds \ Hooks : stashEvents_'[g] = stashEvents_[g]
    BY <1>2 DEF HandleKeyEvent, SendToHook, SendToWindow, TypeOK
  <2> QED
    BY <2>1, <2>2 DEF CheckersBelongToHooks, Hooks
<1>3. ASSUME NEW p \in Pids, NEW h \in HookIds, AddKeyEventHook(p, h)
      PROVE  CheckersBelongToHooks'
  <2>1. UNCHANGED checkers
    BY <1>3 DEF AddKeyEventHook
  <2>2. \A g \in HookIds : hooks_'[g] = Nobody => hooks_[g] = Nobody
    BY <1>3, HookAssumption DEF AddKeyEventHook, PrependHook, TypeOK
  <2> QED
    BY <2>1, <2>2 DEF CheckersBelongToHooks, Hooks, checkers
<1>4. ASSUME NEW h \in HookIds, DropHook(h)
      PROVE  CheckersBelongToHooks'
  BY <1>4 DEF DropHook, CheckersBelongToHooks, Hooks, TypeOK
<1>5. ASSUME NEW p \in Pids, NEW n \in 1 .. MaxEvents, NEW ret \in Results,
             DispatchToNextHandler(p, n, ret)
      PROVE  CheckersBelongToHooks'
  <2>1. PICK h \in Hooks : Pass(h, n, ret)
    BY <1>5 DEF DispatchToNextHandler, HookOf
  <2>2. UNCHANGED hooks_
    BY <1>5 DEF DispatchToNextHandler
  <2>3. \A g \in HookIds \ Hooks : dispatchedEventIds_'[g] = dispatchedEventIds_[g]
                                  /\ pendingDownKeys_'[g] = pendingDownKeys_[g]
    BY <2>1 DEF Pass, PassToHook, PassToWindow, PassFails, PassSwallowed,
                PassRefused, Passed, TypeOK
  <2>4. \A g \in HookIds \ Hooks : stashEvents_'[g] = stashEvents_[g]
    <3>1. CASE PassToHook(h, n)
      BY <3>1 DEF PassToHook, IsNext, TypeOK
    <3>2. CASE ~PassToHook(h, n)
      BY <2>1, <3>2 DEF Pass, PassToWindow, PassFails, PassSwallowed,
                        PassRefused, Purge, TypeOK
    <3> QED
      BY <3>1, <3>2
  <2> QED
    BY <2>2, <2>3, <2>4 DEF CheckersBelongToHooks, Hooks
<1>6. ASSUME NEW p \in Pids, OnSessionLost(p)
      PROVE  CheckersBelongToHooks'
  BY <1>1, <1>4, <1>6 DEF OnSessionLost, HookOf, Hooks
<1>7. ASSUME NEW p \in Pids, NEW h \in HookIds, RemoveKeyEventHook(p, h)
      PROVE  CheckersBelongToHooks'
  BY <1>4, <1>7 DEF RemoveKeyEventHook
<1>8. CASE Tick \/ UNCHANGED vars \/ \E p \in Pids : Connect(p)
  BY <1>1, <1>8 DEF Tick, Connect, vars
<1> QED
  BY <1>2, <1>3, <1>5, <1>6, <1>7, <1>8 DEF Next

\* No checker outlives its hook: nothing that a hook held, passed on or has
\* down is kept for a process that removed it or whose session was lost.
THEOREM CheckersGoWithHooks == Spec => []CheckersBelongToHooks
<1>1. Init => CheckersBelongToHooks
  BY DEF Init, CheckersBelongToHooks
<1>2. TypeOK /\ CheckersBelongToHooks /\ [Next]_vars => CheckersBelongToHooks'
  BY CheckersStep
<1> QED
  BY <1>1, <1>2, TypeCorrect, PTL DEF Spec
-----------------------------------------------------------------------------
(* The order of events.  Four kinds of steps: nothing is sent; a new event *)
(* is sent; a hook passes one on; a hook is added.                         *)

Order == Bounds /\ NewIds /\ ChainOrder /\ WindowBehind /\ BypassedIsGone
         /\ WindowOnce /\ WindowOrder

\* Nothing is sent: stashes only lose events, hooks only go, and what a hook
\* passed on only grows.
LEMMA NothingSent ==
  ASSUME TypeOK, Order,
         UNCHANGED <<events, windowGot, offered, bypassed, globalHookId>>,
         Hooks' \subseteq Hooks,
         \A h \in HookIds : stashEvents_'[h] \subseteq stashEvents_[h],
         \A h \in HookIds : dispatchedEventIds_'[h] \in 0 .. Len(events),
         \A h \in Hooks' : dispatchedEventIds_[h] <= dispatchedEventIds_'[h]
  PROVE  Order'
<1>1. Bounds'
  BY DEF Order, Bounds
<1>2. NewIds'
  BY DEF Order, NewIds
<1>3. ASSUME NEW h \in Hooks', NEW s \in stashEvents_'[h],
             dispatchedEventIds_'[h] < s.event
      PROVE  h \in Hooks /\ s \in stashEvents_[h] /\ dispatchedEventIds_[h] < s.event
  <2>1. h \in Hooks /\ h \in HookIds /\ s \in stashEvents_[h]
    BY DEF Hooks
  <2>2. s.event \in Nat /\ dispatchedEventIds_[h] \in Nat /\ dispatchedEventIds_'[h] \in Nat
    BY <2>1 DEF TypeOK, Stashed
  <2> QED
    BY <1>3, <2>1, <2>2
<1>4. ChainOrder'
  BY <1>3 DEF Order, ChainOrder
<1>5. WindowBehind'
  BY <1>3 DEF Order, WindowBehind
<1>6. BypassedIsGone'
  BY DEF Order, BypassedIsGone
<1>7. WindowOnce' /\ WindowOrder'
  BY DEF Order, WindowOnce, WindowOrder
<1> QED
  BY <1>1, <1>2, <1>4, <1>5, <1>6, <1>7 DEF Order

\* The elements of a longer sequence.
LEMMA AppendToWindow ==
  ASSUME NEW s \in Seq(Nat), NEW n \in Nat
  PROVE  /\ Len(Append(s, n)) = Len(s) + 1
         /\ \A i \in 1 .. Len(Append(s, n)) :
              \/ i \in 1 .. Len(s) /\ Append(s, n)[i] = s[i]
              \/ i = Len(s) + 1 /\ Append(s, n)[i] = n
<1>1. /\ Len(Append(s, n)) = Len(s) + 1 /\ Append(s, n)[Len(s) + 1] = n
      /\ \A i \in 1 .. Len(s) : Append(s, n)[i] = s[i]
  BY AppendProperties
<1>2. Len(s) \in Nat
  OBVIOUS
<1> QED
  BY <1>1, <1>2

\* A new event goes to the first hook, to the window, or nowhere.
LEMMA EventSent ==
  ASSUME TypeOK, Order, NEW k \in Keys, NEW a \in Actions, HandleKeyEvent(k, a)
  PROVE  Order'
<1> DEFINE n == Len(events) + 1
<1>1. /\ n \in Nat /\ Len(events) \in Nat /\ Len(events') = n
      /\ UNCHANGED <<hooks_, globalHookId, dispatchedEventIds_>> /\ Hooks' = Hooks
  BY DEF HandleKeyEvent, NewEvent, TypeOK, Hooks
<1>2. /\ \A i \in 1 .. Len(windowGot) : windowGot[i] \in 1 .. Len(events)
      /\ windowGot \in Seq(Nat) /\ Len(windowGot) \in Nat
  BY DEF Order, WindowBehind, TypeOK
<1>3. \A h \in HookIds : /\ offered[h] \in 0 .. Len(events)
                         /\ dispatchedEventIds_[h] \in 0 .. Len(events)
                         /\ \A s \in stashEvents_[h] : s.event \in 1 .. Len(events)
  BY <1>1 DEF Order, Bounds
<1>4. CASE \E h \in Hooks : SendToHook(h, n)
  <2>1. PICK h \in Hooks : IsFirst(h) /\ SendToHook(h, n)
    <3>1. \A h \in Hooks : SendToHook(h, n) => offered' # offered
      BY <1>1, <1>3 DEF SendToHook, TypeOK, Hooks
    <3>2. ~(\E h \in Hooks : IsFirst(h) /\ SendToHook(h, n)) => UNCHANGED offered
      BY DEF HandleKeyEvent, SendToWindow
    <3> QED
      BY <1>4, <3>1, <3>2
  <2>2. UNCHANGED <<windowGot, bypassed>>
    <3>1. offered' # offered
      BY <1>1, <1>3, <2>1 DEF SendToHook, TypeOK, Hooks
    <3> QED
      BY <3>1 DEF HandleKeyEvent, SendToHook, SendToWindow
  <2>3. h \in HookIds /\ \A g \in Hooks : g <= h
    BY <2>1 DEF IsFirst, Hooks
  <2>4. /\ offered' = [offered EXCEPT ![h] = n]
        /\ stashEvents_'[h] \subseteq stashEvents_[h] \union {[event |-> n, at |-> now]}
        /\ \A g \in HookIds : g # h => stashEvents_'[g] = stashEvents_[g]
    BY <2>1, <2>3 DEF SendToHook, Fresh, TypeOK
  <2>5. \A g \in HookIds : \A s \in stashEvents_'[g] :
          s \in stashEvents_[g] \/ (g = h /\ s.event = n)
    <3>1. [event |-> n, at |-> now].event = n
      OBVIOUS
    <3> QED
      BY <2>3, <2>4, <3>1
  <2>6. \A g \in HookIds : offered'[g] = IF g = h THEN n ELSE offered[g]
    BY <2>3, <2>4 DEF TypeOK
  <2>7. Bounds'
    <3> SUFFICES ASSUME NEW g \in HookIds
                 PROVE  /\ offered'[g] \in 0 .. n
                        /\ dispatchedEventIds_[g] \in 0 .. n
                        /\ \A s \in stashEvents_'[g] : s.event \in 1 .. offered'[g]
      BY <1>1 DEF Bounds
    <3>1. \A s \in stashEvents_[g] : s.event \in 1 .. offered[g]
      BY DEF Order, Bounds
    <3> QED
      BY <1>1, <1>3, <2>5, <2>6, <3>1
  <2>8. ChainOrder'
    <3> SUFFICES ASSUME NEW f \in Hooks, NEW g \in Hooks, g < f,
                        NEW s \in stashEvents_'[f],
                        dispatchedEventIds_[f] < s.event
                 PROVE  offered'[g] < s.event
      BY <1>1 DEF ChainOrder
    <3>1. f \in HookIds /\ g \in HookIds /\ f \in Int /\ g \in Int /\ h \in Int
      BY <2>3 DEF Hooks, HookIds
    <3>2. g # h
      BY <2>3, <3>1
    <3>3. CASE s \in stashEvents_[f]
      BY <2>6, <3>1, <3>2, <3>3 DEF Order, ChainOrder
    <3>4. CASE s.event = n
      BY <1>1, <1>3, <2>6, <3>1, <3>2, <3>4
    <3> QED
      BY <2>5, <3>1, <3>3, <3>4
  <2>9. WindowBehind'
    <3> SUFFICES ASSUME NEW i \in 1 .. Len(windowGot)
                 PROVE  /\ windowGot[i] \in 1 .. n
                        /\ \A g \in Hooks : \A s \in stashEvents_'[g] :
                             dispatchedEventIds_[g] < s.event =>
                               windowGot[i] < s.event \/ windowGot[i] \in bypassed
      BY <1>1, <2>2 DEF WindowBehind
    <3>1. windowGot[i] \in 1 .. n /\ windowGot[i] < n
      BY <1>1, <1>2
    <3> QED
      BY <2>5, <3>1 DEF Order, WindowBehind, Hooks
  <2>10. BypassedIsGone'
    <3>1. bypassed \subseteq 1 .. Len(events)
      BY DEF Order, BypassedIsGone
    <3>2. bypassed \subseteq 1 .. n /\ n \notin bypassed
      BY <1>1, <3>1
    <3> QED
      BY <1>1, <2>2, <2>5, <3>2 DEF Order, BypassedIsGone
  <2> QED
    BY <1>1, <2>2, <2>7, <2>8, <2>9, <2>10 DEF Order, NewIds, WindowOnce, WindowOrder
<1>5. CASE ~\E h \in Hooks : SendToHook(h, n)
  <2>1. /\ UNCHANGED <<stashEvents_, offered>>
        /\ windowGot' = windowGot \/ windowGot' = Append(windowGot, n)
        /\ \/ bypassed' = bypassed /\ Hooks = {}
           \/ bypassed' = bypassed \union {n}
    BY <1>5 DEF HandleKeyEvent, SendToWindow
  <2>2. Bounds'
    <3>1. \A h \in HookIds : \A s \in stashEvents_[h] : s.event \in 1 .. offered[h]
      BY DEF Order, Bounds
    <3> QED
      BY <1>1, <1>3, <2>1, <3>1 DEF Bounds
  <2>3. NewIds' /\ ChainOrder'
    BY <1>1, <2>1 DEF Order, NewIds, ChainOrder
  <2>4. BypassedIsGone'
    <3>1. bypassed \subseteq 1 .. Len(events)
      BY DEF Order, BypassedIsGone
    <3>2. bypassed' \subseteq 1 .. n
      <4> SUFFICES ASSUME NEW x \in bypassed' PROVE x \in 1 .. n
        OBVIOUS
      <4>1. x \in bypassed \/ x = n
        BY <2>1
      <4>2. x \in 1 .. Len(events) \/ x = n
        BY <3>1, <4>1
      <4>3. n \in Nat /\ Len(events) \in Nat
        BY <1>1
      <4> QED
        BY <4>2, <4>3
    <3>3. \A h \in HookIds : \A s \in stashEvents_[h] : s.event \notin bypassed /\ s.event # n
      BY <1>1, <1>3 DEF Order, BypassedIsGone
    <3> QED
      BY <1>1, <2>1, <3>2, <3>3 DEF BypassedIsGone
  <2>5. /\ Len(windowGot') \in {Len(windowGot), Len(windowGot) + 1}
        /\ \A i \in 1 .. Len(windowGot') :
             \/ i \in 1 .. Len(windowGot) /\ windowGot'[i] = windowGot[i]
             \/ i = Len(windowGot) + 1 /\ windowGot'[i] = n
    <3>1. CASE windowGot' = windowGot
      BY <1>2, <3>1
    <3>2. CASE windowGot' = Append(windowGot, n)
      BY <1>1, <1>2, <3>2, AppendToWindow
    <3> QED
      BY <2>1, <3>1, <3>2
  <2>6. WindowBehind'
    <3>1. \A i \in 1 .. Len(windowGot') : windowGot'[i] \in 1 .. n
      <4>1. \A i \in 1 .. Len(windowGot) : windowGot[i] \in 1 .. n
        BY <1>1, <1>2
      <4>2. n \in 1 .. n
        BY <1>1
      <4> QED
        BY <2>5, <4>1, <4>2
    <3>2. CASE Hooks = {}
      BY <1>1, <3>1, <3>2 DEF WindowBehind
    <3>3. CASE bypassed' = bypassed \union {n}
      BY <1>1, <2>1, <2>5, <3>1, <3>3 DEF Order, WindowBehind
    <3> QED
      BY <2>1, <3>2, <3>3
  <2>7. WindowOnce' /\ WindowOrder'
    <3> SUFFICES ASSUME NEW i \in 1 .. Len(windowGot'), NEW j \in 1 .. Len(windowGot')
                 PROVE  /\ windowGot'[i] = windowGot'[j] => i = j
                        /\ i < j /\ windowGot'[i] > windowGot'[j] =>
                             windowGot'[i] \in bypassed'
      BY DEF WindowOnce, WindowOrder
    <3>1. CASE i \in 1 .. Len(windowGot) /\ j \in 1 .. Len(windowGot)
      <4>1. i # Len(windowGot) + 1 /\ j # Len(windowGot) + 1
        BY <1>2, <3>1
      <4>2. windowGot'[i] = windowGot[i] /\ windowGot'[j] = windowGot[j]
        BY <2>5, <4>1
      <4>3. bypassed \subseteq bypassed'
        BY <2>1
      <4>4. /\ windowGot[i] = windowGot[j] => i = j
            /\ i < j /\ windowGot[i] > windowGot[j] => windowGot[i] \in bypassed
        BY <3>1 DEF Order, WindowOnce, WindowOrder
      <4> QED
        BY <4>2, <4>3, <4>4
    <3>2. CASE i = Len(windowGot) + 1 \/ j = Len(windowGot) + 1
      <4>1. \A m \in 1 .. Len(windowGot') :
              \/ m \in 1 .. Len(windowGot) /\ windowGot'[m] \in 1 .. Len(events)
              \/ m = Len(windowGot) + 1 /\ windowGot'[m] = n
        BY <1>2, <2>5
      <4>2. CASE i = j
        BY <1>1, <1>2, <4>1, <4>2
      <4>3. CASE i # j /\ i = Len(windowGot) + 1
        <5>1. j \in 1 .. Len(windowGot) /\ windowGot'[j] \in 1 .. Len(events)
          BY <4>1, <4>3
        <5>2. ~(i < j) /\ windowGot'[i] = n
          BY <1>2, <4>1, <4>3, <5>1
        <5> QED
          BY <1>1, <5>1, <5>2
      <4>4. CASE i # j /\ j = Len(windowGot) + 1
        <5>1. windowGot'[i] \in 1 .. Len(events) /\ windowGot'[j] = n
          BY <1>2, <4>1, <4>4
        <5> QED
          BY <1>1, <5>1
      <4> QED
        BY <3>2, <4>2, <4>3, <4>4
    <3> QED
      BY <2>5, <3>1, <3>2
  <2> QED
    BY <2>2, <2>3, <2>4, <2>6, <2>7 DEF Order
<1> QED
  BY <1>4, <1>5

\* A hook passes an event on to the next one.
LEMMA PassedToHook ==
  ASSUME NoWrap, TypeOK, Order, NEW h \in Hooks, NEW n \in 1 .. Len(events),
         PassToHook(h, n), UNCHANGED <<events, globalHookId, hooks_, bypassed>>
  PROVE  Order'
<1>1. h \in HookIds /\ MayPass(h, n)
  BY DEF PassToHook, Passed, Hooks
<1>2. PICK k \in Hooks :
        /\ IsNext(h, k)
        /\ stashEvents_' = [stashEvents_ EXCEPT
             ![h] = Fresh(h),
             ![k] = Fresh(k) \union {[event |-> n, at |-> now]}]
        /\ offered' = [offered EXCEPT ![k] = n]
  BY DEF PassToHook
<1>3. /\ n <= offered[h] /\ dispatchedEventIds_[h] < n
      /\ \E s \in stashEvents_[h] : s.event = n
  BY <1>1, MayPassMeansHeld DEF Order
<1>4. /\ k \in HookIds /\ k < h /\ k # h /\ h \in Int /\ k \in Int
      /\ \A j \in Hooks : j < h => j <= k
  BY <1>1, <1>2 DEF IsNext, Hooks, HookIds
<1>5. /\ n \in Nat /\ Len(events) \in Nat
      /\ \A g \in HookIds : /\ offered[g] \in 0 .. Len(events)
                            /\ dispatchedEventIds_[g] \in 0 .. Len(events)
                            /\ \A s \in stashEvents_[g] : s.event \in 1 .. offered[g]
  BY DEF Order, Bounds, TypeOK
<1>6. /\ Hooks' = Hooks /\ UNCHANGED windowGot
      /\ \A g \in HookIds : offered'[g] = IF g = k THEN n ELSE offered[g]
      /\ \A g \in HookIds :
           dispatchedEventIds_'[g] = IF g = h THEN n ELSE dispatchedEventIds_[g]
  BY <1>1, <1>2, <1>4 DEF PassToHook, Passed, TypeOK, Hooks
<1>7. \A g \in HookIds : \A s \in stashEvents_'[g] :
        s \in stashEvents_[g] \/ (g = k /\ s.event = n)
  <2>1. [event |-> n, at |-> now].event = n
    OBVIOUS
  <2> QED
    BY <1>1, <1>2, <1>4, <2>1 DEF Fresh, TypeOK
<1>8. offered[k] < n
  BY <1>1, <1>2, <1>3, <1>4 DEF Order, ChainOrder
<1>9. Bounds'
  <2> SUFFICES ASSUME NEW g \in HookIds
               PROVE  /\ offered'[g] \in 0 .. Len(events)
                      /\ dispatchedEventIds_'[g] \in 0 .. Len(events)
                      /\ \A s \in stashEvents_'[g] : s.event \in 1 .. offered'[g]
    BY DEF Bounds
  <2> QED
    BY <1>5, <1>6, <1>7, <1>8
<1>10. ChainOrder'
  <2> SUFFICES ASSUME NEW f \in Hooks, NEW g \in Hooks, g < f,
                      NEW s \in stashEvents_'[f], dispatchedEventIds_'[f] < s.event
               PROVE  offered'[g] < s.event
    BY <1>6 DEF ChainOrder
  <2>1. f \in HookIds /\ g \in HookIds /\ f \in Int /\ g \in Int
    BY DEF Hooks, HookIds
  <2>2. s.event \in Int /\ dispatchedEventIds_[f] < s.event
    BY <1>3, <1>5, <1>6, <1>7, <2>1
  <2>3. CASE s \notin stashEvents_[f]
    <3>1. f = k /\ s.event = n
      BY <1>7, <2>1, <2>3
    <3>2. offered[g] < n
      BY <1>3, <1>4, <2>1, <3>1 DEF Order, ChainOrder
    <3> QED
      BY <1>4, <1>6, <2>1, <3>1, <3>2
  <2>4. CASE s \in stashEvents_[f]
    <3>1. offered[g] < s.event
      BY <2>2, <2>4 DEF Order, ChainOrder
    <3>2. CASE g # k
      BY <1>6, <2>1, <3>1, <3>2
    <3>3. CASE g = k
      <4>1. f >= h
        BY <1>4, <2>1, <3>3
      <4>2. CASE f = h
        BY <1>1, <1>6, <2>1, <3>3, <4>2
      <4>3. CASE f > h
        <5>1. offered[h] < s.event
          BY <1>1, <2>1, <2>2, <2>4, <4>3 DEF Order, ChainOrder
        <5> QED
          BY <1>1, <1>3, <1>5, <1>6, <2>1, <2>2, <3>3, <5>1
      <4> QED
        BY <1>4, <2>1, <4>1, <4>2, <4>3
    <3> QED
      BY <3>2, <3>3
  <2> QED
    BY <2>3, <2>4
<1>11. n \notin bypassed
  BY <1>1, <1>3 DEF Order, BypassedIsGone
<1>12. WindowBehind'
  <2> SUFFICES ASSUME NEW i \in 1 .. Len(windowGot), NEW g \in Hooks,
                      NEW s \in stashEvents_'[g], dispatchedEventIds_'[g] < s.event
               PROVE  windowGot[i] < s.event \/ windowGot[i] \in bypassed
    BY <1>6 DEF Order, WindowBehind
  <2>1. g \in HookIds
    BY DEF Hooks
  <2>2. CASE s \in stashEvents_[g]
    BY <1>3, <1>5, <1>6, <2>1, <2>2 DEF Order, WindowBehind
  <2>3. CASE s.event = n
    BY <1>3, <2>3 DEF Order, WindowBehind
  <2> QED
    BY <1>7, <2>1, <2>2, <2>3
<1>13. BypassedIsGone'
  BY <1>7, <1>11 DEF Order, BypassedIsGone
<1> QED
  BY <1>6, <1>9, <1>10, <1>12, <1>13 DEF Order, NewIds, WindowOnce, WindowOrder

\* The last hook passes an event on to the window.
LEMMA PassedToWindow ==
  ASSUME NoWrap, TypeOK, Order, NEW h \in Hooks, NEW n \in 1 .. Len(events),
         PassToWindow(h, n), UNCHANGED <<events, globalHookId, hooks_, bypassed>>
  PROVE  Order'
<1>1. /\ h \in HookIds /\ MayPass(h, n) /\ h \in Int
      /\ \A g \in Hooks : h <= g
  BY DEF PassToWindow, Passed, Hooks, HookIds, IsLast
<1>2. /\ n <= offered[h] /\ dispatchedEventIds_[h] < n
      /\ \E s \in stashEvents_[h] : s.event = n
  BY <1>1, MayPassMeansHeld DEF Order
<1>3. /\ n \in Nat /\ Len(events) \in Nat
      /\ \A g \in HookIds : /\ offered[g] \in 0 .. Len(events)
                            /\ dispatchedEventIds_[g] \in 0 .. Len(events)
                            /\ \A s \in stashEvents_[g] : s.event \in 1 .. offered[g]
  BY DEF Order, Bounds, TypeOK
<1>4. /\ Hooks' = Hooks /\ UNCHANGED offered
      /\ \A g \in HookIds :
           dispatchedEventIds_'[g] = IF g = h THEN n ELSE dispatchedEventIds_[g]
      /\ \A g \in HookIds : stashEvents_'[g] \subseteq stashEvents_[g]
  BY <1>1 DEF PassToWindow, Passed, Purge, Fresh, TypeOK, Hooks
<1>5. n \notin bypassed
  BY <1>1, <1>2 DEF Order, BypassedIsGone
<1>6. \A i \in 1 .. Len(windowGot) : /\ windowGot[i] \in 1 .. Len(events)
                                     /\ windowGot[i] < n \/ windowGot[i] \in bypassed
  BY <1>2 DEF Order, WindowBehind
<1>7. /\ Len(windowGot) \in Nat /\ Len(windowGot') = Len(windowGot) + 1
      /\ \A i \in 1 .. Len(windowGot') :
           \/ i \in 1 .. Len(windowGot) /\ windowGot'[i] = windowGot[i]
           \/ i = Len(windowGot) + 1 /\ windowGot'[i] = n
  <2>1. windowGot \in Seq(Nat) /\ windowGot' = Append(windowGot, n)
    BY DEF TypeOK, PassToWindow
  <2> QED
    BY <1>3, <2>1, AppendToWindow
<1>8. \A g \in HookIds : dispatchedEventIds_'[g] \in 0 .. Len(events)
                         /\ dispatchedEventIds_[g] <= dispatchedEventIds_'[g]
  BY <1>2, <1>3, <1>4
<1>9. Bounds'
  BY <1>3, <1>4, <1>8 DEF Bounds
<1>10. \A g \in Hooks : \A s \in stashEvents_'[g] : dispatchedEventIds_'[g] < s.event =>
         s \in stashEvents_[g] /\ dispatchedEventIds_[g] < s.event /\ n < s.event
  <2> SUFFICES ASSUME NEW g \in Hooks, NEW s \in stashEvents_'[g],
                      dispatchedEventIds_'[g] < s.event
               PROVE  s \in stashEvents_[g] /\ dispatchedEventIds_[g] < s.event
                      /\ n < s.event
    OBVIOUS
  <2>1. g \in HookIds /\ g \in Int /\ s \in stashEvents_[g] /\ s.event \in Nat
    BY <1>3, <1>4 DEF Hooks, HookIds
  <2>2. dispatchedEventIds_[g] < s.event
    BY <1>3, <1>8, <2>1
  <2>3. CASE g = h
    BY <1>4, <2>1, <2>2, <2>3
  <2>4. CASE g # h
    <3>1. offered[h] < s.event
      BY <1>1, <2>1, <2>2, <2>4 DEF Order, ChainOrder
    <3> QED
      BY <1>1, <1>2, <1>3, <2>1, <2>2, <3>1
  <2> QED
    BY <2>3, <2>4
<1>11. ChainOrder'
  BY <1>4, <1>10 DEF Order, ChainOrder
<1>12. WindowBehind'
  <2> SUFFICES ASSUME NEW i \in 1 .. Len(windowGot')
               PROVE  /\ windowGot'[i] \in 1 .. Len(events)
                      /\ \A g \in Hooks : \A s \in stashEvents_'[g] :
                           dispatchedEventIds_'[g] < s.event =>
                             windowGot'[i] < s.event \/ windowGot'[i] \in bypassed
    BY <1>4 DEF WindowBehind
  <2>1. CASE i \in 1 .. Len(windowGot) /\ windowGot'[i] = windowGot[i]
    BY <1>10, <2>1 DEF Order, WindowBehind
  <2>2. CASE windowGot'[i] = n
    BY <1>10, <2>2
  <2> QED
    BY <1>7, <2>1, <2>2
<1>13. BypassedIsGone'
  BY <1>4 DEF Order, BypassedIsGone
<1>14. WindowOnce' /\ WindowOrder'
  <2> SUFFICES ASSUME NEW i \in 1 .. Len(windowGot'), NEW j \in 1 .. Len(windowGot')
               PROVE  /\ windowGot'[i] = windowGot'[j] => i = j
                      /\ i < j /\ windowGot'[i] > windowGot'[j] =>
                           windowGot'[i] \in bypassed
    BY DEF WindowOnce, WindowOrder
  <2>1. CASE i \in 1 .. Len(windowGot) /\ j \in 1 .. Len(windowGot)
    BY <1>7, <2>1 DEF Order, WindowOnce, WindowOrder
  <2>2. CASE i = Len(windowGot) + 1 \/ j = Len(windowGot) + 1
    BY <1>3, <1>5, <1>6, <1>7, <2>2
  <2> QED
    BY <1>7, <2>1, <2>2
<1> QED
  BY <1>4, <1>9, <1>11, <1>12, <1>13, <1>14 DEF Order, NewIds

\* A new hook has an empty stash, and no hook in front of it.
LEMMA HookAdded ==
  ASSUME TypeOK, CheckersBelongToHooks, Order,
         NEW p \in Pids, NEW h \in HookIds, AddKeyEventHook(p, h)
  PROVE  Order'
<1>1. /\ h = globalHookId /\ globalHookId' = h + 1 /\ h \in Int
      /\ UNCHANGED <<events, stashEvents_, dispatchedEventIds_, windowGot, offered,
                     bypassed>>
  BY DEF AddKeyEventHook, PrependHook, checkers, delivery, HookIds
<1>2. Hooks' \subseteq Hooks \union {h}
  BY DEF AddKeyEventHook, PrependHook, Hooks, TypeOK
<1>3. h \notin Hooks
  BY <1>1 DEF Order, NewIds
<1>4. stashEvents_[h] = {}
  BY <1>3 DEF CheckersBelongToHooks
<1>5. \A g \in Hooks : g < h /\ g \in Int
  BY <1>1 DEF Order, NewIds, Hooks, HookIds
<1>6. NewIds'
  BY <1>1, <1>2, <1>5 DEF NewIds
<1>7. ChainOrder'
  <2> SUFFICES ASSUME NEW f \in Hooks', NEW g \in Hooks', g < f,
                      NEW s \in stashEvents_[f], dispatchedEventIds_[f] < s.event
               PROVE  offered[g] < s.event
    BY <1>1 DEF ChainOrder
  <2>1. f \in Hooks
    BY <1>2, <1>4
  <2>2. g \in Hooks
    BY <1>1, <1>2, <1>5, <2>1
  <2> QED
    BY <2>1, <2>2 DEF Order, ChainOrder
<1>8. WindowBehind'
  <2> SUFFICES ASSUME NEW i \in 1 .. Len(windowGot), NEW g \in Hooks',
                      NEW s \in stashEvents_[g], dispatchedEventIds_[g] < s.event
               PROVE  windowGot[i] < s.event \/ windowGot[i] \in bypassed
    BY <1>1 DEF Order, WindowBehind
  <2>1. g \in Hooks
    BY <1>2, <1>4
  <2> QED
    BY <2>1 DEF Order, WindowBehind
<1> QED
  BY <1>1, <1>6, <1>7, <1>8 DEF Order, Bounds, BypassedIsGone, WindowOnce, WindowOrder

LEMMA OrderInit == Init => Order
BY HookAssumption DEF Init, Order, Bounds, NewIds, ChainOrder, WindowBehind, BypassedIsGone,
   WindowOnce, WindowOrder, Hooks, HookIds

LEMMA OrderStep ==
  ASSUME NoWrap, TypeOK, CheckersBelongToHooks, Order, [Next]_vars
  PROVE  Order'
<1>1. CASE UNCHANGED <<events, globalHookId, hooks_, checkers, delivery>>
  <2>1. \A h \in HookIds : dispatchedEventIds_[h] \in 0 .. Len(events)
                          /\ dispatchedEventIds_[h] \in Nat
    BY DEF Order, Bounds, TypeOK
  <2> QED
    BY <1>1, <2>1, NothingSent DEF checkers, delivery, Hooks
<1>2. ASSUME NEW h \in HookIds, DropHook(h),
             UNCHANGED <<events, windowGot, offered, bypassed, globalHookId>>
      PROVE  Order'
  <2>1. Hooks' \subseteq Hooks \ {h}
    BY <1>2 DEF DropHook, Hooks, TypeOK
  <2>2. \A g \in HookIds : stashEvents_'[g] \subseteq stashEvents_[g]
    BY <1>2 DEF DropHook, TypeOK
  <2>3. \A g \in HookIds : dispatchedEventIds_'[g] \in {0, dispatchedEventIds_[g]}
                          /\ (g # h => dispatchedEventIds_'[g] = dispatchedEventIds_[g])
    BY <1>2 DEF DropHook, TypeOK
  <2>4. \A g \in HookIds : dispatchedEventIds_[g] \in 0 .. Len(events)
    BY DEF Order, Bounds
  <2>5. \A g \in HookIds : dispatchedEventIds_'[g] \in 0 .. Len(events)
    <3>1. Len(events) \in Nat
      BY DEF TypeOK
    <3> QED
      BY <2>3, <2>4, <3>1
  <2>6. \A g \in Hooks' : dispatchedEventIds_[g] <= dispatchedEventIds_'[g]
    BY <2>1, <2>3, <2>4 DEF Hooks
  <2> QED
    BY <1>2, <2>1, <2>2, <2>5, <2>6, NothingSent
<1>3. ASSUME NEW k \in Keys, NEW a \in Actions, HandleKeyEvent(k, a)
      PROVE  Order'
  BY <1>3, EventSent
<1>4. ASSUME NEW p \in Pids, NEW h \in HookIds, AddKeyEventHook(p, h)
      PROVE  Order'
  BY <1>4, HookAdded
<1>5. ASSUME NEW p \in Pids, NEW h \in HookIds, RemoveKeyEventHook(p, h)
      PROVE  Order'
  BY <1>2, <1>5 DEF RemoveKeyEventHook, delivery
<1>6. ASSUME NEW p \in Pids, OnSessionLost(p)
      PROVE  Order'
  BY <1>1, <1>2, <1>6 DEF OnSessionLost, delivery, HookOf, Hooks
<1>7. ASSUME NEW p \in Pids, NEW n \in 1 .. MaxEvents, NEW ret \in Results,
             DispatchToNextHandler(p, n, ret)
      PROVE  Order'
  <2>1. n \in 1 .. Len(events)
        /\ UNCHANGED <<events, globalHookId, hooks_, bypassed>>
    BY <1>7 DEF DispatchToNextHandler
  <2>2. PICK h \in Hooks : Pass(h, n, ret)
    BY <1>7 DEF DispatchToNextHandler, HookOf
  <2>3. h \in HookIds /\ Hooks' = Hooks
    BY <2>1 DEF Hooks
  <2>4. CASE PassToHook(h, n)
    BY <2>1, <2>4, PassedToHook
  <2>5. CASE PassToWindow(h, n)
    BY <2>1, <2>5, PassedToWindow
  <2>6. CASE PassFails(h, n) \/ PassSwallowed(h, n) \/ PassRefused(h, n)
    <3>1. UNCHANGED <<windowGot, offered>> /\ Purge(h)
      BY <2>6 DEF PassFails, PassSwallowed, PassRefused, Refuse
    <3>2. \A g \in HookIds : stashEvents_'[g] \subseteq stashEvents_[g]
      BY <2>3, <3>1 DEF Purge, Fresh, TypeOK
    <3>3. \A g \in HookIds : dispatchedEventIds_[g] \in 0 .. Len(events)
      BY DEF Order, Bounds
    <3>4. \/ UNCHANGED dispatchedEventIds_
          \/ /\ dispatchedEventIds_' = [dispatchedEventIds_ EXCEPT ![h] = n]
             /\ dispatchedEventIds_[h] < n
      <4>1. CASE PassFails(h, n)
        <5>1. MayPass(h, n) /\ dispatchedEventIds_' = [dispatchedEventIds_ EXCEPT ![h] = n]
          BY <4>1 DEF PassFails, Passed
        <5> QED
          BY <2>1, <2>3, <5>1, MayPassMeansHeld DEF Order
      <4> QED
        BY <2>6, <4>1 DEF PassSwallowed, PassRefused
    <3>5. \A g \in HookIds : dispatchedEventIds_'[g] \in 0 .. Len(events)
                            /\ dispatchedEventIds_[g] <= dispatchedEventIds_'[g]
      <4>1. Len(events) \in Nat
        BY DEF TypeOK
      <4>2. \A g \in HookIds :
              dispatchedEventIds_'[g] = IF g = h /\ dispatchedEventIds_[h] < n
                                        THEN dispatchedEventIds_'[h]
                                        ELSE dispatchedEventIds_[g]
        BY <3>4 DEF TypeOK
      <4>3. \/ dispatchedEventIds_'[h] = dispatchedEventIds_[h]
            \/ dispatchedEventIds_'[h] = n /\ dispatchedEventIds_[h] < n
        BY <2>3, <3>4 DEF TypeOK
      <4> QED
        BY <2>1, <2>3, <3>3, <4>1, <4>2, <4>3
    <3> QED
      BY <2>1, <2>3, <3>1, <3>2, <3>5, NothingSent DEF Hooks
  <2> QED
    BY <2>2, <2>4, <2>5, <2>6 DEF Pass
<1>8. CASE Tick \/ UNCHANGED vars \/ \E p \in Pids : Connect(p)
  BY <1>1, <1>8 DEF Tick, Connect, vars
<1> QED
  BY <1>3, <1>4, <1>5, <1>6, <1>7, <1>8 DEF Next

LEMMA OrderAlways ==
  ASSUME NoWrap
  PROVE  Spec => []Order
<1>1. TypeOK /\ CheckersBelongToHooks /\ Order /\ [Next]_vars => Order'
  BY OrderStep
<1> QED
  BY <1>1, OrderInit, TypeCorrect, CheckersGoWithHooks, PTL DEF Spec
-----------------------------------------------------------------------------
(* What follows.                                                           *)

\* The window sees key events in the order they happened, whatever the hooks
\* do, but for those that went past a hook whose socket refused them.
THEOREM WindowInOrder ==
  ASSUME NoWrap
  PROVE  Spec => []WindowOrder
BY OrderAlways, PTL DEF Order

\* Two hooks cannot both pass an event on, and none can once the window has it:
\* no key is typed twice.
THEOREM EventsGoOneWay ==
  ASSUME NoWrap
  PROVE  Spec => []OneWay
<1>1. ASSUME TypeOK, Order PROVE OneWay
  <2> USE <1>1
  <2>1. \A h \in Hooks, n \in 1 .. Len(events) :
          Holds(h, n) => dispatchedEventIds_[h] < n /\ n <= offered[h]
                         /\ \E s \in stashEvents_[h] : s.event = n
    <3> SUFFICES ASSUME NEW h \in Hooks, NEW n \in 1 .. Len(events), Holds(h, n)
                 PROVE  dispatchedEventIds_[h] < n /\ n <= offered[h]
                        /\ \E s \in stashEvents_[h] : s.event = n
      OBVIOUS
    <3>1. PICK s \in stashEvents_[h] : s.event = n
      BY DEF Holds
    <3>2. h \in HookIds /\ n \in 1 .. offered[h]
      BY <3>1 DEF Order, Bounds, Hooks
    <3>3. dispatchedEventIds_[h] < n
      BY <3>2, OrderIsByNumber DEF Holds, Order
    <3> QED
      BY <3>1, <3>2, <3>3 DEF TypeOK
  <2>2. ASSUME NEW n \in 1 .. Len(events), NEW h \in Hooks, NEW k \in Hooks,
               Holds(h, n), Holds(k, n), k < h
        PROVE  FALSE
    <3>1. offered[k] < n /\ n <= offered[k]
      BY <2>1, <2>2 DEF Order, ChainOrder
    <3>2. offered[k] \in Nat /\ n \in Nat
      BY DEF TypeOK, Hooks
    <3> QED
      BY <3>1, <3>2
  <2>3. \A h \in Hooks : h \in Int
    BY DEF Hooks, HookIds
  <2>4. \A n \in 1 .. Len(events), h, k \in Hooks :
          Holds(h, n) /\ Holds(k, n) => h = k
    <3> SUFFICES ASSUME NEW n \in 1 .. Len(events), NEW h \in Hooks, NEW k \in Hooks,
                        Holds(h, n), Holds(k, n), h # k
                 PROVE  FALSE
      OBVIOUS
    <3>1. k < h \/ h < k
      BY <2>3
    <3> QED
      BY <2>2, <3>1
  <2>5. ASSUME NEW i \in 1 .. Len(windowGot), NEW h \in Hooks, Holds(h, windowGot[i])
        PROVE  FALSE
    <3>1. windowGot[i] \in 1 .. Len(events)
      BY DEF Order, WindowBehind
    <3>2. PICK s \in stashEvents_[h] : s.event = windowGot[i]
      BY <2>5 DEF Holds
    <3>3. dispatchedEventIds_[h] < windowGot[i]
      BY <2>1, <2>5, <3>1
    <3>4. windowGot[i] < windowGot[i] \/ windowGot[i] \in bypassed
      BY <3>2, <3>3 DEF Order, WindowBehind
    <3>5. windowGot[i] \notin bypassed
      BY <3>2 DEF Order, BypassedIsGone, Hooks
    <3> QED
      BY <3>1, <3>4, <3>5
  <2> QED
    BY <2>4, <2>5 DEF OneWay, Order, WindowOnce
<1> QED
  BY <1>1, OrderAlways, TypeCorrect, PTL

\* Every hook is offered events in the order they happened.
THEOREM HooksSeeEventsInOrder ==
  ASSUME NoWrap
  PROVE  Spec => OffersInOrder
<1>1. ASSUME TypeOK, Order, [Next]_vars PROVE OfferStep
  <2> USE <1>1
  <2> SUFFICES ASSUME NEW h \in Hooks, offered'[h] # offered[h]
               PROVE  offered'[h] > offered[h]
    BY DEF OfferStep
  <2>1. h \in HookIds /\ offered[h] \in 0 .. Len(events) /\ Len(events) \in Nat
    BY DEF Order, Bounds, TypeOK, Hooks
  <2>2. CASE \E k \in Keys, a \in Actions : HandleKeyEvent(k, a)
    <3>1. \E g \in Hooks : offered' = [offered EXCEPT ![g] = Len(events) + 1]
      BY <2>2 DEF HandleKeyEvent, SendToHook, SendToWindow
    <3> QED
      BY <2>1, <3>1 DEF TypeOK
  <2>3. CASE \E p \in Pids, n \in 1 .. MaxEvents, ret \in Results :
               DispatchToNextHandler(p, n, ret)
    <3>1. PICK n \in 1 .. Len(events), f \in Hooks : PassToHook(f, n)
      BY <2>3 DEF DispatchToNextHandler, HookOf, Pass, PassToWindow, PassFails,
                  PassSwallowed, PassRefused, Refuse
    <3>2. PICK k \in Hooks : k < f /\ offered' = [offered EXCEPT ![k] = n]
      BY <3>1 DEF PassToHook, IsNext
    <3>3. k = h /\ offered'[h] = n
      BY <2>1, <3>2 DEF TypeOK
    <3>4. f \in HookIds /\ MayPass(f, n)
      BY <3>1 DEF PassToHook, Passed, Hooks
    <3>5. dispatchedEventIds_[f] < n /\ \E s \in stashEvents_[f] : s.event = n
      BY <3>4, MayPassMeansHeld DEF Order
    <3>6. offered[h] < n
      BY <3>2, <3>3, <3>5 DEF Order, ChainOrder
    <3> QED
      BY <2>1, <3>3, <3>6
  <2>4. CASE UNCHANGED offered
    BY <2>4
  <2> QED
    BY <2>2, <2>3, <2>4 DEF Next, vars, Tick, OnSessionLost, Connect, AddKeyEventHook,
                            RemoveKeyEventHook, delivery
<1> QED
  BY <1>1, OrderAlways, TypeCorrect, PTL DEF Spec, OffersInOrder
=============================================================================
