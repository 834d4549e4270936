------------------------- MODULE KeyEventHooks_proofs -------------------------
(***************************************************************************)
(* Proofs about KeyEventHooks, for every number of processes, hooks and    *)
(* events and every time-out (ClientAssumption).  The service among its    *)
(* clients is still the service: what KeyEventHookManager_proofs proves    *)
(* holds of the whole.  SysInv adds what service, library and program know *)
(* of each other: whose ids are known to whom, what a call under way has   *)
(* seen of the hook, which events are still to come and which the library  *)
(* noted.  From it follow their agreement and the order of messages.       *)
(***************************************************************************)
EXTENDS KeyEventHooks, KeyEventHookManager_proofs

LEMMA NumbersDoNotWrap == NoWrap
BY ClientAssumption DEF NoWrap

LEMMA ServeStep ==
  ASSUME TypeOK, NEW p \in Programs, Serve(p)
  PROVE  [Next]_vars
<1>1. p \in Pids
  BY ClientAssumption
<1>2. ASSUME NEW n, NEW ret \in Results, DispatchToNextHandler(p, n, ret)
      PROVE  Next
  <2>1. n \in 1 .. MaxEvents
    BY <1>2, HookAssumption DEF DispatchToNextHandler, TypeOK
  <2> QED
    BY <1>1, <1>2, <2>1 DEF Next
<1>3. CASE ServeRemove(p)
  <2>1. ASSUME NEW h, RemoveKeyEventHook(p, h) PROVE Next
    <3>1. h \in HookIds
      BY <2>1 DEF RemoveKeyEventHook, Hooks
    <3> QED
      BY <1>1, <2>1, <3>1 DEF Next
  <2> QED
    BY <1>3, <2>1 DEF ServeRemove, server
<1>4. ASSUME NEW t \in Threads, ServeAdd(p, t)
      PROVE  [Next]_vars
  BY <1>1, <1>4 DEF ServeAdd, Next, server
<1>5. ASSUME NEW t \in Threads, ServePass(p, t)
      PROVE  [Next]_vars
  BY <1>2, <1>5 DEF ServePass, server, Results
<1> QED
  BY <1>3, <1>4, <1>5 DEF Serve

LEMMA ServerStepIsStep ==
  ASSUME TypeOK, ServerStep
  PROVE  [Next]_vars
<1>1. CASE Tick \/ (\E k \in Keys, a \in Actions : HandleKeyEvent(k, a))
           \/ \E p \in Pids : OnSessionLost(p)
  BY <1>1 DEF Next
<1>2. ASSUME NEW p \in Pids, OtherProcess(p)
      PROVE  Next
  <2>1. HookOf(p) \subseteq HookIds
    BY DEF HookOf, Hooks
  <2> QED
    BY <1>2, <2>1 DEF OtherProcess, Next
<1> QED
  BY <1>1, <1>2 DEF ServerStep

LEMMA SysStepIsStep ==
  ASSUME TypeOK, [SysNext]_sysVars
  PROVE  [Next]_vars
<1>1. CASE ServerStep
  BY <1>1, ServerStepIsStep
<1>2. ASSUME NEW p \in Programs, Serve(p)
      PROVE  [Next]_vars
  BY <1>2, ServeStep
<1>3. ASSUME NEW p \in Programs,
             \/ AddHook(p) \/ RemoveHook(p)
             \/ \E t \in Threads, n \in 1 .. MaxEvents : PassOn(p, t, n)
             \/ AppThread(p)
      PROVE  UNCHANGED vars
  BY <1>3 DEF AddHook, RemoveHook, PassOn, AppThread, AddFails, AddReturns,
              RemoveReturns, PassReturns, server
<1>4. ASSUME NEW p \in Programs, EventThread(p)
      PROVE  [Next]_vars
  <2>1. CASE Reconnect(p)
    BY <2>1, ClientAssumption DEF Reconnect, Next
  <2>2. CASE ~Reconnect(p)
    BY <1>4, <2>2 DEF EventThread, OnKeyEvent, OnConnected, ReAddReturns, PassReturns,
                      server
  <2> QED
    BY <2>1, <2>2
<1> QED
  BY <1>1, <1>2, <1>3, <1>4 DEF SysNext, SysStep, sysVars

\* Whatever its clients do, the service makes only the steps of
\* KeyEventHookManager.
THEOREM ServiceAmongClients == SysSpec => Spec
<1>1. SysInit => Init
  BY DEF SysInit
<1>2. TypeOK /\ [SysNext]_sysVars => [Next]_vars
  BY SysStepIsStep
<1>3. TypeOK /\ [SysNext]_sysVars => TypeOK'
  BY <1>2, TypeOKStep
<1>4. SysSpec => []TypeOK
  BY <1>1, <1>3, TypeOKInit, PTL DEF SysSpec
<1> QED
  BY <1>1, <1>2, <1>4, PTL DEF SysSpec, Spec

\* A process has one hook at most, and a session as long as it has one.
HookSessions ==
  \A p \in Pids :
    /\ \A h, k \in HookOf(p) : h = k
    /\ HookOf(p) # {} => p \in connected

\* The hooks a step leaves: those there were, with their process, and one that
\* is new, in front of all others and without a checker.
LEMMA StepHooks ==
  ASSUME TypeOK, CheckersBelongToHooks, NewIds, [Next]_vars
  PROVE  /\ globalHookId <= globalHookId'
         /\ \A h \in Hooks' :
              \/ h \in Hooks /\ hooks_'[h] = hooks_[h]
              \/ /\ h \notin Hooks /\ h = globalHookId /\ h < globalHookId'
                 /\ stashEvents_'[h] = {}
<1> DEFINE Good ==
      /\ globalHookId <= globalHookId'
      /\ \A h \in Hooks' :
           \/ h \in Hooks /\ hooks_'[h] = hooks_[h]
           \/ /\ h \notin Hooks /\ h = globalHookId /\ h < globalHookId'
              /\ stashEvents_'[h] = {}
<1>0. globalHookId \in Nat
  BY DEF TypeOK
<1>1. CASE UNCHANGED <<hooks_, globalHookId>>
  BY <1>0, <1>1 DEF Hooks
<1>2. ASSUME NEW h \in HookIds, DropHook(h), UNCHANGED globalHookId
      PROVE  Good
  BY <1>0, <1>2 DEF DropHook, Hooks, TypeOK
<1>3. ASSUME NEW p \in Pids, NEW h \in HookIds, AddKeyEventHook(p, h)
      PROVE  Good
  <2>1. h = globalHookId /\ globalHookId' = h + 1
        /\ hooks_' = [hooks_ EXCEPT ![h] = p] /\ UNCHANGED stashEvents_
    BY <1>3 DEF AddKeyEventHook, PrependHook, checkers
  <2>2. h \notin Hooks
    BY <1>0, <2>1 DEF NewIds
  <2>3. stashEvents_[h] = {}
    BY <2>2 DEF CheckersBelongToHooks
  <2>4. \A g \in Hooks' : g = h \/ (g \in Hooks /\ hooks_'[g] = hooks_[g])
    BY <2>1 DEF Hooks, TypeOK
  <2> QED
    BY <1>0, <2>1, <2>2, <2>3, <2>4
<1>4. ASSUME NEW p \in Pids, NEW h \in HookIds, RemoveKeyEventHook(p, h)
      PROVE  Good
  BY <1>2, <1>4 DEF RemoveKeyEventHook
<1>5. ASSUME NEW p \in Pids, OnSessionLost(p)
      PROVE  Good
  BY <1>1, <1>2, <1>5 DEF OnSessionLost, HookOf, Hooks
<1>6. CASE UNCHANGED vars \/ Tick
           \/ (\E k \in Keys, a \in Actions : HandleKeyEvent(k, a))
           \/ (\E p \in Pids : Connect(p))
           \/ (\E p \in Pids, n \in 1 .. MaxEvents, ret \in Results :
                 DispatchToNextHandler(p, n, ret))
  <2>1. UNCHANGED <<hooks_, globalHookId>>
    BY <1>6 DEF vars, Tick, HandleKeyEvent, NewEvent, Connect, DispatchToNextHandler
  <2> QED
    BY <1>1, <2>1
<1> QED
  BY <1>3, <1>4, <1>5, <1>6 DEF Next

LEMMA DropEffect ==
  ASSUME TypeOK, NEW h \in HookIds, DropHook(h)
  PROVE  \A q \in Pids : HookOf(q)' = HookOf(q) \ {h}
<1> SUFFICES ASSUME NEW q \in Pids
             PROVE  HookOf(q)' = HookOf(q) \ {h}
  OBVIOUS
<1>1. hooks_' = [hooks_ EXCEPT ![h] = Nobody] /\ q # Nobody
  BY HookAssumption DEF DropHook
<1> QED
  BY <1>1 DEF HookOf, Hooks, TypeOK

LEMMA AddEffect ==
  ASSUME TypeOK, NewIds, NEW p \in Pids, NEW h, AddKeyEventHook(p, h)
  PROVE  /\ p \in connected /\ UNCHANGED connected
         /\ HookOf(p) = {} /\ HookOf(p)' = {h}
         /\ \A q \in Pids \ {p} : HookOf(q)' = HookOf(q)
<1>1. /\ h \in HookIds /\ h = globalHookId /\ hooks_' = [hooks_ EXCEPT ![h] = p]
      /\ p # Nobody /\ p \in connected /\ UNCHANGED connected /\ HookOf(p) = {}
  BY HookAssumption DEF AddKeyEventHook, CanAdd, PrependHook
<1>2. h \notin Hooks
  <2>1. globalHookId \in Nat
    BY DEF TypeOK
  <2> QED
    BY <1>1, <2>1 DEF NewIds
<1>3. \A q \in Pids \ {p} : HookOf(q)' = HookOf(q)
  <2> SUFFICES ASSUME NEW q \in Pids \ {p}
               PROVE  HookOf(q)' = HookOf(q)
    OBVIOUS
  <2> QED
    BY <1>1, <1>2 DEF HookOf, Hooks, TypeOK
<1>4. HookOf(p)' = {h}
  BY <1>1 DEF HookOf, Hooks, TypeOK
<1> QED
  BY <1>1, <1>3, <1>4

LEMMA HookSessionsInit == Init => HookSessions
BY HookAssumption DEF Init, HookSessions, HookOf, Hooks

LEMMA HookSessionsStep ==
  ASSUME TypeOK, NewIds, HookSessions, [Next]_vars
  PROVE  HookSessions'
<1>1. CASE UNCHANGED <<hooks_, connected>>
  BY <1>1 DEF HookSessions, HookOf, Hooks
<1>2. ASSUME NEW p \in Pids, NEW h \in HookIds, AddKeyEventHook(p, h)
      PROVE  HookSessions'
  BY <1>2, AddEffect DEF HookSessions
<1>3. ASSUME NEW p \in Pids, NEW h \in HookIds, RemoveKeyEventHook(p, h)
      PROVE  HookSessions'
  BY <1>3, DropEffect DEF RemoveKeyEventHook, HookSessions
<1>4. ASSUME NEW p \in Pids, OnSessionLost(p)
      PROVE  HookSessions'
  <2>1. connected' = connected \ {p}
    BY <1>4 DEF OnSessionLost
  <2>2. CASE HookOf(p) = {} /\ UNCHANGED hooks_
    BY <2>1, <2>2 DEF HookSessions, HookOf, Hooks
  <2>3. ASSUME NEW h \in HookOf(p), DropHook(h)
        PROVE  HookSessions'
    <3>1. \A q \in Pids : HookOf(q)' = HookOf(q) \ {h}
      BY <2>3, DropEffect DEF HookOf, Hooks
    <3>2. HookOf(p)' = {}
      BY <2>3, <3>1 DEF HookSessions
    <3> QED
      BY <2>1, <3>1, <3>2 DEF HookSessions
  <2> QED
    BY <1>4, <2>2, <2>3 DEF OnSessionLost
<1>5. ASSUME NEW p \in Pids, Connect(p)
      PROVE  HookSessions'
  BY <1>5 DEF Connect, HookSessions, HookOf, Hooks
<1>6. CASE UNCHANGED vars \/ Tick
           \/ (\E k \in Keys, a \in Actions : HandleKeyEvent(k, a))
           \/ (\E p \in Pids, n \in 1 .. MaxEvents, ret \in Results :
                 DispatchToNextHandler(p, n, ret))
  BY <1>1, <1>6 DEF vars, Tick, HandleKeyEvent, NewEvent, DispatchToNextHandler
<1> QED
  BY <1>2, <1>3, <1>4, <1>5, <1>6 DEF Next

\* What a step offers a hook: an event that is newer than all it was offered,
\* and that just happened or was held by a hook in front of it.
NewOffer(h) ==
  /\ h \in Hooks /\ UNCHANGED <<hooks_, now>>
  /\ offered'[h] > offered[h] /\ offered'[h] \in 1 .. Len(events')
  /\ \/ offered'[h] > Len(events)
     \/ \E f \in Hooks : f > h /\ \E s \in stashEvents_[f] : s.event = offered'[h]

\* Offers of a step and what enters the stashes belong together.
LEMMA StepOffers ==
  ASSUME TypeOK, Order, [Next]_vars
  PROVE  /\ now <= now' /\ Len(events) <= Len(events')
         /\ \A h \in HookIds :
              /\ offered'[h] # offered[h] => NewOffer(h)
              /\ \A s \in stashEvents_'[h] \ stashEvents_[h] :
                   NewOffer(h) /\ s.event = offered'[h] /\ s.at = now
         /\ \A h, k \in HookIds :
              offered'[h] # offered[h] /\ offered'[k] # offered[k] => h = k
<1> DEFINE Good ==
      /\ now <= now' /\ Len(events) <= Len(events')
      /\ \A h \in HookIds :
           /\ offered'[h] # offered[h] => NewOffer(h)
           /\ \A s \in stashEvents_'[h] \ stashEvents_[h] :
                NewOffer(h) /\ s.event = offered'[h] /\ s.at = now
      /\ \A h, k \in HookIds :
           offered'[h] # offered[h] /\ offered'[k] # offered[k] => h = k
<1>0. now \in Nat /\ Len(events) \in Nat
      /\ \A h \in HookIds : offered[h] \in 0 .. Len(events)
  BY DEF TypeOK, Order, Bounds
<1>1. ASSUME UNCHANGED <<events, offered>>, now <= now',
             \A h \in HookIds : stashEvents_'[h] \subseteq stashEvents_[h]
      PROVE  Good
  BY <1>0, <1>1
<1>2. ASSUME NEW h \in HookIds, DropHook(h), UNCHANGED <<events, offered, now>>
      PROVE  Good
  <2>1. \A g \in HookIds : stashEvents_'[g] \subseteq stashEvents_[g]
    BY <1>2 DEF DropHook, TypeOK
  <2> QED
    BY <1>0, <1>1, <1>2, <2>1
<1>3. ASSUME NEW h \in HookIds, NEW n \in Nat,
             \A g \in HookIds : stashEvents_'[g] \subseteq
               stashEvents_[g] \union
               (IF g = h THEN {[event |-> n, at |-> now]} ELSE {}),
             offered' = [offered EXCEPT ![h] = n],
             NewOffer(h), UNCHANGED now, Len(events) <= Len(events')
      PROVE  Good
  <2>1. offered'[h] = n /\ \A g \in HookIds \ {h} : offered'[g] = offered[g]
    BY <1>3 DEF TypeOK
  <2>2. \A s : s \in stashEvents_'[h] \ stashEvents_[h] => s.event = n /\ s.at = now
    BY <1>3
  <2>3. \A g \in HookIds \ {h} : stashEvents_'[g] \subseteq stashEvents_[g]
    BY <1>3
  <2> QED
    BY <1>0, <1>3, <2>1, <2>2, <2>3
<1>4. ASSUME NEW k \in Keys, NEW a \in Actions, HandleKeyEvent(k, a)
      PROVE  Good
  <2> DEFINE n == Len(events) + 1
  <2>1. Len(events') = n /\ n \in Nat /\ UNCHANGED <<now, hooks_>>
    BY <1>0, <1>4 DEF HandleKeyEvent, NewEvent, TypeOK, Event
  <2>2. CASE \E h \in Hooks : IsFirst(h) /\ SendToHook(h, n)
    <3>1. PICK h \in Hooks : SendToHook(h, n)
      BY <2>2
    <3>2. h \in HookIds
      BY DEF Hooks
    <3>3. offered' = [offered EXCEPT ![h] = n] /\ offered'[h] = n
      BY <3>1, <3>2 DEF SendToHook, TypeOK
    <3>4. \A g \in HookIds : stashEvents_'[g] \subseteq
            stashEvents_[g] \union
            (IF g = h THEN {[event |-> n, at |-> now]} ELSE {})
      BY <3>1, <3>2 DEF SendToHook, Fresh, TypeOK
    <3>5. NewOffer(h)
      BY <1>0, <2>1, <3>2, <3>3 DEF NewOffer
    <3> QED
      BY <1>0, <1>3, <2>1, <3>2, <3>3, <3>4, <3>5
  <2>3. CASE UNCHANGED <<stashEvents_, offered>>
    BY <1>0, <2>1, <2>3
  <2> QED
    BY <1>4, <2>2, <2>3 DEF HandleKeyEvent, SendToWindow
<1>5. ASSUME NEW p \in Pids, NEW n \in 1 .. MaxEvents, NEW ret \in Results,
             DispatchToNextHandler(p, n, ret)
      PROVE  Good
  <2>1. n \in 1 .. Len(events) /\ n \in Nat /\ UNCHANGED <<events, now, hooks_>>
    BY <1>5, HookAssumption DEF DispatchToNextHandler
  <2>2. PICK h \in Hooks : Pass(h, n, ret)
    BY <1>5 DEF DispatchToNextHandler, HookOf
  <2>3. h \in HookIds
    BY DEF Hooks
  <2>4. CASE PassToHook(h, n)
    <3>1. PICK k \in Hooks :
            /\ IsNext(h, k)
            /\ stashEvents_' = [stashEvents_ EXCEPT
                 ![h] = Fresh(h),
                 ![k] = Fresh(k) \union {[event |-> n, at |-> now]}]
            /\ offered' = [offered EXCEPT ![k] = n]
      BY <2>4 DEF PassToHook
    <3>2. k \in HookIds /\ k < h /\ h > k /\ k # h
      BY <2>3, <3>1 DEF IsNext, Hooks, HookIds
    <3>3. /\ dispatchedEventIds_[h] < n
          /\ \E s \in stashEvents_[h] : s.event = n
      BY <2>1, <2>3, <2>4, MayPassMeansHeld, NumbersDoNotWrap
         DEF PassToHook, Passed, Order
    <3>4. offered[k] < n
      BY <3>2, <3>3 DEF Order, ChainOrder
    <3>5. offered'[k] = n
      BY <3>1, <3>2 DEF TypeOK
    <3>6. NewOffer(k)
      BY <1>0, <2>1, <3>2, <3>3, <3>4, <3>5 DEF NewOffer
    <3>7. \A g \in HookIds : stashEvents_'[g] \subseteq
            stashEvents_[g] \union
            (IF g = k THEN {[event |-> n, at |-> now]} ELSE {})
      BY <2>3, <3>1, <3>2 DEF Fresh, TypeOK
    <3>8. offered' = [offered EXCEPT ![k] = n] /\ Len(events) <= Len(events')
      BY <1>0, <2>1, <3>1
    <3> QED
      BY <1>3, <2>1, <3>2, <3>6, <3>7, <3>8
  <2>5. CASE ~PassToHook(h, n)
    <3>1. UNCHANGED offered /\ Purge(h)
      BY <2>2, <2>5 DEF Pass, PassToWindow, PassFails, PassSwallowed, PassRefused,
                        Refuse
    <3>2. \A g \in HookIds : stashEvents_'[g] \subseteq stashEvents_[g]
      BY <2>3, <3>1 DEF Purge, Fresh, TypeOK
    <3> QED
      BY <1>0, <1>1, <2>1, <3>1, <3>2
  <2> QED
    BY <2>4, <2>5
<1>6. ASSUME NEW p \in Pids, NEW h \in HookIds, RemoveKeyEventHook(p, h)
      PROVE  Good
  BY <1>2, <1>6 DEF RemoveKeyEventHook, delivery
<1>7. ASSUME NEW p \in Pids, OnSessionLost(p)
      PROVE  Good
  <2>1. UNCHANGED <<events, offered, now>>
    BY <1>7 DEF OnSessionLost, delivery
  <2>2. CASE UNCHANGED checkers
    BY <1>0, <1>1, <2>1, <2>2 DEF checkers
  <2> QED
    BY <1>2, <1>7, <2>1, <2>2 DEF OnSessionLost, HookOf, Hooks
<1>8. CASE UNCHANGED vars \/ Tick \/ (\E p \in Pids : Connect(p))
           \/ (\E p \in Pids, h \in HookIds : AddKeyEventHook(p, h))
  <2>1. UNCHANGED <<events, offered, stashEvents_>> /\ now <= now'
    BY <1>0, <1>8 DEF vars, Tick, Connect, AddKeyEventHook, checkers, delivery
  <2> QED
    BY <1>1, <2>1
<1> QED
  BY <1>4, <1>5, <1>6, <1>7, <1>8 DEF Next

-----------------------------------------------------------------------------
(* The library.                                                            *)

\* Calls that know the id of a hook.
KnowsId == {"added", "remove", "removed"}

Ops == {"idle", "pass", "passed"} \union OnHooks
CallState == [op : Ops, arg : Int]

SysTypeOK ==
  /\ appCallback \in [Programs -> BOOLEAN]
  /\ keyEventHookId \in [Programs -> Int]
  /\ hookCallback_ \in [Programs -> BOOLEAN]
  /\ hookIdUpdater_ \in [Programs -> BOOLEAN]
  /\ pendingKeys_ \in [Programs -> SUBSET [event : Int, at : Int]]
  /\ inbox \in [Programs -> Seq(Int)]
  /\ seen \in [Programs -> SUBSET Int]
  /\ call \in [Programs -> [Threads -> CallState]]
  /\ passedOn \in [Programs -> Int]
  /\ early \in [Programs -> SUBSET Int]
  /\ crossed \subseteq Programs

\* A call of p moves on.
LEMMA GoStep ==
  ASSUME SysTypeOK, NEW p \in Programs, NEW t \in Threads,
         NEW next \in CallState, Go(p, t, next)
  PROVE  /\ call' \in [Programs -> [Threads -> CallState]]
         /\ call'[p][t] = next
         /\ \A u \in Threads \ {t} : call'[p][u] = call[p][u]
         /\ \A q \in Programs \ {p} : call'[q] = call[q]
<1>1. call[p] \in [Threads -> CallState]
  BY DEF SysTypeOK
<1>2. call' = [call EXCEPT ![p] = [call[p] EXCEPT ![t] = next]]
  BY DEF Go
<1>3. [call[p] EXCEPT ![t] = next] \in [Threads -> CallState]
  BY <1>1
<1>4. call' \in [Programs -> [Threads -> CallState]]
  BY <1>2, <1>3 DEF SysTypeOK
<1>5. call'[p] = [call[p] EXCEPT ![t] = next]
      /\ \A q \in Programs \ {p} : call'[q] = call[q]
  BY <1>2 DEF SysTypeOK
<1> QED
  BY <1>1, <1>4, <1>5

LEMMA CallIsTyped ==
  ASSUME SysTypeOK, NEW p \in Programs, NEW t \in Threads
  PROVE  call[p][t].op \in Ops /\ call[p][t].arg \in Int
BY DEF SysTypeOK, CallState

LEMMA OpsAreOps ==
  \A op \in {"pass", "passed", "add", "added", "addFailed", "remove", "removed",
             "connected"} : op \in Ops
BY DEF Ops, OnHooks

LEMMA CallsAreTyped ==
  /\ Idle \in CallState
  /\ \A op \in Ops, arg \in Int : Call(op, arg) \in CallState
BY DEF Call, Idle, CallState, Ops

\* Messages are numbers of events.
LEMMA DeliverTyped ==
  ASSUME TypeOK, Order, SysTypeOK, [Next]_vars, Deliver
  PROVE  inbox' \in [Programs -> Seq(Int)]
<1> SUFFICES ASSUME NEW p \in Programs,
                    \E h \in HookOf(p) : offered'[h] # offered[h]
             PROVE  Append(inbox[p], CHOOSE n \in 1 .. MaxEvents :
                      \E h \in HookOf(p) : offered'[h] = n /\ offered[h] # n)
                    \in Seq(Int)
  BY DEF Deliver, SysTypeOK
<1>1. TypeOK'
  BY TypeOKStep
<1>2. PICK h \in HookOf(p) : offered'[h] # offered[h]
  OBVIOUS
<1>3. h \in HookIds
  BY DEF HookOf, Hooks
<1>4. offered'[h] \in 1 .. Len(events')
  BY <1>2, <1>3, StepOffers DEF NewOffer
<1>5. offered'[h] \in 1 .. MaxEvents
  BY <1>1, <1>4, HookAssumption DEF TypeOK
<1>6. (CHOOSE n \in 1 .. MaxEvents :
         \E g \in HookOf(p) : offered'[g] = n /\ offered[g] # n) \in 1 .. MaxEvents
  BY <1>2, <1>5
<1> QED
  BY <1>6 DEF SysTypeOK

LEMMA SysTypeInit == SysInit => SysTypeOK
BY CallsAreTyped DEF SysInit, SysTypeOK, NoHook

LEMMA SysTypeStep ==
  ASSUME TypeOK, Order, SysTypeOK, [SysNext]_sysVars
  PROVE  SysTypeOK'
<1> USE DEF SysTypeOK
<1>1. [Next]_vars
  BY SysStepIsStep
<1>2. crossed' \subseteq Programs
  BY DEF SysNext, sysVars
<1>3. now \in Int /\ "app" \in Threads /\ "event" \in Threads
  BY DEF TypeOK, Threads
<1>4. CASE UNCHANGED library
  BY <1>2, <1>4 DEF library, callbacks
<1>5. CASE ServerStep
  <2>1. inbox' \in [Programs -> Seq(Int)]
    BY <1>1, <1>5, DeliverTyped DEF ServerStep
  <2> QED
    BY <1>2, <1>5, <2>1 DEF ServerStep, callbacks
<1>6. ASSUME NEW p \in Programs, AddHook(p) \/ RemoveHook(p)
      PROVE  SysTypeOK'
  <2>1. call' \in [Programs -> [Threads -> CallState]]
    BY <1>3, <1>6, GoStep, CallsAreTyped, OpsAreOps DEF AddHook, RemoveHook
  <2> QED
    BY <1>2, <1>6, <2>1 DEF AddHook, RemoveHook, callbacks
<1>7. ASSUME NEW p \in Programs, NEW t \in Threads, NEW n \in 1 .. MaxEvents,
             PassOn(p, t, n)
      PROVE  SysTypeOK'
  <2>1. call' \in [Programs -> [Threads -> CallState]]
    BY <1>7, GoStep, CallsAreTyped, OpsAreOps DEF PassOn
  <2>2. pendingKeys_' \in [Programs -> SUBSET [event : Int, at : Int]]
    BY <1>7 DEF PassOn, Recent
  <2> QED
    BY <1>2, <1>7, <2>1, <2>2 DEF PassOn, callbacks
<1>8. ASSUME NEW p \in Programs, AddFails(p) \/ AddReturns(p) \/ RemoveReturns(p)
      PROVE  SysTypeOK'
  <2>1. call' \in [Programs -> [Threads -> CallState]]
    BY <1>3, <1>8, GoStep, CallsAreTyped, OpsAreOps DEF AddFails, AddReturns, RemoveReturns
  <2>2. keyEventHookId' \in [Programs -> Int]
    BY <1>3, <1>8, CallIsTyped DEF AddFails, AddReturns, RemoveReturns, NoHook
  <2>3. pendingKeys_' \in [Programs -> SUBSET [event : Int, at : Int]]
    BY <1>8 DEF AddFails, AddReturns, RemoveReturns
  <2> QED
    BY <1>2, <1>8, <2>1, <2>2, <2>3 DEF AddFails, AddReturns, RemoveReturns
<1>9. ASSUME NEW p \in Programs, NEW t \in Threads, PassReturns(p, t)
      PROVE  SysTypeOK'
  <2>1. call' \in [Programs -> [Threads -> CallState]]
    BY <1>9, GoStep, CallsAreTyped, OpsAreOps DEF PassReturns
  <2>2. pendingKeys_' \in [Programs -> SUBSET [event : Int, at : Int]]
    BY <1>9 DEF PassReturns
  <2>3. passedOn' \in [Programs -> Int]
    BY <1>9, CallIsTyped DEF PassReturns
  <2> QED
    BY <1>2, <1>9, <2>1, <2>2, <2>3 DEF PassReturns, callbacks
<1>10. ASSUME NEW p \in Programs, OnKeyEvent(p)
       PROVE  SysTypeOK'
  <2>1. Head(inbox[p]) \in Int /\ Tail(inbox[p]) \in Seq(Int)
    BY <1>10 DEF OnKeyEvent
  <2>2. pendingKeys_' \in [Programs -> SUBSET [event : Int, at : Int]]
    BY <1>3, <1>10, <2>1 DEF OnKeyEvent
  <2>3. seen' \in [Programs -> SUBSET Int] /\ early' \in [Programs -> SUBSET Int]
    BY <1>10, <2>1 DEF OnKeyEvent
  <2> QED
    BY <1>2, <1>10, <2>1, <2>2, <2>3 DEF OnKeyEvent, callbacks
<1>11. ASSUME NEW p \in Programs, Reconnect(p) \/ OnConnected(p) \/ ReAddReturns(p)
       PROVE  SysTypeOK'
  <2>1. call' \in [Programs -> [Threads -> CallState]]
    <3>1. \E next \in CallState : Go(p, "event", next)
      BY <1>11, CallsAreTyped, OpsAreOps DEF Reconnect, OnConnected, ReAddReturns
    <3> QED
      BY <1>3, <3>1, GoStep
  <2>2. keyEventHookId' \in [Programs -> Int]
    BY <1>3, <1>11, CallIsTyped DEF Reconnect, OnConnected, ReAddReturns, callbacks
  <2>3. hookCallback_' \in [Programs -> BOOLEAN]
    BY <1>11 DEF Reconnect, OnConnected, ReAddReturns, callbacks
  <2> QED
    BY <1>2, <1>11, <2>1, <2>2, <2>3 DEF Reconnect, OnConnected, ReAddReturns, callbacks
<1>12. ASSUME NEW p \in Programs, ServeRemove(p)
       PROVE  SysTypeOK'
  <2>1. call' \in [Programs -> [Threads -> CallState]]
    <3>1. call[p]["app"].arg \in Int
      BY <1>3, CallIsTyped
    <3>2. \E next \in CallState : Go(p, "app", next)
      BY <1>12, <3>1, CallsAreTyped, OpsAreOps DEF ServeRemove
    <3> QED
      BY <1>3, <3>2, GoStep
  <2> QED
    BY <1>2, <1>12, <2>1 DEF ServeRemove, callbacks
<1>13. ASSUME NEW p \in Programs, NEW t \in Threads, ServeAdd(p, t)
       PROVE  SysTypeOK'
  <2>1. call' \in [Programs -> [Threads -> CallState]]
    <3>1. HookIds \subseteq Int
      BY DEF HookIds
    <3>2. \E next \in CallState : Go(p, t, next)
      BY <1>13, <3>1, CallsAreTyped, OpsAreOps DEF ServeAdd
    <3> QED
      BY <3>2, GoStep
  <2> QED
    BY <1>2, <1>13, <2>1 DEF ServeAdd, callbacks
<1>14. ASSUME NEW p \in Programs, NEW t \in Threads, ServePass(p, t)
       PROVE  SysTypeOK'
  <2>1. call' \in [Programs -> [Threads -> CallState]]
    <3>1. call[p][t].arg \in Int
      BY CallIsTyped
    <3>2. \E next \in CallState : Go(p, t, next)
      BY <1>14, <3>1, CallsAreTyped, OpsAreOps DEF ServePass
    <3> QED
      BY <3>2, GoStep
  <2>2. inbox' \in [Programs -> Seq(Int)]
    BY <1>1, <1>14, DeliverTyped DEF ServePass
  <2> QED
    BY <1>2, <1>14, <2>1, <2>2 DEF ServePass, callbacks
<1> QED
  BY <1>3, <1>4, <1>5, <1>6, <1>7, <1>8, <1>9, <1>10, <1>11, <1>12, <1>13, <1>14
     DEF SysNext, SysStep, sysVars, AppThread, EventThread, Serve

-----------------------------------------------------------------------------
(* The ids the library knows.                                              *)

\* The hook h, if there is one, belongs to p.
OwnId(p, h) == h < globalHookId /\ (h \in Hooks => hooks_[h] = p)

\* An id a process knows is, or was, the id of a hook of its own: ids are not
\* used again.
OwnIds ==
  \A p \in Programs :
    /\ OwnId(p, keyEventHookId[p])
    /\ \A t \in Threads : call[p][t].op \in KnowsId => OwnId(p, call[p][t].arg)

WillOwn(p, h) == h < globalHookId' /\ (h \in Hooks' => hooks_'[h] = p)

LEMMA OwnIdKept ==
  ASSUME TypeOK, CheckersBelongToHooks, NewIds, [Next]_vars,
         NEW p \in Pids, NEW h \in Int, OwnId(p, h)
  PROVE  WillOwn(p, h)
<1>1. globalHookId \in Int /\ globalHookId' \in Int
  BY TypeOKStep DEF TypeOK
<1> QED
  BY <1>1, StepHooks DEF OwnId, WillOwn

LEMMA NoHookIsOwn ==
  ASSUME TypeOK, NEW p
  PROVE  OwnId(p, NoHook)
BY DEF OwnId, NoHook, Hooks, HookIds, TypeOK

\* A thread of p moves on, and its library may learn an id.
LEMMA OwnIdsLearn ==
  ASSUME TypeOK, CheckersBelongToHooks, NewIds, SysTypeOK, OwnIds, [Next]_vars,
         NEW p \in Programs, NEW t \in Threads, NEW next \in CallState,
         Go(p, t, next),
         next.op \in KnowsId => WillOwn(p, next.arg),
         NEW id \in Int, WillOwn(p, id),
         keyEventHookId' = [keyEventHookId EXCEPT ![p] = id]
  PROVE  OwnIds'
<1> SUFFICES ASSUME NEW q \in Programs
             PROVE  /\ WillOwn(q, keyEventHookId'[q])
                    /\ \A u \in Threads : call'[q][u].op \in KnowsId =>
                         WillOwn(q, call'[q][u].arg)
  BY DEF OwnIds, OwnId, WillOwn
<1>1. q \in Pids
  BY ClientAssumption
<1>2. \A h \in Int : OwnId(q, h) => WillOwn(q, h)
  BY <1>1, OwnIdKept
<1>3. WillOwn(q, keyEventHookId'[q])
  <2>1. CASE q = p
    <3>1. keyEventHookId'[q] = id
      BY <2>1 DEF SysTypeOK
    <3> QED
      BY <2>1, <3>1
  <2>2. CASE q # p
    <3>1. keyEventHookId'[q] = keyEventHookId[q] /\ keyEventHookId[q] \in Int
      BY <2>2 DEF SysTypeOK
    <3>2. WillOwn(q, keyEventHookId[q])
      BY <1>2, <3>1 DEF OwnIds
    <3> QED
      BY <3>1, <3>2
  <2> QED
    BY <2>1, <2>2
<1>4. ASSUME NEW u \in Threads, call'[q][u].op \in KnowsId
      PROVE  WillOwn(q, call'[q][u].arg)
  <2>1. CASE q = p /\ u = t
    <3>1. call'[q][u] = next
      BY <2>1, GoStep
    <3> QED
      BY <1>4, <2>1, <3>1
  <2>2. CASE ~(q = p /\ u = t)
    <3>1. call'[q][u] = call[q][u] /\ call[q][u].arg \in Int
      BY <2>2, GoStep, CallIsTyped
    <3>2. WillOwn(q, call[q][u].arg)
      BY <1>2, <1>4, <3>1 DEF OwnIds
    <3> QED
      BY <3>1, <3>2
  <2> QED
    BY <2>1, <2>2
<1> QED
  BY <1>3, <1>4

\* The same when the id the program knows stays.
LEMMA OwnIdsGo ==
  ASSUME TypeOK, CheckersBelongToHooks, NewIds, SysTypeOK, OwnIds, [Next]_vars,
         NEW p \in Programs, NEW t \in Threads, NEW next \in CallState,
         Go(p, t, next),
         next.op \in KnowsId => WillOwn(p, next.arg),
         UNCHANGED keyEventHookId
  PROVE  OwnIds'
<1>1. keyEventHookId' = [keyEventHookId EXCEPT ![p] = keyEventHookId[p]]
      /\ keyEventHookId[p] \in Int
  BY DEF SysTypeOK
<1>2. WillOwn(p, keyEventHookId[p])
  BY <1>1, OwnIdKept, ClientAssumption DEF OwnIds
<1> QED
  BY <1>1, <1>2, OwnIdsLearn

LEMMA OwnIdsInit == SysInit => OwnIds
BY DEF SysInit, Init, OwnIds, OwnId, NoHook, Hooks, HookIds, Idle, KnowsId

LEMMA OwnIdsStep ==
  ASSUME TypeOK, CheckersBelongToHooks, NewIds, SysTypeOK, OwnIds,
         [SysNext]_sysVars
  PROVE  OwnIds'
<1>1. [Next]_vars
  BY SysStepIsStep
<1>2. "app" \in Threads /\ "event" \in Threads
  BY DEF Threads
<1>3. ASSUME NEW p \in Programs, NEW h \in Int, OwnId(p, h)
      PROVE  WillOwn(p, h)
  BY <1>1, <1>3, OwnIdKept, ClientAssumption
<1>4. ASSUME NEW p \in Programs
      PROVE  WillOwn(p, NoHook)
  BY <1>3, NoHookIsOwn DEF NoHook
<1>5. CASE UNCHANGED <<call, keyEventHookId>>
  <2>1. ASSUME NEW p \in Programs
        PROVE  WillOwn(p, keyEventHookId[p])
    BY <1>3 DEF SysTypeOK, OwnIds
  <2>2. ASSUME NEW p \in Programs, NEW t \in Threads, call[p][t].op \in KnowsId
        PROVE  WillOwn(p, call[p][t].arg)
    BY <1>3, <2>2, CallIsTyped DEF OwnIds
  <2> QED
    BY <1>5, <2>1, <2>2 DEF OwnIds, OwnId, WillOwn
<1>6. ASSUME NEW p \in Programs, NEW t \in Threads, NEW next \in CallState,
             Go(p, t, next), next.op \notin KnowsId, UNCHANGED keyEventHookId
      PROVE  OwnIds'
  BY <1>1, <1>6, OwnIdsGo
<1>7. ASSUME NEW p \in Programs, AddHook(p)
      PROVE  OwnIds'
  <2>1. Call("add", 0) \in CallState /\ Call("add", 0).op \notin KnowsId
    BY CallsAreTyped, OpsAreOps DEF Call, KnowsId
  <2> QED
    BY <1>2, <1>6, <1>7, <2>1 DEF AddHook
<1>8. ASSUME NEW p \in Programs, RemoveHook(p)
      PROVE  OwnIds'
  <2>1. keyEventHookId[p] \in Int /\ WillOwn(p, keyEventHookId[p])
    BY <1>3 DEF SysTypeOK, OwnIds
  <2>2. Call("remove", keyEventHookId[p]) \in CallState
    BY <2>1, CallsAreTyped, OpsAreOps
  <2>3. Call("remove", keyEventHookId[p]).arg = keyEventHookId[p]
    BY DEF Call
  <2>4. WillOwn(p, Call("remove", keyEventHookId[p]).arg)
    BY <2>1, <2>3
  <2>5. Go(p, "app", Call("remove", keyEventHookId[p])) /\ UNCHANGED keyEventHookId
    BY <1>8 DEF RemoveHook, callbacks
  <2> QED
    BY <1>1, <1>2, <2>2, <2>4, <2>5, OwnIdsGo
<1>9. ASSUME NEW p \in Programs, NEW t \in Threads, NEW n \in 1 .. MaxEvents,
             PassOn(p, t, n)
      PROVE  OwnIds'
  <2>1. Call("pass", n) \in CallState /\ Call("pass", n).op \notin KnowsId
    BY CallsAreTyped, OpsAreOps DEF Call, KnowsId
  <2> QED
    BY <1>5, <1>6, <1>9, <2>1 DEF PassOn, callbacks
<1>10. Idle \in CallState /\ Idle.op \notin KnowsId
  BY CallsAreTyped DEF Idle, KnowsId
<1>11. ASSUME NEW p \in Programs, AddFails(p) \/ RemoveReturns(p)
       PROVE  OwnIds'
  <2>1. Go(p, "app", Idle)
        /\ keyEventHookId' = [keyEventHookId EXCEPT ![p] = NoHook]
    BY <1>11 DEF AddFails, RemoveReturns
  <2>2. NoHook \in Int
    BY DEF NoHook
  <2> QED
    BY <1>1, <1>2, <1>4, <1>10, <2>1, <2>2, OwnIdsLearn
<1>12. ASSUME NEW p \in Programs, NEW t \in Threads, IsIn(p, t, "added")
       PROVE  WillOwn(p, call[p][t].arg) /\ call[p][t].arg \in Int
  <2>1. call[p][t].arg \in Int
    BY CallIsTyped
  <2>2. OwnId(p, call[p][t].arg)
    BY <1>12 DEF OwnIds, IsIn, KnowsId
  <2> QED
    BY <1>3, <2>1, <2>2
<1>13. ASSUME NEW p \in Programs, AddReturns(p)
       PROVE  OwnIds'
  <2>1. IsIn(p, "app", "added") /\ Go(p, "app", Idle)
        /\ keyEventHookId' = [keyEventHookId EXCEPT ![p] = call[p]["app"].arg]
    BY <1>13 DEF AddReturns
  <2> DEFINE id == call[p]["app"].arg
  <2>2. id \in Int /\ WillOwn(p, id)
    BY <1>2, <1>12, <2>1
  <2> QED
    BY <1>1, <1>2, <1>10, <2>1, <2>2, OwnIdsLearn
<1>14. ASSUME NEW p \in Programs, NEW t \in Threads, PassReturns(p, t)
       PROVE  OwnIds'
  BY <1>6, <1>10, <1>14 DEF PassReturns, callbacks
<1>15. ASSUME NEW p \in Programs, Reconnect(p) \/ OnConnected(p)
       PROVE  OwnIds'
  <2>1. \E next \in CallState :
          Go(p, "event", next) /\ next.op \notin KnowsId
    <3>1. Call("connected", 0) \in CallState /\ Call("add", 0) \in CallState
      BY CallsAreTyped, OpsAreOps
    <3>2. Call("connected", 0).op \notin KnowsId /\ Call("add", 0).op \notin KnowsId
      BY DEF Call, KnowsId
    <3> QED
      BY <1>10, <1>15, <3>1, <3>2 DEF Reconnect, OnConnected
  <2> QED
    BY <1>2, <1>6, <1>15, <2>1 DEF Reconnect, OnConnected, callbacks
<1>16. ASSUME NEW p \in Programs, ReAddReturns(p)
       PROVE  OwnIds'
  <2>1. Go(p, "event", Idle)
    BY <1>16 DEF ReAddReturns
  <2>2. CASE UNCHANGED keyEventHookId
    BY <1>2, <1>6, <1>10, <2>1, <2>2
  <2>3. CASE IsIn(p, "event", "added")
             /\ keyEventHookId' = [keyEventHookId EXCEPT ![p] = call[p]["event"].arg]
    <3>1. WillOwn(p, call[p]["event"].arg) /\ call[p]["event"].arg \in Int
      BY <1>2, <1>12, <2>3
    <3> QED
      BY <1>1, <1>2, <1>10, <2>1, <2>3, <3>1, OwnIdsLearn
  <2>4. [keyEventHookId EXCEPT ![p] = keyEventHookId[p]] = keyEventHookId
    BY DEF SysTypeOK
  <2> QED
    BY <1>16, <2>2, <2>3, <2>4 DEF ReAddReturns
<1>17. ASSUME NEW p \in Programs, ServeRemove(p)
       PROVE  OwnIds'
  <2> DEFINE h == call[p]["app"].arg
  <2>1. h \in Int /\ OwnId(p, h)
    BY <1>2, <1>17, CallIsTyped DEF ServeRemove, IsIn, OwnIds, KnowsId
  <2>2. Call("removed", h) \in CallState /\ Call("removed", h).arg = h
    BY <2>1, CallsAreTyped, OpsAreOps DEF Call
  <2>3. WillOwn(p, Call("removed", h).arg)
    BY <1>3, <2>1, <2>2
  <2>4. UNCHANGED keyEventHookId
    BY <1>17 DEF ServeRemove, callbacks
  <2>5. Go(p, "app", Call("removed", h)) \/ Go(p, "app", Idle)
    BY <1>17 DEF ServeRemove
  <2>6. CASE Go(p, "app", Call("removed", h))
    BY <1>1, <1>2, <2>2, <2>3, <2>4, <2>6, OwnIdsGo
  <2>7. CASE Go(p, "app", Idle)
    BY <1>2, <1>6, <1>10, <2>4, <2>7
  <2> QED
    BY <2>5, <2>6, <2>7
<1>18. ASSUME NEW p \in Programs, NEW t \in Threads, ServeAdd(p, t)
       PROVE  OwnIds'
  <2>1. UNCHANGED keyEventHookId
    BY <1>18 DEF ServeAdd, callbacks
  <2>2. ASSUME NEW h \in HookIds, AddKeyEventHook(p, h), Go(p, t, Call("added", h))
        PROVE  OwnIds'
    <3>1. h \in Int /\ h = globalHookId /\ globalHookId' = h + 1
          /\ hooks_' = [hooks_ EXCEPT ![h] = p]
      BY <2>2 DEF AddKeyEventHook, PrependHook, HookIds
    <3>2. Call("added", h) \in CallState /\ Call("added", h).arg = h
      BY <3>1, CallsAreTyped, OpsAreOps DEF Call
    <3>3. WillOwn(p, Call("added", h).arg)
      BY <3>1, <3>2 DEF WillOwn, Hooks, TypeOK
    <3> QED
      BY <1>1, <2>1, <2>2, <3>2, <3>3, OwnIdsGo
  <2>3. CASE Go(p, t, Call("addFailed", 0))
    <3>1. Call("addFailed", 0) \in CallState /\ Call("addFailed", 0).op \notin KnowsId
      BY CallsAreTyped, OpsAreOps DEF Call, KnowsId
    <3> QED
      BY <1>6, <2>1, <2>3, <3>1
  <2> QED
    BY <1>18, <2>2, <2>3 DEF ServeAdd
<1>19. ASSUME NEW p \in Programs, NEW t \in Threads, ServePass(p, t)
       PROVE  OwnIds'
  <2>1. call[p][t].arg \in Int
    BY CallIsTyped
  <2>2. Call("passed", call[p][t].arg) \in CallState
        /\ Call("passed", call[p][t].arg).op \notin KnowsId
    <3>1. Call("passed", call[p][t].arg).op \notin KnowsId
      BY DEF Call, KnowsId
    <3> QED
      BY <2>1, <3>1, CallsAreTyped, OpsAreOps
  <2> QED
    BY <1>6, <1>10, <1>19, <2>2 DEF ServePass, callbacks
<1>20. CASE UNCHANGED sysVars \/ ServerStep \/ \E p \in Programs : OnKeyEvent(p)
  BY <1>5, <1>20 DEF sysVars, library, callbacks, ServerStep, OnKeyEvent
<1> QED
  BY <1>2, <1>7, <1>8, <1>9, <1>11, <1>13, <1>14, <1>15, <1>16, <1>17, <1>18, <1>19,
     <1>20 DEF SysNext, SysStep, AppThread, EventThread, Serve

-----------------------------------------------------------------------------
(* Agreement.                                                              *)

InHookCall(p, t) == call[p][t].op \in OnHooks
InNoHookCall(p) == ~InHookCall(p, "app") /\ ~InHookCall(p, "event")
AddsHook(p) == IsIn(p, "app", "add") \/ IsIn(p, "app", "added") \/ IsIn(p, "app", "addFailed")

\* What a call of the program, or of the library when it adds the hook again,
\* knows of the hook of p until it returns.
CallAgrees(p, t) ==
  /\ IsIn(p, t, "connected") => p \in connected /\ HookOf(p) = {}
  /\ IsIn(p, t, "add") => appCallback[p] /\ HookOf(p) = {}
  /\ IsIn(p, t, "added") => appCallback[p] /\ HookOf(p) = {call[p][t].arg}
  /\ IsIn(p, t, "addFailed") => t = "app" /\ HookOf(p) = {}
  /\ IsIn(p, t, "remove") => appCallback[p] /\ HookOf(p) \subseteq {call[p][t].arg}
  /\ IsIn(p, t, "removed") => HookOf(p) = {}

Agreed(p) ==
  /\ ~(InHookCall(p, "app") /\ InHookCall(p, "event"))
  /\ hookCallback_[p] = appCallback[p]
  /\ appCallback[p] /\ ~AddsHook(p) => hookIdUpdater_[p]
  /\ InNoHookCall(p) =>
       /\ HookOf(p) \subseteq {keyEventHookId[p]}
       /\ p \in connected => appCallback[p] = (HookOf(p) # {})
  /\ CallAgrees(p, "app") /\ CallAgrees(p, "event")
  /\ IsIn(p, "event", "add") => p \in connected

Agreement == \A p \in Programs \ crossed : Agreed(p)

\* What a step leaves alone of p.
LibraryKept(p) ==
  /\ call'[p] = call[p] /\ keyEventHookId'[p] = keyEventHookId[p]
  /\ appCallback'[p] = appCallback[p] /\ hookCallback_'[p] = hookCallback_[p]
  /\ hookIdUpdater_'[p] = hookIdUpdater_[p]
HooksKept(p) == HookOf(p)' = HookOf(p) /\ (p \in connected' <=> p \in connected)

LEMMA AgreedKept ==
  ASSUME NEW p \in Programs, Agreed(p), LibraryKept(p), HooksKept(p)
  PROVE  Agreed(p)'
BY DEF Agreed, CallAgrees, InNoHookCall, InHookCall, AddsHook, IsIn, LibraryKept,
       HooksKept

\* The session of p is lost while no call on its hook is under way.
LEMMA AgreedWhenLost ==
  ASSUME NEW p \in Programs, Agreed(p), LibraryKept(p), InNoHookCall(p),
         p \notin connected', HookOf(p)' = {}
  PROVE  Agreed(p)'
BY DEF Agreed, CallAgrees, InNoHookCall, InHookCall, AddsHook, IsIn, LibraryKept,
       OnHooks

\* The calls of another process leave the hook of p alone.
LEMMA HooksOfOthersKept ==
  ASSUME TypeOK, NewIds, SysTypeOK, OwnIds, NEW r \in Programs, NEW p \in Programs \ {r},
         Serve(r) \/ Reconnect(r)
  PROVE  HooksKept(p)
<1>1. r \in Pids /\ p \in Pids /\ p # r
  BY ClientAssumption
<1>2. ASSUME NEW t \in Threads, ServeAdd(r, t)
      PROVE  HooksKept(p)
  <2>1. CASE UNCHANGED server
    BY <2>1 DEF server, vars, HooksKept, HookOf, Hooks
  <2>2. ASSUME NEW h, AddKeyEventHook(r, h)
        PROVE  HooksKept(p)
    BY <1>1, <2>2, AddEffect DEF HooksKept
  <2> QED
    BY <1>2, <2>1, <2>2 DEF ServeAdd
<1>3. CASE ServeRemove(r)
  <2> DEFINE h == call[r]["app"].arg
  <2>1. CASE UNCHANGED server
    BY <2>1 DEF server, vars, HooksKept, HookOf, Hooks
  <2>2. CASE RemoveKeyEventHook(r, h)
    <3>1. h \in Hooks /\ h \in HookIds /\ DropHook(h) /\ UNCHANGED connected
      BY <2>2 DEF RemoveKeyEventHook, Hooks
    <3>2. hooks_[h] = r
      BY <1>3, <3>1 DEF ServeRemove, IsIn, OwnIds, OwnId, KnowsId, Threads
    <3> QED
      BY <1>1, <3>1, <3>2, DropEffect DEF HooksKept, HookOf
  <2> QED
    BY <1>3, <2>1, <2>2 DEF ServeRemove
<1>4. ASSUME NEW t \in Threads, ServePass(r, t)
      PROVE  HooksKept(p)
  <2>1. UNCHANGED <<hooks_, connected>>
    BY <1>4 DEF ServePass, DispatchToNextHandler, server, vars
  <2> QED
    BY <2>1 DEF HooksKept, HookOf, Hooks
<1>5. CASE Reconnect(r)
  <2>1. connected' = connected \union {r} /\ UNCHANGED hooks_
    BY <1>5 DEF Reconnect, Connect
  <2> QED
    BY <1>1, <2>1 DEF HooksKept, HookOf, Hooks
<1> QED
  BY <1>2, <1>3, <1>4, <1>5 DEF Serve

\* The service and the other processes leave the hook of p alone, or p loses its
\* session and its hook.
LEMMA ServerStepHooks ==
  ASSUME TypeOK, NewIds, HookSessions, ServerStep, NEW p \in Programs
  PROVE  \/ HooksKept(p)
         \/ p \in connected /\ p \notin connected' /\ HookOf(p)' = {}
<1>1. p \in Pids
  BY ClientAssumption
<1>2. CASE UNCHANGED <<hooks_, connected>>
  BY <1>2 DEF HooksKept, HookOf, Hooks
<1>3. ASSUME NEW q \in Pids, OnSessionLost(q)
      PROVE  \/ HooksKept(p)
             \/ p \in connected /\ p \notin connected' /\ HookOf(p)' = {}
  <2>1. q \in connected /\ connected' = connected \ {q}
    BY <1>3 DEF OnSessionLost
  <2>2. CASE HookOf(q) = {} /\ UNCHANGED hooks_
    BY <2>1, <2>2 DEF HooksKept, HookOf, Hooks
  <2>3. ASSUME NEW h \in HookOf(q), DropHook(h)
        PROVE  \/ HooksKept(p)
               \/ p \in connected /\ p \notin connected' /\ HookOf(p)' = {}
    <3>1. HookOf(p)' = HookOf(p) \ {h}
      BY <1>1, <2>3, DropEffect DEF HookOf, Hooks
    <3>2. CASE q = p
      <4>1. HookOf(p) = {h}
        BY <1>1, <2>3, <3>2 DEF HookSessions
      <4> QED
        BY <2>1, <3>1, <3>2, <4>1
    <3>3. CASE q # p
      <4>1. h \notin HookOf(p)
        BY <2>3, <3>3 DEF HookOf
      <4> QED
        BY <2>1, <3>1, <3>3, <4>1 DEF HooksKept
    <3> QED
      BY <3>2, <3>3
  <2> QED
    BY <1>3, <2>2, <2>3 DEF OnSessionLost
<1>4. ASSUME NEW q \in Pids \ Programs, OtherProcess(q)
      PROVE  HooksKept(p)
  <2>1. q # p
    OBVIOUS
  <2>2. CASE Connect(q)
    BY <2>1, <2>2 DEF Connect, HooksKept, HookOf, Hooks
  <2>3. ASSUME NEW h \in HookIds, AddKeyEventHook(q, h)
        PROVE  HooksKept(p)
    BY <1>1, <2>1, <2>3, AddEffect DEF HooksKept
  <2>4. ASSUME NEW h \in HookOf(q), RemoveKeyEventHook(q, h)
        PROVE  HooksKept(p)
    <3>1. h \in HookIds /\ h \notin HookOf(p)
      BY <2>1 DEF HookOf, Hooks
    <3> QED
      BY <1>1, <2>4, <3>1, DropEffect DEF RemoveKeyEventHook, HooksKept
  <2>5. ASSUME NEW n \in 1 .. MaxEvents, NEW ret \in Results,
               DispatchToNextHandler(q, n, ret)
        PROVE  HooksKept(p)
    BY <2>5 DEF DispatchToNextHandler, HooksKept, HookOf, Hooks
  <2> QED
    BY <1>4, <2>2, <2>3, <2>4, <2>5 DEF OtherProcess
<1>5. CASE Tick \/ \E k \in Keys, a \in Actions : HandleKeyEvent(k, a)
  BY <1>2, <1>5 DEF Tick, HandleKeyEvent, NewEvent
<1> QED
  BY <1>3, <1>4, <1>5 DEF ServerStep

LEMMA GoOthers ==
  ASSUME SysTypeOK, NEW r \in Programs, NEW p \in Programs \ {r}, NEW t, NEW next,
         Go(r, t, next)
  PROVE  call'[p] = call[p]
BY DEF SysTypeOK, Go

LEMMA GoOwn ==
  ASSUME SysTypeOK, NEW p \in Programs, NEW t \in Threads, NEW next, Go(p, t, next)
  PROVE  /\ call'[p][t] = next
         /\ \A u \in Threads \ {t} : call'[p][u] = call[p][u]
BY DEF SysTypeOK, Go

\* What the processes of a step do not leave alone is their own.
LEMMA LibraryOfOthersKept ==
  ASSUME SysTypeOK, NEW r \in Programs, NEW p \in Programs \ {r},
         \/ AddHook(r) \/ RemoveHook(r)
         \/ \E t \in Threads, n \in 1 .. MaxEvents : PassOn(r, t, n)
         \/ AppThread(r) \/ EventThread(r) \/ Serve(r)
  PROVE  LibraryKept(p)
<1> USE DEF LibraryKept
<1>1. CASE UNCHANGED callbacks /\ call'[p] = call[p]
  BY <1>1 DEF callbacks
<1>2. CASE AddHook(r) \/ RemoveHook(r)
  BY <1>1, <1>2, GoOthers DEF AddHook, RemoveHook, SysTypeOK
<1>3. CASE \E t \in Threads, n \in 1 .. MaxEvents : PassOn(r, t, n)
  BY <1>1, <1>3, GoOthers DEF PassOn
<1>4. CASE \E t \in Threads : PassReturns(r, t)
  BY <1>1, <1>4, GoOthers DEF PassReturns
<1>5. CASE AddFails(r) \/ AddReturns(r) \/ RemoveReturns(r)
  <2>1. call'[p] = call[p]
    BY <1>5, GoOthers DEF AddFails, AddReturns, RemoveReturns
  <2> QED
    BY <1>5, <2>1 DEF AddFails, AddReturns, RemoveReturns, SysTypeOK
<1>6. CASE OnKeyEvent(r) \/ Reconnect(r) \/ OnConnected(r)
  BY <1>1, <1>6, GoOthers DEF OnKeyEvent, Reconnect, OnConnected
<1>7. CASE ReAddReturns(r)
  <2>1. call'[p] = call[p]
    BY <1>7, GoOthers DEF ReAddReturns
  <2> QED
    BY <1>7, <2>1 DEF ReAddReturns, SysTypeOK
<1>8. CASE Serve(r)
  BY <1>1, <1>8, GoOthers DEF Serve, ServeAdd, ServeRemove, ServePass
<1> QED
  BY <1>2, <1>3, <1>4, <1>5, <1>6, <1>7, <1>8 DEF AppThread, EventThread, Threads

LEMMA AgreementInit == SysInit => Agreement
<1> SUFFICES ASSUME SysInit, NEW p \in Programs
             PROVE  Agreed(p)
  BY DEF Agreement
<1>1. Hooks = {}
  BY DEF SysInit, Init, Hooks
<1>2. HookOf(p) = {}
  BY <1>1 DEF HookOf
<1>3. call[p]["app"].op = "idle" /\ call[p]["event"].op = "idle"
  BY DEF SysInit, Idle, Threads
<1>4. hookCallback_[p] = FALSE /\ appCallback[p] = FALSE
  BY DEF SysInit
<1> QED
  BY <1>2, <1>3, <1>4
     DEF Agreed, CallAgrees, InNoHookCall, InHookCall, AddsHook, IsIn, OnHooks

\* A process without a session has no hook.
LEMMA NoHookWhenQuiet ==
  ASSUME HookSessions, NEW p \in Programs, Agreed(p), InNoHookCall(p), ~appCallback[p]
  PROVE  HookOf(p) = {}
BY ClientAssumption DEF HookSessions, Agreed

\* The steps of the program.
LEMMA AgreedApp ==
  ASSUME TypeOK, HookSessions, SysTypeOK, NEW p \in Programs, Agreed(p),
         AddHook(p) \/ RemoveHook(p) \/ AddFails(p) \/ AddReturns(p) \/ RemoveReturns(p),
         ~(InHookCall(p, "app")' /\ InHookCall(p, "event")')
  PROVE  Agreed(p)'
<1>1. HooksKept(p)
  BY DEF AddHook, RemoveHook, AddFails, AddReturns, RemoveReturns, server, vars,
         HooksKept, HookOf, Hooks
<1>2. call'[p]["event"] = call[p]["event"]
  BY GoOwn DEF AddHook, RemoveHook, AddFails, AddReturns, RemoveReturns, Threads
<1>3. CASE AddHook(p)
  <2>1. call'[p]["app"] = Call("add", 0)
    BY <1>3, GoOwn DEF AddHook, Threads
  <2>2. /\ appCallback'[p] = TRUE /\ hookCallback_'[p] = TRUE /\ ~appCallback[p]
        /\ call[p]["app"].op = "idle"
    BY <1>3 DEF AddHook, SysTypeOK, IsIn
  <2>3. call'[p]["app"].op = "add" /\ call[p]["event"].op \notin OnHooks
    BY <1>2, <2>1 DEF Call, InHookCall, OnHooks
  <2>4. HookOf(p)' = {}
    BY <1>1, <2>2, <2>3, NoHookWhenQuiet DEF HooksKept, InNoHookCall, InHookCall, OnHooks
  <2> QED
    BY <1>2, <2>2, <2>3, <2>4
       DEF Agreed, CallAgrees, InNoHookCall, InHookCall, AddsHook, IsIn, OnHooks
<1>4. CASE RemoveHook(p)
  <2>1. call'[p]["app"] = Call("remove", keyEventHookId[p]) /\ UNCHANGED callbacks
    BY <1>4, GoOwn DEF RemoveHook, Threads
  <2>2. appCallback[p] /\ call[p]["app"].op = "idle"
    BY <1>4 DEF RemoveHook, IsIn
  <2>3. /\ call'[p]["app"].op = "remove" /\ call'[p]["app"].arg = keyEventHookId[p]
        /\ call[p]["event"].op \notin OnHooks
    BY <1>2, <2>1 DEF Call, InHookCall, OnHooks
  <2>4. HookOf(p)' \subseteq {keyEventHookId[p]} /\ hookCallback_[p] = appCallback[p]
        /\ hookIdUpdater_[p]
    BY <1>1, <2>2, <2>3 DEF HooksKept, Agreed, AddsHook, IsIn, InNoHookCall, InHookCall,
                           OnHooks
  <2> QED
    BY <1>2, <2>1, <2>2, <2>3, <2>4
       DEF Agreed, CallAgrees, InNoHookCall, InHookCall, AddsHook, IsIn, OnHooks,
           callbacks
<1>5. CASE AddFails(p) \/ RemoveReturns(p)
  <2>1. call'[p]["app"].op = "idle"
    BY <1>5, GoOwn DEF AddFails, RemoveReturns, Threads, Idle
  <2>2. appCallback'[p] = FALSE /\ hookCallback_'[p] = FALSE
    BY <1>5 DEF AddFails, RemoveReturns, SysTypeOK
  <2>3. HookOf(p)' = {} /\ call[p]["event"].op \notin OnHooks
    BY <1>1, <1>5 DEF AddFails, RemoveReturns, HooksKept, Agreed, CallAgrees, IsIn,
                      InHookCall, OnHooks
  <2> QED
    BY <1>2, <2>1, <2>2, <2>3
       DEF Agreed, CallAgrees, InNoHookCall, InHookCall, AddsHook, IsIn, OnHooks
<1>6. CASE AddReturns(p)
  <2>1. call'[p]["app"].op = "idle" /\ UNCHANGED <<appCallback, hookCallback_>>
    BY <1>6, GoOwn DEF AddReturns, Threads, Idle
  <2>2. keyEventHookId'[p] = call[p]["app"].arg /\ hookIdUpdater_'[p] = TRUE
    BY <1>6 DEF AddReturns, SysTypeOK
  <2>3. /\ HookOf(p)' = {call[p]["app"].arg} /\ call[p]["event"].op \notin OnHooks
        /\ appCallback[p] /\ hookCallback_[p] = appCallback[p]
    BY <1>1, <1>6 DEF AddReturns, HooksKept, Agreed, CallAgrees, IsIn, InHookCall, OnHooks
  <2>4. appCallback[p] = TRUE
    BY <2>3 DEF SysTypeOK
  <2> QED
    BY <1>2, <2>1, <2>2, <2>3, <2>4
       DEF Agreed, CallAgrees, InNoHookCall, InHookCall, AddsHook, IsIn, OnHooks
<1> QED
  BY <1>3, <1>4, <1>5, <1>6

\* Steps of calls that are not on hooks.
LEMMA AgreedElsewhere ==
  ASSUME NEW p \in Programs, Agreed(p), HooksKept(p), UNCHANGED callbacks,
         \A t \in Threads : \/ call'[p][t] = call[p][t]
                            \/ ~InHookCall(p, t) /\ ~InHookCall(p, t)'
  PROVE  Agreed(p)'
<1>1. ASSUME NEW t \in Threads
      PROVE  /\ InHookCall(p, t)' <=> InHookCall(p, t)
             /\ InHookCall(p, t) => call'[p][t] = call[p][t]
  BY DEF InHookCall
<1>2. ASSUME NEW t \in Threads, NEW op \in OnHooks
      PROVE  IsIn(p, t, op)' <=> IsIn(p, t, op)
  BY <1>1 DEF IsIn, InHookCall
<1>3. \A t \in Threads : CallAgrees(p, t) => CallAgrees(p, t)'
  <2> SUFFICES ASSUME NEW t \in Threads, CallAgrees(p, t)
               PROVE  CallAgrees(p, t)'
    OBVIOUS
  <2>1. CASE call'[p][t] = call[p][t]
    BY <2>1 DEF CallAgrees, HooksKept, IsIn, callbacks
  <2>2. CASE ~InHookCall(p, t)'
    BY <2>2 DEF CallAgrees, InHookCall, IsIn, OnHooks
  <2> QED
    BY <2>1, <2>2
<1>4. AddsHook(p)' <=> AddsHook(p)
  BY <1>2 DEF AddsHook, OnHooks, Threads
<1>5. "app" \in Threads /\ "event" \in Threads /\ "add" \in OnHooks
  BY DEF Threads, OnHooks
<1>6. InNoHookCall(p)' <=> InNoHookCall(p)
  BY <1>1, <1>5 DEF InNoHookCall
<1> QED
  BY <1>1, <1>2, <1>3, <1>4, <1>5, <1>6 DEF Agreed, HooksKept, callbacks

LEMMA AgreedPassing ==
  ASSUME SysTypeOK, NEW p \in Programs, Agreed(p),
         \/ \E t \in Threads, n \in 1 .. MaxEvents : PassOn(p, t, n)
         \/ \E t \in Threads : PassReturns(p, t) \/ ServePass(p, t)
         \/ OnKeyEvent(p)
  PROVE  Agreed(p)'
<1>1. UNCHANGED <<hooks_, connected>>
  BY DEF PassOn, PassReturns, ServePass, OnKeyEvent, DispatchToNextHandler, server, vars
<1>2. HooksKept(p)
  BY <1>1 DEF HooksKept, HookOf, Hooks
<1>3. UNCHANGED callbacks
  BY DEF PassOn, PassReturns, ServePass, OnKeyEvent
<1>4. ASSUME NEW u \in Threads
      PROVE  \/ call'[p][u] = call[p][u]
             \/ ~InHookCall(p, u) /\ ~InHookCall(p, u)'
  <2>1. ASSUME NEW t \in Threads, NEW next,
               Go(p, t, next), call[p][t].op \notin OnHooks, next.op \notin OnHooks
        PROVE  \/ call'[p][u] = call[p][u]
               \/ ~InHookCall(p, u) /\ ~InHookCall(p, u)'
    BY <2>1, GoOwn DEF InHookCall
  <2>2. Idle.op \notin OnHooks
        /\ \A n : Call("pass", n).op \notin OnHooks /\ Call("passed", n).op \notin OnHooks
    BY DEF Idle, Call, OnHooks
  <2>3. CASE UNCHANGED call
    BY <2>3
  <2>4. CASE \E t \in Threads, n \in 1 .. MaxEvents : PassOn(p, t, n)
    <3>1. PICK t \in Threads, n \in 1 .. MaxEvents : PassOn(p, t, n)
      BY <2>4
    <3>2. call[p][t].op \notin OnHooks
      BY <3>1 DEF PassOn, IsIn, OnHooks
    <3> QED
      BY <2>1, <2>2, <2>3, <3>1, <3>2 DEF PassOn
  <2>5. CASE \E t \in Threads : PassReturns(p, t) \/ ServePass(p, t)
    <3>1. PICK t \in Threads : PassReturns(p, t) \/ ServePass(p, t)
      BY <2>5
    <3>2. call[p][t].op \notin OnHooks
      BY <3>1 DEF PassReturns, ServePass, IsIn, OnHooks
    <3>3. \/ Go(p, t, Idle)
          \/ Go(p, t, Call("passed", call[p][t].arg))
      BY <3>1 DEF PassReturns, ServePass
    <3> QED
      BY <2>1, <2>2, <3>2, <3>3
  <2> QED
    BY <2>3, <2>4, <2>5 DEF OnKeyEvent
<1> QED
  BY <1>2, <1>3, <1>4, AgreedElsewhere

\* The steps of the library's own calls.
LEMMA AgreedEvent ==
  ASSUME TypeOK, HookSessions, SysTypeOK, NEW p \in Programs, Agreed(p),
         Reconnect(p) \/ OnConnected(p) \/ ReAddReturns(p),
         ~(InHookCall(p, "app")' /\ InHookCall(p, "event")')
  PROVE  Agreed(p)'
<1>1. call'[p]["app"] = call[p]["app"] /\ UNCHANGED <<appCallback, hookIdUpdater_>>
  BY GoOwn DEF Reconnect, OnConnected, ReAddReturns, Threads, callbacks
<1>2. HookOf(p)' = HookOf(p)
  BY DEF Reconnect, OnConnected, ReAddReturns, Connect, server, vars, HookOf, Hooks
<1>3. CASE Reconnect(p)
  <2>1. call'[p]["event"].op = "connected" /\ UNCHANGED callbacks
    BY <1>3, GoOwn DEF Reconnect, Threads, Call
  <2>2. p \notin connected /\ p \in connected'
    BY <1>3 DEF Reconnect, Connect
  <2>3. HookOf(p) = {}
    BY <2>2, ClientAssumption DEF HookSessions
  <2>4. call[p]["app"].op \notin OnHooks
    BY <1>1, <2>1 DEF InHookCall, OnHooks
  <2> QED
    BY <1>1, <1>2, <2>1, <2>2, <2>3, <2>4
       DEF Agreed, CallAgrees, InNoHookCall, InHookCall, AddsHook, IsIn, OnHooks,
           callbacks
<1>4. CASE OnConnected(p)
  <2>1. UNCHANGED callbacks /\ UNCHANGED connected
    BY <1>4 DEF OnConnected, server, vars
  <2>2. /\ p \in connected /\ HookOf(p) = {} /\ call[p]["app"].op \notin OnHooks
        /\ hookCallback_[p] = appCallback[p]
    BY <1>4 DEF OnConnected, Agreed, CallAgrees, IsIn, InHookCall, OnHooks
  <2>3. call'[p]["event"] = IF hookCallback_[p] THEN Call("add", 0) ELSE Idle
    BY <1>4, GoOwn DEF OnConnected, Threads
  <2>4. CASE hookCallback_[p]
    <3>1. call'[p]["event"].op = "add" /\ appCallback[p]
      BY <2>2, <2>3, <2>4 DEF Call
    <3> QED
      BY <1>1, <1>2, <2>1, <2>2, <3>1
         DEF Agreed, CallAgrees, InNoHookCall, InHookCall, AddsHook, IsIn, OnHooks,
             callbacks
  <2>5. CASE ~hookCallback_[p]
    <3>1. call'[p]["event"].op = "idle" /\ appCallback[p] = FALSE
      BY <2>2, <2>3, <2>5 DEF Idle, SysTypeOK
    <3> QED
      BY <1>1, <1>2, <2>1, <2>2, <3>1
         DEF Agreed, CallAgrees, InNoHookCall, InHookCall, AddsHook, IsIn, OnHooks,
             callbacks
  <2> QED
    BY <2>4, <2>5
<1>5. CASE ReAddReturns(p)
  <2>1. IsIn(p, "event", "added")
    BY <1>5 DEF ReAddReturns, Agreed, CallAgrees
  <2>2. call'[p]["event"].op = "idle" /\ UNCHANGED <<hookCallback_, connected>>
    BY <1>5, <2>1, GoOwn DEF ReAddReturns, Threads, Idle, IsIn, server, vars
  <2>3. /\ HookOf(p) = {call[p]["event"].arg} /\ call[p]["app"].op \notin OnHooks
        /\ hookCallback_[p] = appCallback[p] /\ appCallback[p]
    BY <2>1 DEF Agreed, CallAgrees, InHookCall, OnHooks, IsIn
  <2>4. hookIdUpdater_[p] /\ appCallback[p] = TRUE
    BY <2>3 DEF Agreed, AddsHook, IsIn, OnHooks, SysTypeOK
  <2>5. keyEventHookId'[p] = call[p]["event"].arg
    BY <1>5, <2>1, <2>4 DEF ReAddReturns, IsIn, SysTypeOK
  <2> QED
    BY <1>1, <1>2, <2>2, <2>3, <2>4, <2>5
       DEF Agreed, CallAgrees, InNoHookCall, InHookCall, AddsHook, IsIn, OnHooks
<1> QED
  BY <1>3, <1>4, <1>5

\* The service serves a call on the hook of p.
LEMMA AgreedServed ==
  ASSUME TypeOK, NewIds, HookSessions, SysTypeOK, NEW p \in Programs, Agreed(p),
         ServeRemove(p) \/ \E t \in Threads : ServeAdd(p, t),
         ~(InHookCall(p, "app")' /\ InHookCall(p, "event")')
  PROVE  Agreed(p)'
<1>1. UNCHANGED callbacks /\ p \in Pids
  BY ClientAssumption DEF ServeRemove, ServeAdd
<1>2. UNCHANGED connected
  BY DEF ServeRemove, ServeAdd, RemoveKeyEventHook, AddKeyEventHook, server, vars
<1>3. CASE ServeAdd(p, "app")
  <2>1. /\ call[p]["app"].op = "add" /\ appCallback[p] /\ HookOf(p) = {}
        /\ hookCallback_[p] = appCallback[p] /\ call[p]["event"].op \notin OnHooks
    BY <1>3 DEF ServeAdd, Agreed, CallAgrees, IsIn, InHookCall, OnHooks
  <2>2. call'[p]["event"] = call[p]["event"]
    BY <1>3, GoOwn DEF ServeAdd, Threads
  <2>3. \/ \E h : /\ HookOf(p)' = {h}
                  /\ call'[p]["app"].op = "added" /\ call'[p]["app"].arg = h
        \/ HookOf(p)' = {} /\ call'[p]["app"].op = "addFailed"
    <3>1. ASSUME NEW h \in HookIds, AddKeyEventHook(p, h), Go(p, "app", Call("added", h))
          PROVE  /\ HookOf(p)' = {h}
                 /\ call'[p]["app"].op = "added" /\ call'[p]["app"].arg = h
      BY <1>1, <3>1, AddEffect, GoOwn DEF Call, Threads
    <3>2. ASSUME UNCHANGED server, Go(p, "app", Call("addFailed", 0))
          PROVE  HookOf(p)' = {} /\ call'[p]["app"].op = "addFailed"
      BY <2>1, <3>2, GoOwn DEF Call, Threads, server, vars, HookOf, Hooks
    <3> QED
      BY <1>3, <3>1, <3>2 DEF ServeAdd
  <2> QED
    BY <1>1, <1>2, <2>1, <2>2, <2>3
       DEF Agreed, CallAgrees, InNoHookCall, InHookCall, AddsHook, IsIn, OnHooks,
           callbacks
<1>4. CASE ServeAdd(p, "event")
  <2>1. /\ call[p]["event"].op = "add" /\ appCallback[p] /\ HookOf(p) = {}
        /\ p \in connected
        /\ hookCallback_[p] = appCallback[p] /\ call[p]["app"].op \notin OnHooks
    BY <1>4 DEF ServeAdd, Agreed, CallAgrees, IsIn, InHookCall, OnHooks
  <2>2. call'[p]["app"] = call[p]["app"]
    BY <1>4, GoOwn DEF ServeAdd, Threads
  <2>3. PICK h \in HookIds : AddKeyEventHook(p, h) /\ Go(p, "event", Call("added", h))
    BY <1>4, <2>1 DEF ServeAdd, CanAdd
  <2>4. /\ HookOf(p)' = {h}
        /\ call'[p]["event"].op = "added" /\ call'[p]["event"].arg = h
    BY <1>1, <2>3, AddEffect, GoOwn DEF Call, Threads
  <2>5. hookIdUpdater_[p]
    BY <2>1 DEF Agreed, AddsHook, IsIn, OnHooks
  <2> QED
    BY <1>1, <1>2, <2>1, <2>2, <2>4, <2>5
       DEF Agreed, CallAgrees, InNoHookCall, InHookCall, AddsHook, IsIn, OnHooks,
           callbacks
<1>5. CASE ServeRemove(p)
  <2> DEFINE h == call[p]["app"].arg
  <2>1. /\ call[p]["app"].op = "remove" /\ appCallback[p] /\ HookOf(p) \subseteq {h}
        /\ hookCallback_[p] = appCallback[p] /\ call[p]["event"].op \notin OnHooks
    BY <1>5 DEF ServeRemove, Agreed, CallAgrees, IsIn, InHookCall, OnHooks
  <2>2. call'[p]["event"] = call[p]["event"]
    BY <1>5, GoOwn DEF ServeRemove, Threads
  <2>3. ~(HookOf(p) # {} /\ h \notin Hooks)
    BY <2>1 DEF HookOf
  <2>4. call'[p]["app"].op = "removed"
    BY <1>5, <2>3, GoOwn DEF ServeRemove, Threads, Call
  <2>5. HookOf(p)' = {}
    <3>1. CASE RemoveKeyEventHook(p, h)
      <4>1. h \in HookIds /\ DropHook(h)
        BY <3>1 DEF RemoveKeyEventHook, Hooks
      <4> QED
        BY <1>1, <2>1, <4>1, DropEffect
    <3>2. CASE HookOf(p) = {} /\ UNCHANGED server
      BY <3>2 DEF server, vars, HookOf, Hooks
    <3> QED
      BY <1>5, <2>3, <3>1, <3>2 DEF ServeRemove
  <2>6. hookIdUpdater_[p]
    BY <2>1 DEF Agreed, AddsHook, IsIn, OnHooks
  <2> QED
    BY <1>1, <1>2, <2>1, <2>2, <2>4, <2>5, <2>6
       DEF Agreed, CallAgrees, InNoHookCall, InHookCall, AddsHook, IsIn, OnHooks,
           callbacks
<1> QED
  BY <1>3, <1>4, <1>5 DEF Threads

LEMMA AgreementStep ==
  ASSUME TypeOK, NewIds, HookSessions, SysTypeOK, OwnIds, Agreement, [SysNext]_sysVars
  PROVE  Agreement'
<1> SUFFICES ASSUME NEW p \in Programs, p \notin crossed'
             PROVE  Agreed(p)'
  BY DEF Agreement
<1>1. CASE UNCHANGED sysVars
  <2>1. p \notin crossed /\ LibraryKept(p) /\ HooksKept(p)
    BY <1>1 DEF sysVars, library, callbacks, vars, LibraryKept, HooksKept, HookOf, Hooks
  <2> QED
    BY <2>1, AgreedKept DEF Agreement
<1>2. CASE SysNext
  <2>1. p \notin crossed /\ ~Crossing(p) /\ SysStep
    BY <1>2 DEF SysNext
  <2>2. Agreed(p)
    BY <2>1 DEF Agreement
  <2>3. ~(InHookCall(p, "app")' /\ InHookCall(p, "event")')
    BY <2>1 DEF Crossing, InCalls, InHookCall, Threads
  <2>4. p \in connected /\ p \notin connected' => InNoHookCall(p)
    BY <2>1 DEF Crossing, InCalls, InHookCall, InNoHookCall, Threads
  <2>5. CASE ServerStep
    <3>1. LibraryKept(p)
      BY <2>5 DEF ServerStep, callbacks, LibraryKept
    <3> QED
      BY <2>2, <2>4, <2>5, <3>1, ServerStepHooks, AgreedKept, AgreedWhenLost
  <2>6. ASSUME NEW r \in Programs \ {p},
               \/ AddHook(r) \/ RemoveHook(r)
               \/ \E t \in Threads, n \in 1 .. MaxEvents : PassOn(r, t, n)
               \/ AppThread(r) \/ EventThread(r) \/ Serve(r)
        PROVE  Agreed(p)'
    <3>1. LibraryKept(p)
      BY <2>6, LibraryOfOthersKept
    <3>2. CASE Serve(r) \/ Reconnect(r)
      BY <2>2, <3>1, <3>2, HooksOfOthersKept, AgreedKept
    <3>3. CASE UNCHANGED <<hooks_, connected>>
      <4>1. HooksKept(p)
        BY <3>3 DEF HooksKept, HookOf, Hooks
      <4> QED
        BY <2>2, <3>1, <4>1, AgreedKept
    <3> QED
      BY <2>6, <3>2, <3>3 DEF AddHook, RemoveHook, PassOn, AppThread, AddFails, AddReturns,
         RemoveReturns, PassReturns, EventThread, OnKeyEvent, OnConnected, ReAddReturns,
         server, vars
  <2>7. CASE AddHook(p) \/ RemoveHook(p) \/ AddFails(p) \/ AddReturns(p) \/ RemoveReturns(p)
    BY <2>2, <2>3, <2>7, AgreedApp
  <2>8. CASE \/ \E t \in Threads, n \in 1 .. MaxEvents : PassOn(p, t, n)
             \/ \E t \in Threads : PassReturns(p, t) \/ ServePass(p, t)
             \/ OnKeyEvent(p)
    BY <2>2, <2>8, AgreedPassing
  <2>9. CASE Reconnect(p) \/ OnConnected(p) \/ ReAddReturns(p)
    BY <2>2, <2>3, <2>9, AgreedEvent
  <2>10. CASE ServeRemove(p) \/ \E t \in Threads : ServeAdd(p, t)
    BY <2>2, <2>3, <2>10, AgreedServed
  <2>11. "app" \in Threads /\ "event" \in Threads
    BY DEF Threads
  <2> QED
    BY <2>1, <2>5, <2>6, <2>7, <2>8, <2>9, <2>10, <2>11
       DEF SysStep, AppThread, EventThread, Serve
<1> QED
  BY <1>1, <1>2

-----------------------------------------------------------------------------
(* Messages.                                                               *)

InInbox(p, n) == \E i \in 1 .. Len(inbox[p]) : inbox[p][i] = n

\* What hooks from h on to the front hold is newer than n.
HoldNewer(h, n) ==
  \A k \in Hooks : k >= h => \A s \in stashEvents_[k] : n < s.event

\* Whatever the hook of p will be offered is newer than n.
Behind(p, n) ==
  /\ n \in 1 .. Len(events)
  /\ \A h \in HookOf(p) : n <= offered[h] \/ HoldNewer(h, n)

\* A process is sent events in the order they happened, and each once, also
\* when it removed its hook and added another.
InOrder(p) ==
  /\ \A i, j \in 1 .. Len(inbox[p]) : i < j => inbox[p][i] < inbox[p][j]
  /\ \A n \in seen[p] : \A i \in 1 .. Len(inbox[p]) : n < inbox[p][i]
  /\ \A n \in seen[p] : Behind(p, n)
  /\ \A i \in 1 .. Len(inbox[p]) : Behind(p, inbox[p][i])

MessageOrder == \A p \in Programs : InOrder(p)

\* What p is sent in a step.
Delivered(p) ==
  \/ inbox'[p] = inbox[p] /\ \A h \in HookOf(p) : offered'[h] = offered[h]
  \/ \E h \in HookOf(p) :
       /\ HookOf(p) = {h} /\ offered'[h] # offered[h]
       /\ inbox'[p] = Append(inbox[p], offered'[h])

LEMMA DeliverEffect ==
  ASSUME TypeOK, Order, HookSessions, SysTypeOK, [Next]_vars, Deliver,
         NEW p \in Programs
  PROVE  Delivered(p)
<1>1. CASE \A h \in HookOf(p) : offered'[h] = offered[h]
  BY <1>1 DEF Deliver, Delivered
<1>2. ASSUME NEW h \in HookOf(p), offered'[h] # offered[h]
      PROVE  Delivered(p)
  <2>1. HookOf(p) = {h} /\ h \in HookIds
    BY ClientAssumption DEF HookSessions, HookOf, Hooks
  <2>2. offered'[h] \in 1 .. MaxEvents
    <3>1. TypeOK'
      BY TypeOKStep
    <3>2. offered'[h] \in 1 .. Len(events')
      BY <1>2, <2>1, StepOffers DEF NewOffer
    <3> QED
      BY <3>1, <3>2, HookAssumption DEF TypeOK
  <2> DEFINE P(n) == \E g \in HookOf(p) : offered'[g] = n /\ offered[g] # n
  <2>3. \A n : P(n) <=> n = offered'[h]
    BY <1>2, <2>1
  <2>4. (CHOOSE n \in 1 .. MaxEvents : P(n)) = offered'[h]
    BY <2>2, <2>3
  <2>5. inbox'[p] = Append(inbox[p], CHOOSE n \in 1 .. MaxEvents : P(n))
    BY <1>2 DEF Deliver
  <2> QED
    BY <1>2, <2>1, <2>4, <2>5 DEF Delivered
<1> QED
  BY <1>1, <1>2

\* Only the event thread takes messages, and only the service sends them.
LEMMA Deliveries ==
  ASSUME TypeOK, Order, HookSessions, SysTypeOK, [SysNext]_sysVars, NEW p \in Programs
  PROVE  \/ OnKeyEvent(p)
         \/ Delivered(p) /\ seen'[p] = seen[p] /\ early'[p] = early[p]
<1>1. [Next]_vars
  BY SysStepIsStep
<1>2. ASSUME inbox'[p] = inbox[p], UNCHANGED offered
      PROVE  Delivered(p)
  BY <1>2 DEF Delivered
<1>3. CASE UNCHANGED sysVars
  BY <1>2, <1>3 DEF sysVars, library, vars, delivery
<1>4. CASE ServerStep
  BY <1>1, <1>4, DeliverEffect DEF ServerStep
<1>5. ASSUME NEW r \in Programs, NEW t \in Threads, ServePass(r, t)
      PROVE  Delivered(p) /\ seen'[p] = seen[p] /\ early'[p] = early[p]
  BY <1>1, <1>5, DeliverEffect DEF ServePass
<1>6. ASSUME NEW r \in Programs,
             \/ AddHook(r) \/ RemoveHook(r) \/ AppThread(r)
             \/ \E t \in Threads, n \in 1 .. MaxEvents : PassOn(r, t, n)
             \/ Reconnect(r) \/ OnConnected(r) \/ ReAddReturns(r)
             \/ PassReturns(r, "event")
             \/ ServeRemove(r) \/ \E t \in Threads : ServeAdd(r, t)
      PROVE  Delivered(p) /\ seen'[p] = seen[p] /\ early'[p] = early[p]
  <2>1. UNCHANGED <<inbox, seen, early>>
    BY <1>6 DEF AddHook, RemoveHook, AppThread, AddFails, AddReturns, RemoveReturns,
                PassReturns, PassOn, Reconnect, OnConnected, ReAddReturns, ServeRemove,
                ServeAdd
  <2>2. UNCHANGED offered
    BY <1>6 DEF AddHook, RemoveHook, AppThread, AddFails, AddReturns, RemoveReturns,
                PassReturns, PassOn, Reconnect, OnConnected, ReAddReturns, ServeRemove,
                ServeAdd, Connect, RemoveKeyEventHook, AddKeyEventHook, server, vars,
                delivery
  <2> QED
    BY <1>2, <2>1, <2>2
<1>7. ASSUME NEW r \in Programs \ {p}, OnKeyEvent(r)
      PROVE  Delivered(p) /\ seen'[p] = seen[p] /\ early'[p] = early[p]
  <2>1. inbox'[p] = inbox[p] /\ seen'[p] = seen[p] /\ early'[p] = early[p]
    BY <1>7 DEF OnKeyEvent, SysTypeOK
  <2>2. UNCHANGED offered
    BY <1>7 DEF OnKeyEvent, server, vars, delivery
  <2> QED
    BY <1>2, <2>1, <2>2
<1> QED
  BY <1>3, <1>4, <1>5, <1>6, <1>7 DEF SysNext, SysStep, EventThread, Serve

\* What a process got stays behind what its hooks will be offered.
LEMMA BehindKept ==
  ASSUME TypeOK, CheckersBelongToHooks, Order, [Next]_vars, NEW p \in Pids, NEW n \in Int,
         Behind(p, n)
  PROVE  Behind(p, n)'
<1>1. /\ Len(events) \in Int /\ Len(events') \in Int /\ Len(events) <= Len(events')
      /\ n \in 1 .. Len(events)
  BY TypeOKStep, StepOffers DEF TypeOK, Behind
<1>2. ASSUME NEW h \in HookOf(p)'
      PROVE  n <= offered'[h] \/ HoldNewer(h, n)'
  <2>1. h \in Hooks' /\ h \in HookIds /\ hooks_'[h] = p /\ h \in Int
    BY DEF HookOf, Hooks, HookIds
  <2>2. CASE h \notin Hooks
    <3>1. h = globalHookId /\ stashEvents_'[h] = {}
      BY <2>1, <2>2, StepHooks DEF Order
    <3>2. \A k \in Hooks' : k >= h => k = h
      <4>1. \A k \in Hooks' : k \in Hooks \/ k = globalHookId
        BY StepHooks DEF Order
      <4>2. \A k \in Hooks : k < globalHookId /\ k \in Int
        BY DEF Order, NewIds, Hooks, HookIds
      <4> QED
        BY <2>1, <3>1, <4>1, <4>2
    <3> QED
      BY <3>1, <3>2 DEF HoldNewer
  <2>3. CASE h \in Hooks
    <3>1. h \in HookOf(p)
      BY <2>1, <2>3, StepHooks DEF HookOf, Order
    <3>2. CASE n <= offered[h]
      <4>1. offered[h] \in Int /\ (offered'[h] = offered[h] \/ offered'[h] > offered[h])
            /\ offered'[h] \in Int
        <5>1. offered[h] \in Nat /\ offered'[h] \in Nat
          BY <2>1, TypeOKStep DEF TypeOK
        <5> QED
          BY <2>1, <5>1, StepOffers DEF NewOffer
      <4> QED
        BY <1>1, <3>2, <4>1
    <3>3. CASE HoldNewer(h, n)
      <4>1. ASSUME NEW k \in Hooks', k >= h, NEW s \in stashEvents_'[k]
            PROVE  n < s.event
        <5>1. k \in Hooks /\ k \in HookIds /\ k \in Int
          BY <4>1, StepHooks DEF Order, Hooks, HookIds
        <5>2. CASE s \in stashEvents_[k]
          BY <3>3, <4>1, <5>1, <5>2 DEF HoldNewer
        <5>3. CASE s \notin stashEvents_[k]
          <6>1. NewOffer(k) /\ s.event = offered'[k]
            BY <4>1, <5>1, <5>3, StepOffers
          <6>2. s.event \in Int /\ (s.event > Len(events) \/ \E f \in Hooks :
                  f > k /\ \E u \in stashEvents_[f] : u.event = s.event)
            BY <6>1 DEF NewOffer
          <6>3. CASE s.event > Len(events)
            BY <1>1, <6>2, <6>3
          <6>4. ASSUME NEW f \in Hooks, f > k, NEW u \in stashEvents_[f], u.event = s.event
                PROVE  n < s.event
            <7>1. f >= h
              BY <2>1, <4>1, <5>1, <6>4 DEF Hooks, HookIds
            <7> QED
              BY <3>3, <6>4, <7>1 DEF HoldNewer
          <6> QED
            BY <6>2, <6>3, <6>4
        <5> QED
          BY <5>2, <5>3
      <4> QED
        BY <4>1 DEF HoldNewer
    <3> QED
      BY <3>1, <3>2, <3>3 DEF Behind
  <2> QED
    BY <2>2, <2>3
<1> QED
  BY <1>1, <1>2 DEF Behind

\* A new offer is newer than all that.
LEMMA OfferIsNewer ==
  ASSUME TypeOK, Order, [Next]_vars, NEW p \in Pids, NEW n \in Int, Behind(p, n),
         NEW h \in HookOf(p), offered'[h] # offered[h]
  PROVE  n < offered'[h]
<1>1. h \in Hooks /\ h \in HookIds /\ h \in Int
  BY DEF HookOf, Hooks, HookIds
<1>2. NewOffer(h)
  BY <1>1, StepOffers
<1>3. /\ offered[h] \in Int /\ offered'[h] \in Int /\ Len(events) \in Int
      /\ n <= Len(events)
  BY <1>1, <1>2 DEF NewOffer, TypeOK, Behind
<1>4. CASE n <= offered[h]
  BY <1>2, <1>3, <1>4 DEF NewOffer
<1>5. CASE HoldNewer(h, n)
  <2>1. CASE offered'[h] > Len(events)
    BY <1>3, <2>1
  <2>2. ASSUME NEW f \in Hooks, f > h, NEW s \in stashEvents_[f], s.event = offered'[h]
        PROVE  n < offered'[h]
    <3>1. f >= h
      BY <1>1, <2>2 DEF Hooks, HookIds
    <3> QED
      BY <1>5, <2>2, <3>1 DEF HoldNewer
  <2> QED
    BY <1>2, <2>1, <2>2 DEF NewOffer
<1> QED
  BY <1>4, <1>5 DEF Behind

LEMMA MessageOrderInit == SysInit => MessageOrder
BY DEF SysInit, MessageOrder, InOrder

LEMMA MessageOrderStep ==
  ASSUME TypeOK, CheckersBelongToHooks, Order, HookSessions, SysTypeOK, MessageOrder,
         [SysNext]_sysVars
  PROVE  MessageOrder'
<1> SUFFICES ASSUME NEW p \in Programs
             PROVE  InOrder(p)'
  BY DEF MessageOrder
<1>1. [Next]_vars
  BY SysStepIsStep
<1>2. p \in Pids /\ seen[p] \subseteq Int /\ inbox[p] \in Seq(Int)
  BY ClientAssumption DEF SysTypeOK
<1>3. \A i \in 1 .. Len(inbox[p]) : inbox[p][i] \in Int
  BY <1>2
<1>4. InOrder(p)
  BY DEF MessageOrder
<1>5. ASSUME NEW n \in Int, Behind(p, n) PROVE Behind(p, n)'
  BY <1>1, <1>2, <1>5, BehindKept
<1>6. ASSUME NEW n \in Int, n \in seen[p] \/ InInbox(p, n)
      PROVE  Behind(p, n)'
  BY <1>4, <1>5, <1>6 DEF InOrder, InInbox
<1>7. CASE inbox'[p] = inbox[p] /\ seen'[p] = seen[p]
  <2>1. \A n \in seen'[p] : Behind(p, n)'
    BY <1>2, <1>6, <1>7
  <2>2. \A n \in Int : InInbox(p, n) => Behind(p, n)'
    BY <1>6
  <2>3. \A i \in 1 .. Len(inbox'[p]) : \A n : n = inbox'[p][i] => Behind(p, n)'
    BY <1>3, <1>7, <2>2 DEF InInbox
  <2> QED
    BY <1>4, <1>7, <2>1, <2>3 DEF InOrder, Behind
<1>8. ASSUME seen'[p] = seen[p], NEW h \in HookOf(p),
             HookOf(p) = {h}, offered'[h] # offered[h],
             inbox'[p] = Append(inbox[p], offered'[h])
      PROVE  InOrder(p)'
  <2>1. h \in Hooks /\ h \in HookIds
    BY DEF HookOf, Hooks
  <2>2. NewOffer(h)
    BY <1>1, <1>8, <2>1, StepOffers
  <2>3. PICK x \in Int : x = offered'[h] /\ x \in 1 .. Len(events')
    BY <2>2 DEF NewOffer
  <2>4. /\ Len(inbox[p]) \in Nat /\ Len(inbox'[p]) = Len(inbox[p]) + 1
        /\ \A i \in 1 .. Len(inbox[p]) : inbox'[p][i] = inbox[p][i]
        /\ inbox'[p][Len(inbox[p]) + 1] = x
    BY <1>2, <1>8, <2>3
  <2>5. ASSUME NEW n \in Int, Behind(p, n) PROVE n < x
    BY <1>1, <1>2, <1>8, <2>3, <2>5, OfferIsNewer
  <2>6. HookOf(p)' = {h}
    BY <1>8, <2>2 DEF NewOffer, HookOf, Hooks
  <2>7. Behind(p, x)'
    BY <2>3, <2>6 DEF Behind
  <2>8. \A i \in 1 .. Len(inbox'[p]) : i \in 1 .. Len(inbox[p]) \/ i = Len(inbox[p]) + 1
    BY <2>4
  <2>9. \A i \in 1 .. Len(inbox[p]) : inbox[p][i] < x
    BY <1>3, <1>4, <2>5 DEF InOrder
  <2>10. \A n \in seen[p] : n < x
    BY <1>2, <1>4, <2>5 DEF InOrder
  <2>11. \A i, j \in 1 .. Len(inbox'[p]) : i < j => inbox'[p][i] < inbox'[p][j]
    <3> SUFFICES ASSUME NEW i \in 1 .. Len(inbox'[p]), NEW j \in 1 .. Len(inbox'[p]), i < j
                 PROVE  inbox'[p][i] < inbox'[p][j]
      OBVIOUS
    <3>1. i \in 1 .. Len(inbox[p])
      BY <2>4
    <3>2. CASE j \in 1 .. Len(inbox[p])
      BY <1>4, <2>4, <3>1, <3>2 DEF InOrder
    <3>3. CASE j = Len(inbox[p]) + 1
      BY <2>4, <2>9, <3>1, <3>3
    <3> QED
      BY <2>8, <3>2, <3>3
  <2>12. \A n \in seen[p] : \A i \in 1 .. Len(inbox'[p]) : n < inbox'[p][i]
    BY <1>4, <2>4, <2>8, <2>10 DEF InOrder
  <2>13. \A n \in seen[p] : Behind(p, n)'
    BY <1>2, <1>6
  <2>14. \A i \in 1 .. Len(inbox'[p]) : \A n : n = inbox'[p][i] => Behind(p, n)'
    <3> SUFFICES ASSUME NEW i \in 1 .. Len(inbox'[p]), NEW n, n = inbox'[p][i]
                 PROVE  Behind(p, n)'
      OBVIOUS
    <3>1. CASE i \in 1 .. Len(inbox[p])
      <4>1. n = inbox[p][i] /\ n \in Int
        BY <1>3, <2>4, <3>1
      <4> QED
        BY <1>6, <3>1, <4>1 DEF InInbox
    <3>2. CASE i = Len(inbox[p]) + 1
      <4>1. n = x
        BY <2>4, <3>2
      <4> QED
        BY <2>7, <4>1
    <3> QED
      BY <2>8, <3>1, <3>2
  <2> QED
    BY <1>8, <2>11, <2>12, <2>13, <2>14 DEF InOrder, Behind
<1>9. CASE OnKeyEvent(p)
  <2>1. /\ inbox[p] # << >> /\ inbox'[p] = Tail(inbox[p])
        /\ seen'[p] \subseteq seen[p] \union {inbox[p][1]}
    BY <1>2, <1>9 DEF OnKeyEvent, SysTypeOK
  <2>2. /\ Len(inbox[p]) \in Nat \ {0} /\ Len(inbox'[p]) = Len(inbox[p]) - 1
        /\ \A i \in 1 .. Len(inbox'[p]) :
             /\ inbox'[p][i] = inbox[p][i + 1]
             /\ i + 1 \in 1 .. Len(inbox[p]) /\ 1 < i + 1
        /\ 1 \in 1 .. Len(inbox[p])
    BY <1>2, <2>1
  <2>3. \A i, j \in 1 .. Len(inbox'[p]) : i < j => inbox'[p][i] < inbox'[p][j]
    <3> SUFFICES ASSUME NEW i \in 1 .. Len(inbox'[p]), NEW j \in 1 .. Len(inbox'[p]), i < j
                 PROVE  inbox'[p][i] < inbox'[p][j]
      OBVIOUS
    <3>1. i + 1 < j + 1
      OBVIOUS
    <3> QED
      BY <1>4, <2>2, <3>1 DEF InOrder
  <2>4. \A n \in seen'[p] : \A i \in 1 .. Len(inbox'[p]) : n < inbox'[p][i]
    <3> SUFFICES ASSUME NEW n \in seen'[p], NEW i \in 1 .. Len(inbox'[p])
                 PROVE  n < inbox'[p][i]
      OBVIOUS
    <3>1. CASE n \in seen[p]
      BY <1>4, <2>2, <3>1 DEF InOrder
    <3>2. CASE n = inbox[p][1]
      BY <1>4, <2>2, <3>2 DEF InOrder
    <3> QED
      BY <2>1, <3>1, <3>2
  <2>5. \A n \in seen'[p] : Behind(p, n)'
    <3> SUFFICES ASSUME NEW n \in seen'[p]
                 PROVE  Behind(p, n)'
      OBVIOUS
    <3>1. n \in Int /\ (n \in seen[p] \/ InInbox(p, n))
      BY <1>2, <1>3, <2>1, <2>2 DEF InInbox
    <3> QED
      BY <1>6, <3>1
  <2>6. \A i \in 1 .. Len(inbox'[p]) : \A n : n = inbox'[p][i] => Behind(p, n)'
    <3> SUFFICES ASSUME NEW i \in 1 .. Len(inbox'[p]), NEW n, n = inbox'[p][i]
                 PROVE  Behind(p, n)'
      OBVIOUS
    <3>1. n \in Int /\ InInbox(p, n)
      BY <1>3, <2>2 DEF InInbox
    <3> QED
      BY <1>6, <3>1
  <2> QED
    BY <2>3, <2>4, <2>5, <2>6 DEF InOrder, Behind
<1>10. Delivered(p) /\ seen'[p] = seen[p] => InOrder(p)'
  BY <1>7, <1>8 DEF Delivered
<1> QED
  BY <1>9, <1>10, Deliveries

-----------------------------------------------------------------------------
(* What the library keeps of the events its hook still holds.              *)

StashPast == \A h \in HookIds : \A s \in stashEvents_[h] : s.at <= now

\* The event of s is still to be read, or the library has it and noted it no
\* earlier than the service did; or it may be gone: read while the hook was
\* being added, behind one that was passed on, or too old.
Accounted(p, s) ==
  \/ InInbox(p, s.event)
  \/ s.event \in early[p]
  \/ s.event <= passedOn[p]
  \/ now - s.at > TIMEOUT_MS
  \/ /\ ~IsIn(p, "app", "added")
     /\ \E k \in pendingKeys_[p] : k.event = s.event /\ k.at >= s.at

StashKnown ==
  \A p \in Programs \ crossed : \A h \in HookOf(p) : \A s \in stashEvents_[h] :
    Accounted(p, s)

LEMMA StashPastInit == Init => StashPast
BY DEF Init, StashPast

LEMMA StashPastStep ==
  ASSUME TypeOK, Order, StashPast, [Next]_vars
  PROVE  StashPast'
<1> SUFFICES ASSUME NEW h \in HookIds, NEW s \in stashEvents_'[h]
             PROVE  s.at <= now'
  BY DEF StashPast
<1>1. now \in Nat /\ now' \in Nat /\ stashEvents_'[h] \subseteq Stashed
  BY TypeOKStep DEF TypeOK
<1>2. s.at \in Nat
  BY <1>1 DEF Stashed
<1>3. s.at <= now
  BY <1>1, StepOffers DEF StashPast
<1> QED
  BY <1>1, <1>2, <1>3, StepOffers

\* What is in the stash after a step was there before or was sent in the step.
LEMMA StashSource ==
  ASSUME TypeOK, CheckersBelongToHooks, Order, SysTypeOK, HookSessions,
         [SysNext]_sysVars, NEW p \in Programs,
         NEW h, h \in HookOf(p)', NEW s \in stashEvents_'[h]
  PROVE  \/ h \in HookOf(p) /\ s \in stashEvents_[h]
         \/ InInbox(p, s.event)'
<1>1. [Next]_vars
  BY SysStepIsStep
<1>2. h \in Hooks' /\ h \in HookIds /\ hooks_'[h] = p
  BY DEF HookOf, Hooks
<1>3. h \in Hooks /\ hooks_[h] = p
  BY <1>1, <1>2, StepHooks DEF Order
<1>4. h \in HookOf(p)
  BY <1>3 DEF HookOf
<1>5. CASE s \notin stashEvents_[h]
  <2>1. NewOffer(h) /\ s.event = offered'[h]
    BY <1>1, <1>2, <1>5, StepOffers
  <2>2. offered'[h] # offered[h] /\ offered'[h] \in Int
    BY <1>2, <2>1 DEF NewOffer, TypeOK
  <2>3. ~OnKeyEvent(p)
    BY <2>2 DEF OnKeyEvent, server, vars, delivery
  <2>4. inbox'[p] = Append(inbox[p], offered'[h])
    BY <1>4, <2>2, <2>3, Deliveries DEF Delivered
  <2>5. inbox[p] \in Seq(Int)
    BY DEF SysTypeOK
  <2>6. Len(inbox[p]) + 1 \in 1 .. Len(inbox'[p])
        /\ inbox'[p][Len(inbox[p]) + 1] = offered'[h]
    BY <2>2, <2>4, <2>5
  <2> QED
    BY <2>1, <2>6 DEF InInbox
<1> QED
  BY <1>4, <1>5

\* Messages stay until the event thread takes them.
LEMMA InboxKept ==
  ASSUME SysTypeOK, NEW p \in Programs, Delivered(p), NEW n, InInbox(p, n)
  PROVE  InInbox(p, n)'
<1>1. inbox[p] \in Seq(Int)
  BY DEF SysTypeOK
<1>2. CASE inbox'[p] = inbox[p]
  BY <1>2 DEF InInbox
<1>3. ASSUME NEW x, inbox'[p] = Append(inbox[p], x)
      PROVE  InInbox(p, n)'
  <2>1. \A i \in 1 .. Len(inbox[p]) :
          i \in 1 .. Len(inbox'[p]) /\ inbox'[p][i] = inbox[p][i]
    BY <1>1, <1>3
  <2> QED
    BY <2>1 DEF InInbox
<1> QED
  BY <1>2, <1>3 DEF Delivered

\* An event that is still accounted for after a step that reads no message: the
\* pending keys that are dropped are too old or behind one passed on.
LEMMA AccountedKept ==
  ASSUME SysTypeOK, NEW p \in Programs, NEW s \in Stashed, Accounted(p, s),
         Delivered(p), early'[p] = early[p],
         now \in Int, now' \in Int, now <= now',
         passedOn[p] <= passedOn'[p], passedOn'[p] \in Int,
         ~IsIn(p, "app", "added") =>
           /\ ~IsIn(p, "app", "added")'
           /\ \A k \in pendingKeys_[p] :
                \/ k \in pendingKeys_'[p]
                \/ now - k.at > TIMEOUT_MS
                \/ k.event <= passedOn'[p]
  PROVE  Accounted(p, s)'
<1>1. s.event \in Int /\ s.at \in Int /\ passedOn[p] \in Int /\ TIMEOUT_MS \in Int
  BY ClientAssumption DEF Stashed, SysTypeOK
<1>2. CASE InInbox(p, s.event)
  BY <1>2, InboxKept DEF Accounted
<1>3. CASE s.event \in early[p]
  BY <1>3 DEF Accounted
<1>4. CASE s.event <= passedOn[p]
  BY <1>1, <1>4 DEF Accounted
<1>5. CASE now - s.at > TIMEOUT_MS
  BY <1>1, <1>5 DEF Accounted
<1>6. ASSUME ~IsIn(p, "app", "added"),
             NEW k \in pendingKeys_[p], k.event = s.event, k.at >= s.at
      PROVE  Accounted(p, s)'
  <2>1. k.at \in Int /\ k.event \in Int
    BY DEF SysTypeOK
  <2>2. CASE k \in pendingKeys_'[p]
    BY <1>6, <2>2 DEF Accounted
  <2>3. CASE now - k.at > TIMEOUT_MS
    <3>1. now' - s.at > TIMEOUT_MS
      BY <1>1, <1>6, <2>1, <2>3
    <3> QED
      BY <3>1 DEF Accounted
  <2>4. CASE k.event <= passedOn'[p]
    BY <1>6, <2>4 DEF Accounted
  <2> QED
    BY <1>6, <2>2, <2>3, <2>4
<1> QED
  BY <1>2, <1>3, <1>4, <1>5, <1>6 DEF Accounted

\* The event thread reads a message: it notes the event, or notes it as early.
LEMMA AccountedRead ==
  ASSUME TypeOK, SysTypeOK, NEW p \in Programs, NEW s \in Stashed, s.at <= now,
         Accounted(p, s), OnKeyEvent(p)
  PROVE  Accounted(p, s)'
<1> DEFINE n == Head(inbox[p])
<1>1. s.event \in Int /\ s.at \in Int /\ TIMEOUT_MS \in Nat /\ now \in Int
  BY ClientAssumption DEF Stashed, TypeOK
<1>2. /\ inbox[p] \in Seq(Int) /\ inbox[p] # << >> /\ inbox'[p] = Tail(inbox[p])
      /\ UNCHANGED <<call, passedOn, now>>
  BY DEF OnKeyEvent, SysTypeOK, server, vars
<1>3. pendingKeys_'[p] = {k \in pendingKeys_[p] \union {[event |-> n, at |-> now]} :
                            now - k.at <= TIMEOUT_MS}
  BY DEF OnKeyEvent, SysTypeOK
<1>4. early'[p] = IF call[p]["app"].op \in {"add", "added"}
                  THEN early[p] \union {n} ELSE early[p]
  BY DEF OnKeyEvent, SysTypeOK
<1>5. CASE InInbox(p, s.event)
  <2>1. PICK i \in 1 .. Len(inbox[p]) : inbox[p][i] = s.event
    BY <1>5 DEF InInbox
  <2>2. CASE i = 1
    <3>1. s.event = n
      BY <1>2, <2>1, <2>2
    <3>2. CASE IsIn(p, "app", "added")
      <4>1. s.event \in early'[p]
        BY <1>4, <3>1, <3>2 DEF IsIn
      <4> QED
        BY <4>1 DEF Accounted
    <3>3. CASE ~IsIn(p, "app", "added")
      <4>1. [event |-> n, at |-> now] \in pendingKeys_'[p]
        BY <1>1, <1>3
      <4>2. ~IsIn(p, "app", "added")'
        BY <1>2, <3>3 DEF IsIn
      <4>3. \E k \in pendingKeys_'[p] : k.event = s.event /\ k.at >= s.at
        BY <1>1, <3>1, <4>1
      <4> QED
        BY <4>2, <4>3 DEF Accounted
    <3> QED
      BY <3>2, <3>3
  <2>3. CASE i # 1
    <3>1. i - 1 \in 1 .. Len(inbox'[p]) /\ inbox'[p][i - 1] = s.event
      BY <1>2, <2>1, <2>3
    <3> QED
      BY <3>1 DEF Accounted, InInbox
  <2> QED
    BY <2>2, <2>3
<1>6. CASE s.event \in early[p]
  BY <1>4, <1>6 DEF Accounted
<1>7. CASE s.event <= passedOn[p] \/ now - s.at > TIMEOUT_MS
  BY <1>2, <1>7 DEF Accounted
<1>8. ASSUME ~IsIn(p, "app", "added"),
             NEW k \in pendingKeys_[p], k.event = s.event, k.at >= s.at
      PROVE  Accounted(p, s)'
  <2>1. k.at \in Int
    BY DEF SysTypeOK
  <2>2. CASE now - k.at <= TIMEOUT_MS
    <3>1. k \in pendingKeys_'[p] /\ ~IsIn(p, "app", "added")'
      BY <1>2, <1>3, <1>8, <2>2 DEF IsIn
    <3> QED
      BY <1>8, <3>1 DEF Accounted
  <2>3. CASE now - k.at > TIMEOUT_MS
    <3>1. now' - s.at > TIMEOUT_MS
      BY <1>1, <1>2, <1>8, <2>1, <2>3
    <3> QED
      BY <3>1 DEF Accounted
  <2> QED
    BY <1>1, <2>1, <2>2, <2>3
<1> QED
  BY <1>5, <1>6, <1>7, <1>8 DEF Accounted

\* What a step that reads no message leaves of the pending keys of p.
KeysKept(p) ==
  /\ passedOn[p] <= passedOn'[p]
  /\ ~IsIn(p, "app", "added") =>
       /\ ~IsIn(p, "app", "added")'
       /\ \A k \in pendingKeys_[p] :
            \/ k \in pendingKeys_'[p]
            \/ now - k.at > TIMEOUT_MS
            \/ k.event <= passedOn'[p]

\* As long as p has a hook and its calls did not cross.
LEMMA KeysAreKept ==
  ASSUME TypeOK, SysTypeOK, [SysNext]_sysVars, NEW p \in Programs, Agreed(p),
         HookOf(p) # {}, ~OnKeyEvent(p)
  PROVE  KeysKept(p)
<1>1. passedOn[p] \in Int
  BY DEF SysTypeOK
<1>2. "app" \in Threads /\ "event" \in Threads /\ "event" # "app"
  BY DEF Threads
<1>3. ASSUME call'[p] = call[p] \/ call'[p]["app"] = call[p]["app"]
                \/ call'[p]["app"].op # "added",
             pendingKeys_'[p] = pendingKeys_[p], passedOn'[p] = passedOn[p]
      PROVE  KeysKept(p)
  BY <1>1, <1>3 DEF KeysKept, IsIn
<1>4. CASE UNCHANGED sysVars \/ ServerStep
  BY <1>3, <1>4 DEF sysVars, library, ServerStep
<1>5. ASSUME NEW r \in Programs \ {p},
             \/ AddHook(r) \/ RemoveHook(r)
             \/ \E t \in Threads, n \in 1 .. MaxEvents : PassOn(r, t, n)
             \/ AppThread(r) \/ EventThread(r) \/ Serve(r)
      PROVE  KeysKept(p)
  <2>1. call'[p] = call[p]
    BY <1>5, LibraryOfOthersKept DEF LibraryKept
  <2>2. pendingKeys_'[p] = pendingKeys_[p]
    BY <1>5 DEF SysTypeOK, AddHook, RemoveHook, PassOn, AppThread, AddFails, AddReturns,
       RemoveReturns, PassReturns, EventThread, OnKeyEvent, Reconnect, OnConnected,
       ReAddReturns, Serve, ServeAdd, ServeRemove, ServePass
  <2>3. passedOn'[p] = passedOn[p]
    BY <1>5 DEF SysTypeOK, AddHook, RemoveHook, PassOn, AppThread, AddFails, AddReturns,
       RemoveReturns, PassReturns, EventThread, OnKeyEvent, Reconnect, OnConnected,
       ReAddReturns, Serve, ServeAdd, ServeRemove, ServePass
  <2> QED
    BY <1>3, <2>1, <2>2, <2>3
<1>6. CASE AddHook(p) \/ RemoveHook(p) \/ AddFails(p) \/ ServeRemove(p)
  <2>1. call'[p]["app"].op # "added"
    BY <1>2, <1>6, GoOwn DEF AddHook, RemoveHook, AddFails, ServeRemove, Call, Idle
  <2> QED
    BY <1>3, <1>6, <2>1 DEF AddHook, RemoveHook, AddFails, ServeRemove
<1>7. CASE AddReturns(p)
  BY <1>1, <1>7 DEF AddReturns, KeysKept
<1>8. CASE RemoveReturns(p)
  BY <1>8 DEF RemoveReturns, Agreed, CallAgrees
<1>9. ASSUME NEW t \in Threads, NEW n \in 1 .. MaxEvents, PassOn(p, t, n)
      PROVE  KeysKept(p)
  <2>1. call'[p]["app"] = call[p]["app"] \/ call'[p]["app"].op # "added"
    BY <1>2, <1>9, GoOwn DEF PassOn, Call
  <2>2. passedOn'[p] = passedOn[p] /\ pendingKeys_'[p] = Recent(p)
    BY <1>9 DEF PassOn, SysTypeOK
  <2>3. \A k \in pendingKeys_[p] : k \in Recent(p) \/ now - k.at > TIMEOUT_MS
    <3>1. \A k \in pendingKeys_[p] : k.at \in Int
      BY DEF SysTypeOK
    <3>2. now \in Int /\ TIMEOUT_MS \in Int
      BY ClientAssumption DEF TypeOK
    <3> QED
      BY <3>1, <3>2 DEF Recent
  <2> QED
    BY <1>1, <2>1, <2>2, <2>3 DEF KeysKept, IsIn
<1>10. ASSUME NEW t \in Threads, ServePass(p, t)
       PROVE  KeysKept(p)
  <2>1. call'[p]["app"] = call[p]["app"] \/ call'[p]["app"].op # "added"
    BY <1>2, <1>10, GoOwn DEF ServePass, Call, Idle
  <2> QED
    BY <1>3, <1>10, <2>1 DEF ServePass
<1>11. ASSUME NEW t \in Threads, PassReturns(p, t)
       PROVE  KeysKept(p)
  <2> DEFINE n == call[p][t].arg
  <2>1. call'[p]["app"] = call[p]["app"] \/ call'[p]["app"].op # "added"
    BY <1>2, <1>11, GoOwn DEF PassReturns, Idle
  <2>2. n \in Int
    BY CallIsTyped
  <2>3. passedOn'[p] = IF n > passedOn[p] THEN n ELSE passedOn[p]
    BY <1>11 DEF PassReturns, SysTypeOK
  <2>4. pendingKeys_'[p] = {k \in pendingKeys_[p] : k.event > n}
    BY <1>11 DEF PassReturns, SysTypeOK
  <2>5. \A k \in pendingKeys_[p] : k \in pendingKeys_'[p] \/ k.event <= passedOn'[p]
    <3>1. \A k \in pendingKeys_[p] : k.event \in Int
      BY DEF SysTypeOK
    <3> QED
      BY <1>1, <2>2, <2>3, <2>4, <3>1
  <2>6. passedOn[p] <= passedOn'[p]
    BY <1>1, <2>2, <2>3
  <2> QED
    BY <2>1, <2>5, <2>6 DEF KeysKept, IsIn
<1>12. CASE Reconnect(p) \/ OnConnected(p) \/ ReAddReturns(p)
  <2>1. call'[p]["app"] = call[p]["app"]
    BY <1>2, <1>12, GoOwn DEF Reconnect, OnConnected, ReAddReturns
  <2> QED
    BY <1>3, <1>12, <2>1 DEF Reconnect, OnConnected, ReAddReturns
<1>13. ASSUME NEW t \in Threads, ServeAdd(p, t)
       PROVE  KeysKept(p)
  <2>1. Go(p, t, Call("addFailed", 0))
    BY <1>13 DEF ServeAdd, AddKeyEventHook, CanAdd
  <2>2. call'[p]["app"] = call[p]["app"] \/ call'[p]["app"].op # "added"
    BY <1>2, <2>1, GoOwn DEF Call
  <2> QED
    BY <1>3, <1>13, <2>2 DEF ServeAdd
<1> QED
  BY <1>2, <1>4, <1>5, <1>6, <1>7, <1>8, <1>9, <1>10, <1>11, <1>12, <1>13
     DEF SysNext, SysStep, AppThread, EventThread, Serve

LEMMA StashKnownInit == SysInit => StashKnown
BY DEF SysInit, Init, StashKnown, HookOf, Hooks

LEMMA StashKnownStep ==
  ASSUME TypeOK, CheckersBelongToHooks, Order, HookSessions, StashPast, SysTypeOK,
         Agreement, StashKnown, [SysNext]_sysVars
  PROVE  StashKnown'
<1> SUFFICES ASSUME NEW p \in Programs, p \notin crossed',
                    NEW h, h \in HookOf(p)', NEW s \in stashEvents_'[h]
             PROVE  Accounted(p, s)'
  BY DEF StashKnown
<1>1. p \notin crossed
  BY DEF SysNext, sysVars
<1>2. [Next]_vars
  BY SysStepIsStep
<1>3. CASE InInbox(p, s.event)'
  BY <1>3 DEF Accounted
<1>4. CASE h \in HookOf(p) /\ s \in stashEvents_[h]
  <2>1. Accounted(p, s) /\ Agreed(p) /\ HookOf(p) # {}
    BY <1>1, <1>4 DEF StashKnown, Agreement
  <2>2. s \in Stashed /\ s.at <= now
    BY <1>4 DEF HookOf, Hooks, TypeOK, StashPast
  <2>3. CASE OnKeyEvent(p)
    BY <2>1, <2>2, <2>3, AccountedRead
  <2>4. CASE ~OnKeyEvent(p)
    <3>1. Delivered(p) /\ early'[p] = early[p]
      BY <2>4, Deliveries
    <3>2. KeysKept(p)
      BY <2>1, <2>4, KeysAreKept
    <3>3. SysTypeOK' /\ TypeOK'
      BY <1>2, SysTypeStep, TypeOKStep
    <3>4. passedOn'[p] \in Int
      BY <3>3 DEF SysTypeOK
    <3>5. now \in Int /\ now' \in Int /\ now <= now'
      BY <1>2, <3>3, StepOffers DEF TypeOK
    <3> QED
      BY <2>1, <2>2, <3>1, <3>2, <3>4, <3>5, AccountedKept DEF KeysKept
  <2> QED
    BY <2>3, <2>4
<1> QED
  BY <1>3, <1>4, StashSource
-----------------------------------------------------------------------------
(* Together.                                                               *)

\* The invariant of the whole: of the service, of the sessions its hooks have,
\* of the ids, calls, messages and pending keys of the libraries.
SysInv ==
  /\ TypeOK /\ CheckersBelongToHooks /\ Order
  /\ HookSessions /\ StashPast
  /\ SysTypeOK /\ OwnIds /\ Agreement /\ MessageOrder /\ StashKnown

LEMMA SysInvInit == SysInit => SysInv
<1> SUFFICES ASSUME SysInit
             PROVE  SysInv
  OBVIOUS
<1>1. Init
  BY DEF SysInit
<1>2. CheckersBelongToHooks
  BY <1>1 DEF Init, CheckersBelongToHooks
<1> QED
  BY <1>1, <1>2, TypeOKInit, OrderInit, HookSessionsInit, StashPastInit, SysTypeInit,
     OwnIdsInit, AgreementInit, MessageOrderInit, StashKnownInit DEF SysInv

LEMMA SysInvStep == SysInv /\ [SysNext]_sysVars => SysInv'
<1> SUFFICES ASSUME SysInv, [SysNext]_sysVars
             PROVE  SysInv'
  OBVIOUS
<1>1. TypeOK /\ CheckersBelongToHooks /\ Order /\ HookSessions /\ StashPast
      /\ SysTypeOK /\ OwnIds /\ Agreement /\ MessageOrder /\ StashKnown
  BY DEF SysInv
<1>2. [Next]_vars /\ NewIds
  BY <1>1, SysStepIsStep DEF Order
<1>3. TypeOK' /\ CheckersBelongToHooks'
  BY <1>1, <1>2, TypeOKStep, CheckersStep
<1>4. Order'
  BY <1>1, <1>2, OrderStep, NumbersDoNotWrap
<1>5. HookSessions' /\ StashPast'
  BY <1>1, <1>2, HookSessionsStep, StashPastStep
<1>6. SysTypeOK' /\ OwnIds'
  BY <1>1, <1>2, SysTypeStep, OwnIdsStep
<1>7. Agreement' /\ MessageOrder' /\ StashKnown'
  BY <1>1, <1>2, AgreementStep, MessageOrderStep, StashKnownStep
<1> QED
  BY <1>3, <1>4, <1>5, <1>6, <1>7 DEF SysInv

LEMMA SysInvAlways == SysSpec => []SysInv
BY SysInvInit, SysInvStep, PTL DEF SysSpec

\* Program, library and service agree on the hook of a process whenever no call
\* on it is under way, whatever was lost and added again, unless its calls
\* crossed.
THEOREM HooksAgree == SysSpec => []HookAgreement
<1>1. ASSUME SysInv PROVE HookAgreement
  <2> SUFFICES ASSUME NEW p \in Programs \ crossed, Quiet(p)
               PROVE  /\ hookCallback_[p] = (HookOf(p) # {})
                      /\ appCallback[p] = (HookOf(p) # {})
                      /\ HookOf(p) \subseteq {keyEventHookId[p]}
    BY DEF HookAgreement
  <2>1. Agreed(p)
    BY <1>1 DEF SysInv, Agreement
  <2>2. p \in connected /\ InNoHookCall(p)
    BY DEF Quiet, InCalls, InNoHookCall, InHookCall, Threads
  <2> QED
    BY <2>1, <2>2 DEF Agreed
<1> QED
  BY <1>1, SysInvAlways, PTL

\* The library lets the program pass on whatever the service would accept, since
\* it noted the event later than the service did and keeps it as long.
THEOREM LibraryIsNoObstacle == SysSpec => []LibraryLetsPass
<1>1. ASSUME SysInv PROVE LibraryLetsPass
  <2> SUFFICES ASSUME NEW p \in Programs \ crossed, NEW h \in HookOf(p), NEW n \in seen[p],
                      MayPass(h, n), n \notin early[p], n > passedOn[p],
                      InCalls(p, call) = {}
               PROVE  IsValidEvent(p, n)
    BY DEF LibraryLetsPass
  <2>1. PICK s \in stashEvents_[h] : s.event = n /\ now - s.at < STASH_EVENT_TIMEOUT
    BY DEF MayPass, IsStashed, Fresh
  <2>2. Accounted(p, s)
    BY <1>1 DEF SysInv, StashKnown
  <2>3. s \in Stashed /\ now \in Int /\ n \in Int /\ passedOn[p] \in Int
    BY <1>1 DEF SysInv, TypeOK, SysTypeOK, HookOf, Hooks
  <2>4. /\ s.at \in Int /\ TIMEOUT_MS \in Int /\ STASH_EVENT_TIMEOUT \in Int
        /\ STASH_EVENT_TIMEOUT <= TIMEOUT_MS
    BY <2>3, ClientAssumption, HookAssumption DEF Stashed
  <2>5. ~InInbox(p, n)
    <3>1. \A i \in 1 .. Len(inbox[p]) : n < inbox[p][i]
      BY <1>1 DEF SysInv, MessageOrder, InOrder
    <3> QED
      BY <2>3, <3>1 DEF InInbox
  <2>6. ~(n <= passedOn[p]) /\ ~(now - s.at > TIMEOUT_MS)
    BY <2>1, <2>3, <2>4
  <2>7. PICK k \in pendingKeys_[p] : k.event = n /\ k.at >= s.at
    BY <2>1, <2>2, <2>5, <2>6 DEF Accounted
  <2>8. k.at \in Int
    BY <1>1 DEF SysInv, SysTypeOK
  <2>9. now - k.at < TIMEOUT_MS /\ now - k.at <= TIMEOUT_MS
    BY <2>1, <2>3, <2>4, <2>7, <2>8
  <2> QED
    BY <2>7, <2>9 DEF IsValidEvent, Recent
<1> QED
  BY <1>1, SysInvAlways, PTL

\* A process is sent every event once at most and in the order they happened,
\* also when it removed its hook and added another, or lost it and had it added
\* again; and it has one hook at most, and that only while it has a session.
THEOREM MessagesInOrder == SysSpec => [](MessageOrder /\ HookSessions)
BY SysInvAlways, PTL DEF SysInv

\* An id a process knows is never the id of another's hook: it cannot remove a
\* hook that is not its own, also when its calls crossed.
THEOREM OwnHooksOnly == SysSpec => []OwnIds
BY SysInvAlways, PTL DEF SysInv

\* Among real clients, too, events go one way, reach hooks and window in order,
\* and no checker outlives its hook.
THEOREM DeliveryAmongClients ==
  SysSpec => [](OneWay /\ WindowOrder /\ CheckersBelongToHooks) /\ OffersInOrder
<1>1. Spec => []OneWay /\ []WindowOrder /\ []CheckersBelongToHooks /\ OffersInOrder
  BY NumbersDoNotWrap, EventsGoOneWay, WindowInOrder, CheckersGoWithHooks,
     HooksSeeEventsInOrder
<1> QED
  BY <1>1, ServiceAmongClients, PTL
=============================================================================
