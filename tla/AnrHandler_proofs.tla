------------------------- MODULE AnrHandler_proofs -------------------------
(***************************************************************************)
(* What the library of the applications promises, for any number of        *)
(* applications, tasks and events.  Every step of the composition is one   *)
(* of AnrManager or none there, so the theorems about AnrManager hold for  *)
(* it.  For PendingHasTask it is enough that a task ends only when it left *)
(* nothing of its type, and takes all that waits before that.              *)
(***************************************************************************)
EXTENDS AnrHandler, AnrManager_proofs

Pair == [type : Types, id : 1 .. MaxEvents]
TaskType == [own : Pair, at : {"first", "rest"}, calls : SUBSET Pair]

\* A bag of tasks.
IsTaskBag(q) ==
  /\ DOMAIN q \subseteq TaskType
  /\ q \in [DOMAIN q -> Nat \ {0}]

\* The inductive invariant.
HTypes ==
  /\ pendingEvents_ \in [Sessions -> [Types -> {-1} \union 1 .. MaxEvents]]
  /\ tasks = [c \in Sessions |-> tasks[c]]
  /\ \A c \in Sessions : IsTaskBag(tasks[c])

HInv == HTypes /\ PendingHasTask
-----------------------------------------------------------------------------
(* Bags of tasks.                                                          *)

\* A task is added.
LEMMA AddFacts ==
  ASSUME NEW q, IsTaskBag(q), NEW u \in TaskType
  PROVE  /\ IsTaskBag(q (+) One(u))
         /\ DOMAIN (q (+) One(u)) = DOMAIN q \union {u}
<1>1. /\ DOMAIN One(u) = {u}
      /\ One(u)[u] = 1
  BY DEF One, SetToBag
<1>2. DOMAIN (q (+) One(u)) = DOMAIN q \union {u}
  BY <1>1 DEF (+)
<1>3. \A e \in DOMAIN q \union {u} : (q (+) One(u))[e] \in Nat \ {0}
  BY <1>1 DEF (+), IsTaskBag
<1>4. q (+) One(u) = [e \in DOMAIN q \union {u} |-> (q (+) One(u))[e]]
  BY <1>1 DEF (+)
<1> QED
  BY <1>2, <1>3, <1>4 DEF IsTaskBag

\* One copy of a task is taken away; the other tasks stay.
LEMMA RemoveFacts ==
  ASSUME NEW q, IsTaskBag(q), NEW t \in DOMAIN q
  PROVE  /\ IsTaskBag(q (-) One(t))
         /\ DOMAIN q \ {t} \subseteq DOMAIN (q (-) One(t))
<1> DEFINE B == [e \in DOMAIN q |-> IF e \in DOMAIN One(t) THEN q[e] - One(t)[e]
                                                           ELSE q[e]]
           D == {d \in DOMAIN B : B[d] > 0}
<1>1. /\ DOMAIN One(t) = {t}
      /\ One(t)[t] = 1
  BY DEF One, SetToBag
<1>2. q (-) One(t) = [e \in D |-> B[e]]
  BY DEF (-)
<1>3. \A e \in DOMAIN q : B[e] = IF e = t THEN q[e] - 1 ELSE q[e]
  BY <1>1
<1>4. \A e \in DOMAIN q : q[e] \in Nat \ {0}
  BY DEF IsTaskBag
<1>5. DOMAIN q \ {t} \subseteq D
  BY <1>3, <1>4
<1>6. \A e \in D : B[e] \in Nat \ {0}
  BY <1>3, <1>4
<1>7. D \subseteq TaskType
  BY DEF IsTaskBag
<1> HIDE DEF D, B
<1> QED
  BY <1>2, <1>5, <1>6, <1>7 DEF IsTaskBag

\* A task goes on to its next step.
LEMMA BecomeFacts ==
  ASSUME NEW q, IsTaskBag(q), NEW t \in DOMAIN q, NEW u \in TaskType
  PROVE  /\ IsTaskBag(Become(q, t, u))
         /\ u \in DOMAIN Become(q, t, u)
         /\ DOMAIN q \ {t} \subseteq DOMAIN Become(q, t, u)
<1>1. /\ IsTaskBag(q (-) One(t))
      /\ DOMAIN q \ {t} \subseteq DOMAIN (q (-) One(t))
  BY RemoveFacts
<1>2. /\ IsTaskBag((q (-) One(t)) (+) One(u))
      /\ DOMAIN ((q (-) One(t)) (+) One(u)) = DOMAIN (q (-) One(t)) \union {u}
  BY <1>1, AddFacts
<1> QED
  BY <1>1, <1>2 DEF Become
-----------------------------------------------------------------------------
(* Every step keeps the invariant.                                         *)

LEMMA InitHInv == SysInit => HInv
<1> SUFFICES ASSUME SysInit PROVE HInv
  OBVIOUS
<1>1. \A c \in Sessions : tasks[c] = EmptyBag
  BY DEF SysInit
<1>2. DOMAIN EmptyBag = {} /\ IsTaskBag(EmptyBag)
  BY DEF EmptyBag, SetToBag, IsTaskBag
<1>3. HTypes
  BY <1>1, <1>2 DEF SysInit, HTypes
<1>4. \A c \in Sessions, y \in Types : pendingEvents_[c][y] = -1
  BY DEF SysInit
<1> QED
  BY <1>3, <1>4 DEF HInv, PendingHasTask

\* What a step of session c has to show: the rest of the sessions is as before.
LEMMA OneSession ==
  ASSUME HInv, NEW c \in Sessions,
         NEW q, IsTaskBag(q), tasks' = [tasks EXCEPT ![c] = q],
         NEW p \in [Types -> {-1} \union 1 .. MaxEvents],
         pendingEvents_' = [pendingEvents_ EXCEPT ![c] = p],
         \A y \in Types : p[y] # -1 => \E t \in DOMAIN q : Looks(t, y)
  PROVE  HInv'
<1>1. /\ DOMAIN tasks = Sessions /\ DOMAIN pendingEvents_ = Sessions
      /\ \A d \in Sessions : IsTaskBag(tasks[d])
      /\ \A d \in Sessions : pendingEvents_[d] \in [Types -> {-1} \union 1 .. MaxEvents]
  BY DEF HInv, HTypes
<1>2. /\ tasks'[c] = q /\ pendingEvents_'[c] = p
      /\ \A d \in Sessions \ {c} :
           tasks'[d] = tasks[d] /\ pendingEvents_'[d] = pendingEvents_[d]
  BY <1>1
<1>3. HTypes'
  <2>1. pendingEvents_' \in [Sessions -> [Types -> {-1} \union 1 .. MaxEvents]]
    BY DEF HInv, HTypes
  <2>2. tasks' = [d \in Sessions |-> tasks'[d]]
    BY <1>1
  <2>3. \A d \in Sessions : IsTaskBag(tasks'[d])
    BY <1>1, <1>2
  <2>4. \A d \in Sessions : IsTaskBag(tasks[d])'
    BY <2>3 DEF IsTaskBag
  <2> QED
    BY <2>1, <2>2, <2>4 DEF HTypes
<1>4. PendingHasTask'
  <2> SUFFICES ASSUME NEW d \in Sessions, NEW y \in Types, pendingEvents_'[d][y] # -1
               PROVE  \E t \in DOMAIN tasks'[d] : Looks(t, y)
    BY DEF PendingHasTask, BagToSet
  <2>1. CASE d = c
    BY <2>1, <1>2
  <2>2. CASE d # c
    BY <2>2, <1>2 DEF HInv, PendingHasTask, BagToSet
  <2> QED
    BY <2>1, <2>2
<1> QED
  BY <1>3, <1>4 DEF HInv

\* The application marks an event: either the id has a new task, or the one
\* that looks for the older id looks for it.
LEMMA MarkKeepsHInv ==
  ASSUME HInv, NEW c \in Sessions, NEW p \in Pair, SetLastProcessedEventId(c, p)
  PROVE  HInv'
<1> DEFINE old == pendingEvents_[c][p.type]
           new == [pendingEvents_[c] EXCEPT ![p.type] = IF p.id > @ THEN p.id ELSE @]
           q == IF old = -1 THEN tasks[c] (+) One(Task(p)) ELSE tasks[c]
<1>1. /\ DOMAIN tasks = Sessions /\ IsTaskBag(tasks[c])
      /\ pendingEvents_[c] \in [Types -> {-1} \union 1 .. MaxEvents]
      /\ p.type \in Types /\ p.id \in 1 .. MaxEvents
  BY DEF HInv, HTypes, Pair
<1>2. /\ tasks' = [tasks EXCEPT ![c] = q]
      /\ pendingEvents_' = [pendingEvents_ EXCEPT ![c] = new]
  BY DEF SetLastProcessedEventId, SendEvent
<1>3. new \in [Types -> {-1} \union 1 .. MaxEvents]
  BY <1>1
<1>4. Task(p) \in TaskType /\ \A y \in Types : Looks(Task(p), y)
  BY DEF Task, TaskType, Looks
<1>5. /\ IsTaskBag(tasks[c] (+) One(Task(p)))
      /\ DOMAIN (tasks[c] (+) One(Task(p))) = DOMAIN tasks[c] \union {Task(p)}
  BY <1>1, <1>4, AddFacts
<1>6. IsTaskBag(q)
  BY <1>1, <1>5
<1>7. \A y \in Types : new[y] # -1 => \E t \in DOMAIN q : Looks(t, y)
  <2>1. CASE old = -1
    BY <2>1, <1>4, <1>5
  <2>2. CASE old # -1
    <3>1. \A y \in Types : new[y] # -1 => pendingEvents_[c][y] # -1
      BY <2>2, <1>1
    <3> QED
      BY <3>1, <2>2 DEF HInv, PendingHasTask, BagToSet
  <2> QED
    BY <2>1, <2>2
<1> HIDE DEF new, q
<1> QED
  BY <1>2, <1>3, <1>6, <1>7, OneSession

\* A call to the service changes nothing of where the task will look.
LEMMA CallKeepsHInv ==
  ASSUME HInv, NEW c \in Sessions, NEW t \in DOMAIN tasks[c], CallService(c, t)
  PROVE  HInv'
<1>1. PICK p \in t.calls :
        /\ tasks' = [tasks EXCEPT ![c] = Become(@, t, [t EXCEPT !.calls = @ \ {p}])]
        /\ pendingEvents_' = pendingEvents_
  BY DEF CallService
<1> DEFINE u == [t EXCEPT !.calls = @ \ {p}]
           q == Become(tasks[c], t, u)
<1>2. /\ DOMAIN tasks = Sessions /\ DOMAIN pendingEvents_ = Sessions
      /\ IsTaskBag(tasks[c]) /\ t \in TaskType
      /\ pendingEvents_[c] \in [Types -> {-1} \union 1 .. MaxEvents]
  BY DEF HInv, HTypes, IsTaskBag
<1>3. u \in TaskType /\ u.at = t.at /\ u.own = t.own
  BY <1>2 DEF TaskType
<1>4. /\ IsTaskBag(q) /\ u \in DOMAIN q
      /\ DOMAIN tasks[c] \ {t} \subseteq DOMAIN q
  BY <1>2, <1>3, BecomeFacts
<1>5. \A y \in Types : Looks(t, y) => Looks(u, y)
  BY <1>3 DEF Looks
<1>6. \A y \in Types : pendingEvents_[c][y] # -1 => \E k \in DOMAIN q : Looks(k, y)
  BY <1>4, <1>5 DEF HInv, PendingHasTask, BagToSet
<1>7. /\ tasks' = [tasks EXCEPT ![c] = q]
      /\ pendingEvents_' = [pendingEvents_ EXCEPT ![c] = pendingEvents_[c]]
  <2>1. pendingEvents_ = [pendingEvents_ EXCEPT ![c] = pendingEvents_[c]]
    BY DEF HInv, HTypes
  <2> QED
    BY <1>1, <2>1
<1> HIDE DEF q
<1> QED
  BY <1>2, <1>4, <1>6, <1>7, OneSession

\* A task takes all ids: none waits.
LEMMA TakeKeepsHInv ==
  ASSUME HInv, NEW c \in Sessions, NEW t \in DOMAIN tasks[c], TakePending(c, t)
  PROVE  HInv'
<1> DEFINE u == [t EXCEPT !.at = "rest", !.calls = Waiting(c) \ {t.own}]
           q == Become(tasks[c], t, u)
           none == [y \in Types |-> -1]
<1>1. /\ IsTaskBag(tasks[c]) /\ t \in TaskType
      /\ pendingEvents_[c] \in [Types -> {-1} \union 1 .. MaxEvents]
  BY DEF HInv, HTypes, IsTaskBag
<1>2. Waiting(c) \subseteq Pair
  BY <1>1 DEF Waiting, Pair
<1>3. u \in TaskType
  BY <1>1, <1>2 DEF TaskType
<1>4. IsTaskBag(q)
  BY <1>1, <1>3, BecomeFacts
<1>5. /\ tasks' = [tasks EXCEPT ![c] = q]
      /\ pendingEvents_' = [pendingEvents_ EXCEPT ![c] = none]
  BY DEF TakePending
<1>6. none \in [Types -> {-1} \union 1 .. MaxEvents] /\ \A y \in Types : none[y] = -1
  OBVIOUS
<1> HIDE DEF q, none
<1> QED
  BY <1>4, <1>5, <1>6, OneSession

\* A task ends: an id of its own type goes to a new task, one of the other
\* type has a task that looks for it, which is not this one.
LEMMA FinishKeepsHInv ==
  ASSUME HInv, NEW c \in Sessions, NEW t \in DOMAIN tasks[c], Finish(c, t)
  PROVE  HInv'
<1> DEFINE y == t.own.type
           id == pendingEvents_[c][y]
           u == Task([type |-> y, id |-> id])
           q == IF id # -1 THEN Become(tasks[c], t, u) ELSE tasks[c] (-) One(t)
           p == [pendingEvents_[c] EXCEPT ![y] = -1]
<1>1. /\ DOMAIN tasks = Sessions /\ DOMAIN pendingEvents_ = Sessions
      /\ IsTaskBag(tasks[c]) /\ t \in TaskType /\ y \in Types
      /\ pendingEvents_[c] \in [Types -> {-1} \union 1 .. MaxEvents]
  BY DEF HInv, HTypes, IsTaskBag, TaskType, Pair
<1>2. /\ tasks' = [tasks EXCEPT ![c] = q]
      /\ pendingEvents_' = [pendingEvents_ EXCEPT ![c] = p]
  BY <1>1 DEF Finish
<1>3. p \in [Types -> {-1} \union 1 .. MaxEvents]
  BY <1>1
<1>4. id # -1 => u \in TaskType
  BY <1>1 DEF Task, TaskType, Pair
<1>5. IsTaskBag(q) /\ DOMAIN tasks[c] \ {t} \subseteq DOMAIN q
  BY <1>1, <1>4, BecomeFacts, RemoveFacts
<1>6. ASSUME NEW z \in Types, p[z] # -1
      PROVE  \E k \in DOMAIN q : Looks(k, z)
  <2>1. z # y /\ pendingEvents_[c][z] # -1
    BY <1>1, <1>6
  <2>2. PICK k \in DOMAIN tasks[c] : Looks(k, z)
    BY <2>1 DEF HInv, PendingHasTask, BagToSet
  <2>3. ~Looks(t, z)
    BY <2>1 DEF Looks, Finish
  <2> QED
    BY <2>2, <2>3, <1>5
<1> HIDE DEF p, q
<1> QED
  BY <1>2, <1>3, <1>5, <1>6, OneSession

LEMMA NextHInv == HInv /\ [SysNext]_sysVars => HInv'
<1> SUFFICES ASSUME HInv, [SysNext]_sysVars PROVE HInv'
  OBVIOUS
<1>1. CASE UNCHANGED handler
  BY <1>1 DEF HInv, HTypes, PendingHasTask, IsTaskBag, handler
<1>2. ASSUME NEW c \in Sessions, Marks(c) PROVE HInv'
  <2>1. PICK y \in Types, id \in 1 .. MaxEvents :
          SetLastProcessedEventId(c, [type |-> y, id |-> id])
    BY <1>2 DEF Marks
  <2>2. [type |-> y, id |-> id] \in Pair
    BY DEF Pair
  <2> QED
    BY <2>1, <2>2, MarkKeepsHInv
<1>3. ASSUME NEW c \in Sessions, TaskStep(c) PROVE HInv'
  BY <1>3, CallKeepsHInv, TakeKeepsHInv, FinishKeepsHInv DEF TaskStep, BagToSet
<1> QED
  BY <1>1, <1>2, <1>3 DEF SysNext, ServiceStep, sysVars
-----------------------------------------------------------------------------
(* The theorems.                                                           *)

\* An id that waits always has a task that will look for it.
THEOREM NothingIsForgotten == SysSpec => []PendingHasTask
<1>1. HInv => PendingHasTask
  BY DEF HInv
<1> QED
  BY <1>1, InitHInv, NextHInv, PTL DEF SysSpec

\* The answers of the library are among those AnrManager allows for.
LEMMA StepOfAnrManager == HInv /\ [SysNext]_sysVars => [Next]_vars
<1> SUFFICES ASSUME HInv, [SysNext]_sysVars PROVE [Next]_vars
  OBVIOUS
<1>1. CASE ServiceStep
  BY <1>1 DEF ServiceStep, Next
<1>2. ASSUME NEW c \in Sessions, Marks(c) PROVE UNCHANGED vars
  BY <1>2 DEF Marks, SetLastProcessedEventId
<1>3. ASSUME NEW c \in Sessions, NEW t \in DOMAIN tasks[c], CallService(c, t)
      PROVE  [Next]_vars
  <2>1. t \in TaskType
    BY DEF HInv, HTypes, IsTaskBag
  <2>2. \A p \in t.calls : p.id \in 1 .. MaxEvents
    BY <2>1 DEF TaskType, Pair
  <2> QED
    BY <1>3, <2>2 DEF CallService, Next
<1>4. ASSUME NEW c \in Sessions, TaskStep(c) PROVE [Next]_vars
  <2>1. PICK t \in DOMAIN tasks[c] : CallService(c, t) \/ TakePending(c, t) \/ Finish(c, t)
    BY <1>4 DEF TaskStep, BagToSet
  <2> QED
    BY <2>1, <1>3 DEF TakePending, Finish
<1> QED
  BY <1>1, <1>2, <1>4 DEF SysNext, sysVars

THEOREM LibraryAnswersAsExpected == SysSpec => ImplementsAnrManager
<1>1. SysInit => Init
  BY DEF SysInit
<1> QED
  BY <1>1, InitHInv, NextHInv, StepOfAnrManager, PTL
     DEF SysSpec, ImplementsAnrManager, Spec

\* What holds for applications that answer as they like holds with the library:
\* the invariants of AnrManager.
THEOREM WatchHoldsWithTheLibrary ==
  SysSpec => [](/\ TypeOK /\ CountMatchesRecords /\ ArmedTimersAreRecorded
                /\ AlarmsAwaitAnswers /\ AnrStateHasCause)
BY LibraryAnswersAsExpected, TypeCorrect, CountIsRight, TimersAreRecorded,
   NoFalseAlarm, AnrStateIsCaused, PTL DEF ImplementsAnrManager
=============================================================================
