-------------------------- MODULE AnrManager_proofs --------------------------
(***************************************************************************)
(* Proofs about AnrManager, for every number of sessions, of timers and    *)
(* for all limits and delays.                                              *)
(***************************************************************************)
EXTENDS AnrManager, FiniteSetTheorems, SequenceTheorems, TLAPS

\* Everything but the count has its type.
TypeInv ==
  /\ now \in Nat
  /\ timers \in [TimerIds -> Timer]
  /\ fired \subseteq Timer
  /\ events_ \in [Sessions -> Seq(Record)]
  /\ isAnrProcess_ \in [Sessions -> BOOLEAN]
  /\ anrTimerCount_ \in Int
  /\ eventId \in Nat
  /\ open \in BOOLEAN
  /\ alive \in [Sessions -> BOOLEAN]
  /\ delivered \in [Sessions -> SUBSET Nat]
  /\ acked \in [Sessions -> Nat]

\* Events were dispatched in the order of their ids; the one whose handler is
\* still running was answered by nobody.
EventsInOrder ==
  \A s \in Sessions :
    /\ \A id \in delivered[s] : id <= eventId
    /\ acked[s] <= eventId
    /\ open => acked[s] < eventId

\* A session's list has the events it was sent and did not answer, in order.
ListInOrder ==
  \A s \in Sessions :
    /\ \A i \in 1 .. Len(events_[s]) :
         events_[s][i].id \in delivered[s] /\ events_[s][i].id > acked[s]
    /\ \A i, j \in 1 .. Len(events_[s]) :
         i < j => events_[s][i].id <= events_[s][j].id

\* A collected timer's session has something to answer.
FiredHaveCause ==
  \A t \in fired : t.owner \in Sessions => events_[t.owner] # << >>

AInv ==
  /\ TypeInv
  /\ EventsInOrder
  /\ ListInOrder
  /\ FiredHaveCause
  /\ ArmedTimersAreRecorded
  /\ AlarmsAwaitAnswers
  /\ AnrStateHasCause
-----------------------------------------------------------------------------
(* Lists and timers.                                                       *)

\* The records left after the first n.
LEMMA RestFacts ==
  ASSUME TypeInv, NEW s \in Sessions, NEW n \in 0 .. Len(events_[s])
  PROVE  /\ Rest(s, n) \in Seq(Record)
         /\ Len(Rest(s, n)) = Len(events_[s]) - n
         /\ \A i \in 1 .. Len(Rest(s, n)) : Rest(s, n)[i] = events_[s][i + n]
  <1> DEFINE q == events_[s]
  <1>1. q \in Seq(Record) /\ Len(q) \in Nat
    BY LenProperties DEF TypeInv
  <1>2. \A i \in n + 1 .. Len(q) : q[i] \in Record
    BY <1>1, ElementOfSeq
  <1>3. /\ Rest(s, n) \in Seq(Record)
        /\ Len(Rest(s, n)) = IF n + 1 <= Len(q) THEN Len(q) - (n + 1) + 1 ELSE 0
        /\ \A i \in 1 .. Len(q) - (n + 1) + 1 : Rest(s, n)[i] = q[n + 1 + i - 1]
    <2>1. n + 1 \in Int /\ Len(q) \in Int
      BY <1>1
    <2> QED
      BY <2>1, <1>2, SubSeqProperties DEF Rest
  <1>4. Len(Rest(s, n)) = Len(q) - n
    BY <1>1, <1>3
  <1>5. \A i \in 1 .. Len(Rest(s, n)) : Rest(s, n)[i] = q[i + n]
    <2> TAKE i \in 1 .. Len(Rest(s, n))
    <2>1. i \in 1 .. Len(q) - (n + 1) + 1 /\ n + 1 + i - 1 = i + n
      BY <1>1, <1>4
    <2> QED
      BY <2>1, <1>3
  <1> QED
    BY <1>3, <1>4, <1>5

\* Removing timers leaves the others as they are.
LEMMA WithoutFacts ==
  ASSUME TypeInv, NEW ids
  PROVE  /\ Without(ids) \in [TimerIds -> Timer]
         /\ \A k \in TimerIds : k \in ids => Without(ids)[k] = NoTimer
         /\ \A k \in TimerIds : k \notin ids => Without(ids)[k] = timers[k]
  BY DEF TypeInv, Without, NoTimer, Timer

\* Nobody owns the timer that is not there.
LEMMA NobodyIsNoSession ==
  NoTimer.owner \notin Sessions /\ NoTimer.owner # Other
  BY AnrAssumption DEF NoTimer

\* A list that has lost its first n records, for a cut made by an answer or by
\* HandleAnrState: the timers still armed are recorded in what is left.
LEMMA CutKeepsRecords ==
  ASSUME TypeInv, ArmedTimersAreRecorded,
         NEW s \in Sessions, NEW n \in 0 .. Len(events_[s]),
         NEW k \in TimerIds, Without(TimerIdsOf(s, n))[k].owner = s
  PROVE  /\ k \notin TimerIdsOf(s, n)
         /\ Without(TimerIdsOf(s, n))[k] = timers[k]
         /\ \E i \in 1 .. Len(Rest(s, n)) :
              /\ Rest(s, n)[i].id = timers[k].event
              /\ Rest(s, n)[i].timerId = k
  <1>1. k \notin TimerIdsOf(s, n)
    BY WithoutFacts, NobodyIsNoSession
  <1>2. Without(TimerIdsOf(s, n))[k] = timers[k]
    BY <1>1, WithoutFacts
  <1>3. PICK i \in 1 .. Len(events_[s]) :
          events_[s][i].id = timers[k].event /\ events_[s][i].timerId = k
    BY <1>2 DEF ArmedTimersAreRecorded
  <1>4. Len(events_[s]) \in Nat
    BY LenProperties DEF TypeInv
  <1>5. ~(i \in 1 .. n)
    <2>1. k # -1
      BY DEF TimerIds
    <2> QED
      BY <1>1, <1>3, <2>1 DEF TimerIdsOf
  <1>6. i - n \in 1 .. Len(Rest(s, n)) /\ (i - n) + n = i
    BY <1>4, <1>5, RestFacts
  <1>7. Rest(s, n)[i - n] = events_[s][i]
    BY <1>6, RestFacts
  <1> QED
    BY <1>1, <1>2, <1>3, <1>6, <1>7

\* What is left is later than what the cut was made for.
LEMMA CutLeavesLater ==
  ASSUME TypeInv, ListInOrder, NEW s \in Sessions, NEW id \in Nat,
         NEW n \in 0 .. Len(events_[s]), IsCut(s, id, n),
         NEW i \in 1 .. Len(Rest(s, n))
  PROVE  Rest(s, n)[i].id > id
  <1>1. /\ Len(events_[s]) \in Nat
        /\ \A j \in 1 .. Len(events_[s]) : events_[s][j].id \in Nat
    <2>1. events_[s] \in Seq(Record)
      BY DEF TypeInv
    <2>2. \A j \in 1 .. Len(events_[s]) : events_[s][j] \in Record
      BY <2>1, ElementOfSeq
    <2> QED
      BY <2>1, <2>2, LenProperties DEF Record
  <1>2. /\ i + n \in 1 .. Len(events_[s])
        /\ n + 1 \in 1 .. Len(events_[s])
        /\ n < Len(events_[s])
        /\ n + 1 = i + n \/ n + 1 < i + n
    BY <1>1, RestFacts
  <1>3. events_[s][n + 1].id > id
    BY <1>2 DEF IsCut
  <1>4. events_[s][n + 1].id <= events_[s][i + n].id
    BY <1>1, <1>2 DEF ListInOrder
  <1>5. Rest(s, n)[i] = events_[s][i + n]
    BY RestFacts
  <1> QED
    BY <1>1, <1>2, <1>3, <1>4, <1>5

\* HandleAnrState leaves a record of a session in the ANR state: the last of
\* those that are older than its threshold.
LEMMA HandledLeavesOne ==
  ASSUME TypeInv, ListInOrder, NEW s \in Sessions,
         NEW n \in 0 .. Len(events_[s]), IsHandled(s, n),
         events_[s] # << >>
  PROVE  /\ n < Len(events_[s])
         /\ n # 0 => \E last \in n + 1 .. Len(events_[s]) : IsTimeout(s, last)
  <1>1. /\ events_[s] \in Seq(Record)
        /\ Len(events_[s]) \in Nat \ {0}
    BY EmptySeq DEF TypeInv
  <1>2. \A j \in 1 .. Len(events_[s]) : events_[s][j].id \in Nat
    <2>1. \A j \in 1 .. Len(events_[s]) : events_[s][j] \in Record
      BY <1>1, ElementOfSeq
    <2> QED
      BY <2>1 DEF Record
  <1>3. CASE n = 0
    BY <1>1, <1>3
  <1>4. CASE n # 0
    <2>1. PICK i \in 1 .. Len(events_[s]) :
            IsLastDeleted(s, i) /\ IsCut(s, events_[s][i].id, n)
      BY <1>4 DEF IsHandled
    <2>2. PICK last \in 1 .. Len(events_[s]) :
            IsLastTimeout(s, last) /\ events_[s][i].id # events_[s][last].id
      BY <2>1 DEF IsLastDeleted
    <2>3. IsTimeout(s, i)
      BY <2>1 DEF IsLastDeleted
    <2>4. ~(last < i)
      BY <1>1, <2>2, <2>3 DEF IsLastTimeout
    <2>5. i < last
      BY <1>1, <2>2, <2>4
    <2>6. events_[s][i].id < events_[s][last].id
      BY <1>2, <2>2, <2>5 DEF ListInOrder
    <2>7. ~(last <= n)
      BY <1>1, <1>2, <2>1, <2>6 DEF IsCut
    <2>8. IsTimeout(s, last) /\ last \in n + 1 .. Len(events_[s])
      BY <1>1, <2>2, <2>7 DEF IsLastTimeout
    <2> QED
      BY <1>1, <2>7, <2>8
  <1> QED
    BY <1>3, <1>4

\* How many of the first n records name a timer.
LEMMA ArmedIsNat ==
  ASSUME NEW s, NEW n \in Nat
  PROVE  Armed(s, n) \in Nat
  <1>1. IsFiniteSet(1 .. n)
    BY FS_Interval
  <1>2. {i \in 1 .. n : events_[s][i].timerId # -1} \in SUBSET (1 .. n)
    OBVIOUS
  <1> QED
    BY <1>1, <1>2, FS_Subset, FS_CardinalityType DEF Armed

-----------------------------------------------------------------------------
(* Steps.                                                                  *)

\* The ANR state a cut leaves behind.
LEMMA AnrAfterFacts ==
  ASSUME TypeInv, AnrStateHasCause,
         NEW s \in Sessions, NEW n \in 0 .. Len(events_[s])
  PROVE  /\ AnrAfter(s, n) \in BOOLEAN
         /\ AnrAfter(s, n) => Rest(s, n) # << >>
  <1>1. AnrAfter(s, n) \in BOOLEAN
    BY DEF AnrAfter
  <1>2. ASSUME AnrAfter(s, n) PROVE Rest(s, n) # << >>
    <2>1. CASE n = 0
      <3>1. events_[s] # << >> /\ events_[s] \in Seq(Record)
        BY <1>2 DEF AnrAfter, AnrStateHasCause, TypeInv
      <3>2. Len(Rest(s, n)) \in Nat \ {0}
        BY <2>1, <3>1, EmptySeq, RestFacts
      <3> QED
        BY <3>2, EmptySeq
    <2>2. CASE n > 0
      BY <1>2, <2>2 DEF AnrAfter
    <2> QED
      BY <2>1, <2>2
  <1> QED
    BY <1>1, <1>2

\* What is left of a list in order is in order.
LEMMA RestInOrder ==
  ASSUME TypeInv, ListInOrder,
         NEW s \in Sessions, NEW n \in 0 .. Len(events_[s])
  PROVE  /\ \A i \in 1 .. Len(Rest(s, n)) :
              /\ Rest(s, n)[i].id \in delivered[s]
              /\ Rest(s, n)[i].id > acked[s]
         /\ \A i, j \in 1 .. Len(Rest(s, n)) :
              i < j => Rest(s, n)[i].id <= Rest(s, n)[j].id
  <1>1. Len(events_[s]) \in Nat
    BY LenProperties DEF TypeInv
  <1>2. \A i \in 1 .. Len(Rest(s, n)) :
          i + n \in 1 .. Len(events_[s]) /\ Rest(s, n)[i] = events_[s][i + n]
    BY <1>1, RestFacts
  <1>3. \A i, j \in 1 .. Len(Rest(s, n)) : i < j => i + n < j + n
    BY <1>1, RestFacts
  <1> QED
    BY <1>2, <1>3 DEF ListInOrder

\* The part that MarkProcessed and a dispatch without a new timer share.
LEMMA CutStep ==
  ASSUME AInv, NEW s \in Sessions, NEW n \in 0 .. Len(events_[s]),
         events_' = [events_ EXCEPT ![s] = Rest(s, n)],
         isAnrProcess_' = [isAnrProcess_ EXCEPT ![s] = AnrAfter(s, n)],
         timers' = Without(TimerIdsOf(s, n))
  PROVE  /\ events_' \in [Sessions -> Seq(Record)]
         /\ isAnrProcess_' \in [Sessions -> BOOLEAN]
         /\ timers' \in [TimerIds -> Timer]
         /\ events_'[s] = Rest(s, n)
         /\ \A r \in Sessions \ {s} : events_'[r] = events_[r]
         /\ ArmedTimersAreRecorded'
         /\ AnrStateHasCause'
  <1> USE DEF AInv
  <1>1. /\ events_' \in [Sessions -> Seq(Record)]
        /\ events_'[s] = Rest(s, n)
        /\ \A r \in Sessions \ {s} : events_'[r] = events_[r]
    BY RestFacts DEF TypeInv
  <1>2. /\ isAnrProcess_' \in [Sessions -> BOOLEAN]
        /\ isAnrProcess_'[s] = AnrAfter(s, n)
        /\ \A r \in Sessions \ {s} : isAnrProcess_'[r] = isAnrProcess_[r]
    BY AnrAfterFacts DEF TypeInv
  <1>3. timers' \in [TimerIds -> Timer]
    BY WithoutFacts
  <1>4. ArmedTimersAreRecorded'
    <2> SUFFICES ASSUME NEW k \in TimerIds, timers'[k].owner \in Sessions
                 PROVE  \E i \in 1 .. Len(events_'[timers'[k].owner]) :
                          /\ events_'[timers'[k].owner][i].id = timers'[k].event
                          /\ events_'[timers'[k].owner][i].timerId = k
      BY DEF ArmedTimersAreRecorded
    <2>1. CASE timers'[k].owner = s
      BY <1>1, <2>1, CutKeepsRecords
    <2>2. CASE timers'[k].owner # s
      <3>1. timers'[k] = timers[k]
        BY WithoutFacts, NobodyIsNoSession
      <3>2. events_'[timers'[k].owner] = events_[timers[k].owner]
        BY <1>1, <2>2, <3>1
      <3> QED
        BY <3>1, <3>2 DEF ArmedTimersAreRecorded
    <2> QED
      BY <2>1, <2>2
  <1>5. AnrStateHasCause'
    <2> SUFFICES ASSUME NEW r \in Sessions, isAnrProcess_'[r]
                 PROVE  events_'[r] # << >>
      BY DEF AnrStateHasCause
    <2>1. CASE r = s
      BY <1>1, <1>2, <2>1, AnrAfterFacts
    <2>2. CASE r # s
      BY <1>1, <1>2, <2>2 DEF AnrStateHasCause
    <2> QED
      BY <2>1, <2>2
  <1> QED
    BY <1>1, <1>2, <1>3, <1>4, <1>5

LEMMA MarkProcessedKeepsAInv ==
  ASSUME AInv, NEW s \in Sessions, NEW id \in Nat, MarkProcessed(s, id)
  PROVE  AInv'
  <1> USE DEF AInv
  <1>1. PICK n \in 0 .. Len(events_[s]) :
          /\ IsCut(s, id, n)
          /\ events_' = [events_ EXCEPT ![s] = Rest(s, n)]
          /\ isAnrProcess_' = [isAnrProcess_ EXCEPT ![s] = AnrAfter(s, n)]
          /\ timers' = Without(TimerIdsOf(s, n))
          /\ anrTimerCount_' = anrTimerCount_ - Armed(s, n)
    BY DEF MarkProcessed
  <1>2. /\ fired = {} /\ fired' = {} /\ id \in delivered[s] /\ alive[s]
        /\ acked' = [acked EXCEPT ![s] = IF id > @ THEN id ELSE @]
        /\ open' = FALSE
        /\ UNCHANGED <<now, eventId, alive, delivered>>
    BY DEF MarkProcessed, Idle
  <1>3. /\ events_' \in [Sessions -> Seq(Record)]
        /\ isAnrProcess_' \in [Sessions -> BOOLEAN]
        /\ timers' \in [TimerIds -> Timer]
        /\ events_'[s] = Rest(s, n)
        /\ \A r \in Sessions \ {s} : events_'[r] = events_[r]
        /\ ArmedTimersAreRecorded'
        /\ AnrStateHasCause'
    BY <1>1, CutStep
  <1>4. /\ acked' \in [Sessions -> Nat]
        /\ acked'[s] >= id /\ acked'[s] >= acked[s]
        /\ acked'[s] = id \/ acked'[s] = acked[s]
        /\ \A r \in Sessions \ {s} : acked'[r] = acked[r]
    BY <1>2 DEF TypeInv
  <1>5. TypeInv'
    <2>1. anrTimerCount_' \in Int
      BY <1>1, ArmedIsNat DEF TypeInv
    <2> QED
      BY <1>2, <1>3, <1>4, <2>1 DEF TypeInv
  <1>6. EventsInOrder'
    BY <1>2, <1>4 DEF EventsInOrder, TypeInv
  <1>7. ListInOrder'
    <2>1. \A i \in 1 .. Len(Rest(s, n)) : Rest(s, n)[i].id > id
      BY <1>1, CutLeavesLater
    <2>2. \A i \in 1 .. Len(Rest(s, n)) :
            /\ Rest(s, n)[i].id \in delivered[s]
            /\ Rest(s, n)[i].id > acked'[s]
      BY <1>4, <2>1, RestInOrder
    <2>3. \A i, j \in 1 .. Len(Rest(s, n)) :
            i < j => Rest(s, n)[i].id <= Rest(s, n)[j].id
      BY RestInOrder
    <2> QED
      BY <1>2, <1>3, <1>4, <2>2, <2>3 DEF ListInOrder
  <1>8. FiredHaveCause'
    BY <1>2 DEF FiredHaveCause
  <1>9. AlarmsAwaitAnswers'
    <2> SUFFICES ASSUME NEW k \in TimerIds, timers'[k].owner \in Sessions
                 PROVE  /\ alive'[timers'[k].owner]
                        /\ timers'[k].event \in delivered'[timers'[k].owner]
                        /\ timers'[k].event > acked'[timers'[k].owner]
      BY <1>2 DEF AlarmsAwaitAnswers, Unanswered
    <2>1. timers'[k] = timers[k]
      BY <1>1, WithoutFacts, NobodyIsNoSession
    <2>2. CASE timers'[k].owner = s
      <3>1. PICK i \in 1 .. Len(events_'[s]) :
              events_'[s][i].id = timers'[k].event
        BY <1>3, <2>2 DEF ArmedTimersAreRecorded
      <3>2. events_'[s][i].id \in delivered'[s] /\ events_'[s][i].id > acked'[s]
        BY <1>7, <3>1 DEF ListInOrder
      <3> QED
        BY <1>2, <2>2, <3>1, <3>2
    <2>3. CASE timers'[k].owner # s
      BY <1>2, <1>4, <2>1, <2>3 DEF AlarmsAwaitAnswers, Unanswered
    <2> QED
      BY <2>2, <2>3
  <1> QED
    BY <1>3, <1>5, <1>6, <1>7, <1>8, <1>9

\* The facts a new event brings, also when it is sent to a second window.
LEMMA NewEventFacts ==
  ASSUME TypeInv, EventsInOrder, NEW id \in Nat, IsEvent(id)
  PROVE  /\ id >= eventId
         /\ \A s \in Sessions : acked[s] < id
         /\ \A s \in Sessions : \A e \in delivered[s] : e <= id
  <1>1. eventId \in Nat /\ \A s \in Sessions : acked[s] \in Nat
    BY DEF TypeInv
  <1>2. \A s \in Sessions : delivered[s] \subseteq Nat
    BY DEF TypeInv
  <1>3. CASE id = eventId + 1
    BY <1>1, <1>2, <1>3 DEF EventsInOrder
  <1>4. CASE id = eventId /\ open
    BY <1>1, <1>2, <1>4 DEF EventsInOrder
  <1> QED
    BY <1>3, <1>4 DEF IsEvent

\* A record and a timer for it are added to what the cut left.
LEMMA AddTimerStep ==
  ASSUME AInv, NEW s \in Sessions, NEW id \in Nat,
         NEW n \in 0 .. Len(events_[s]), AddTimer(s, id, n),
         isAnrProcess_' = [isAnrProcess_ EXCEPT ![s] = AnrAfter(s, n)]
  PROVE  /\ events_' \in [Sessions -> Seq(Record)]
         /\ isAnrProcess_' \in [Sessions -> BOOLEAN]
         /\ timers' \in [TimerIds -> Timer]
         /\ anrTimerCount_' \in Int
         /\ Len(events_'[s]) = Len(Rest(s, n)) + 1
         /\ \A i \in 1 .. Len(Rest(s, n)) : events_'[s][i] = Rest(s, n)[i]
         /\ events_'[s][Len(Rest(s, n)) + 1].id = id
         /\ \A r \in Sessions \ {s} : events_'[r] = events_[r]
         /\ \A k \in TimerIds : timers'[k].owner \in Sessions =>
              timers'[k] = timers[k] \/ (timers'[k].owner = s /\ timers'[k].event = id)
         /\ ArmedTimersAreRecorded'
         /\ AnrStateHasCause'
  <1> USE DEF AInv
  <1>1. PICK k \in TimerIds :
          /\ IsFreeId(k, TimerIdsOf(s, n))
          /\ timers' = [Without(TimerIdsOf(s, n)) EXCEPT
                ![k] = [owner |-> s, event |-> id, due |-> now + TimerDelay]]
          /\ events_' = [events_ EXCEPT
                ![s] = Append(Rest(s, n), [id |-> id, time |-> now,
                                           timerId |-> k])]
          /\ anrTimerCount_' = anrTimerCount_ - Armed(s, n) + 1
    BY DEF AddTimer
  <1> DEFINE new == [owner |-> s, event |-> id, due |-> now + TimerDelay]
             rec == [id |-> id, time |-> now, timerId |-> k]
             left == Rest(s, n)
  <1>2. rec \in Record /\ new \in Timer
    BY AnrAssumption DEF Record, Timer, TypeInv
  <1>3. left \in Seq(Record) /\ Len(left) \in Nat
    BY RestFacts, LenProperties
  <1>4. /\ Append(left, rec) \in Seq(Record)
        /\ Append(left, rec) # << >>
        /\ Len(Append(left, rec)) = Len(left) + 1
        /\ \A i \in 1 .. Len(left) : Append(left, rec)[i] = left[i]
        /\ Append(left, rec)[Len(left) + 1] = rec
    BY <1>2, <1>3, AppendProperties
  <1>5. /\ events_' \in [Sessions -> Seq(Record)]
        /\ events_'[s] = Append(left, rec)
        /\ \A r \in Sessions \ {s} : events_'[r] = events_[r]
    BY <1>1, <1>4 DEF TypeInv
  <1>6. /\ isAnrProcess_' \in [Sessions -> BOOLEAN]
        /\ \A r \in Sessions \ {s} : isAnrProcess_'[r] = isAnrProcess_[r]
    BY AnrAfterFacts DEF TypeInv
  <1>7. /\ timers' \in [TimerIds -> Timer]
        /\ timers'[k] = new
        /\ \A j \in TimerIds \ {k} : timers'[j] = Without(TimerIdsOf(s, n))[j]
    BY <1>1, <1>2, WithoutFacts
  <1>8. anrTimerCount_' \in Int
    <2>1. n \in Nat
      BY LenProperties DEF TypeInv
    <2> QED
      BY <1>1, <2>1, ArmedIsNat DEF TypeInv
  <1>9. \A j \in TimerIds : timers'[j].owner \in Sessions =>
          timers'[j] = timers[j] \/ (timers'[j].owner = s /\ timers'[j].event = id)
    <2> TAKE j \in TimerIds
    <2> HAVE timers'[j].owner \in Sessions
    <2>1. CASE j = k
      BY <1>7, <2>1
    <2>2. CASE j # k
      <3>1. Without(TimerIdsOf(s, n))[j] = timers'[j]
        BY <1>7, <2>2
      <3>2. j \notin TimerIdsOf(s, n)
        BY <3>1, WithoutFacts, NobodyIsNoSession
      <3>3. Without(TimerIdsOf(s, n))[j] = timers[j]
        BY <3>2 DEF Without
      <3> QED
        BY <3>1, <3>3
    <2> QED
      BY <2>1, <2>2
  <1>10. ArmedTimersAreRecorded'
    <2> SUFFICES ASSUME NEW j \in TimerIds, timers'[j].owner \in Sessions
                 PROVE  \E i \in 1 .. Len(events_'[timers'[j].owner]) :
                          /\ events_'[timers'[j].owner][i].id = timers'[j].event
                          /\ events_'[timers'[j].owner][i].timerId = j
      BY DEF ArmedTimersAreRecorded
    <2>1. CASE j = k
      <3>1. Len(left) + 1 \in 1 .. Len(events_'[s])
        BY <1>3, <1>4, <1>5
      <3>2. /\ events_'[s][Len(left) + 1].id = id
            /\ events_'[s][Len(left) + 1].timerId = k
        BY <1>4, <1>5
      <3> QED
        BY <1>7, <2>1, <3>1, <3>2
    <2>2. CASE j # k /\ timers'[j].owner = s
      <3>1. Without(TimerIdsOf(s, n))[j].owner = s
        BY <1>7, <2>2
      <3>2. PICK i \in 1 .. Len(left) :
              left[i].id = timers[j].event /\ left[i].timerId = j
        BY <3>1, CutKeepsRecords
      <3>3. timers'[j] = timers[j]
        BY <1>7, <2>2, <3>1, CutKeepsRecords
      <3>4. i \in 1 .. Len(events_'[s]) /\ events_'[s][i] = left[i]
        BY <1>3, <1>4, <1>5
      <3> QED
        BY <2>2, <3>2, <3>3, <3>4
    <2>3. CASE timers'[j].owner # s
      <3>1. timers'[j] = timers[j]
        BY <1>9, <2>3
      <3>2. events_'[timers'[j].owner] = events_[timers[j].owner]
        BY <1>5, <2>3, <3>1
      <3> QED
        BY <3>1, <3>2 DEF ArmedTimersAreRecorded
    <2> QED
      BY <2>1, <2>2, <2>3
  <1>11. AnrStateHasCause'
    BY <1>4, <1>5, <1>6 DEF AnrStateHasCause
  <1> QED
    BY <1>4, <1>5, <1>6, <1>7, <1>8, <1>9, <1>10, <1>11

\* What is left after HandleAnrState, if there was anything.
LEMMA HandledLeavesSome ==
  ASSUME TypeInv, ListInOrder, NEW s \in Sessions,
         NEW n \in 0 .. Len(events_[s]), IsHandled(s, n),
         events_[s] # << >>
  PROVE  Rest(s, n) # << >>
  <1>1. n < Len(events_[s]) /\ Len(events_[s]) \in Nat
    BY HandledLeavesOne, LenProperties DEF TypeInv
  <1>2. Len(Rest(s, n)) \in Nat \ {0}
    BY <1>1, RestFacts
  <1> QED
    BY <1>2, EmptySeq

LEMMA DispatchKeepsAInv ==
  ASSUME AInv, NEW s \in Sessions, NEW id \in Nat, Dispatch(s, id)
  PROVE  AInv'
  <1> USE DEF AInv
  <1>1. PICK n \in 0 .. Len(events_[s]) :
          /\ IsHandled(s, n)
          /\ isAnrProcess_' = [isAnrProcess_ EXCEPT ![s] = AnrAfter(s, n)]
          /\ \/ CanAdd(s, n) /\ AddTimer(s, id, n)
             \/ ~CanAdd(s, n) /\ AddNoTimer(s, n)
    BY DEF Dispatch
  <1>2. /\ alive[s] /\ IsEvent(id)
        /\ delivered' = [delivered EXCEPT ![s] = @ \union {id}]
        /\ eventId' = id /\ open' = TRUE
        /\ UNCHANGED <<now, fired, alive, acked>>
    BY DEF Dispatch
  <1>3. /\ id >= eventId
        /\ \A r \in Sessions : acked[r] < id
        /\ \A r \in Sessions : \A e \in delivered[r] : e <= id
    BY <1>2, NewEventFacts
  <1>4. /\ delivered' \in [Sessions -> SUBSET Nat]
        /\ delivered'[s] = delivered[s] \union {id}
        /\ \A r \in Sessions \ {s} : delivered'[r] = delivered[r]
    BY <1>2 DEF TypeInv
  <1>5. EventsInOrder'
    <2> SUFFICES ASSUME NEW r \in Sessions
                 PROVE  /\ \A e \in delivered'[r] : e <= id
                        /\ acked[r] <= id /\ acked[r] < id
      BY <1>2 DEF EventsInOrder
    <2>1. acked[r] < id /\ acked[r] \in Nat
      BY <1>3 DEF TypeInv
    <2>2. \A e \in delivered'[r] : e <= id
      BY <1>3, <1>4
    <2> QED
      BY <2>1, <2>2
  <1>6. CASE AddTimer(s, id, n)
    <2> DEFINE left == Rest(s, n)
    <2>1. /\ events_' \in [Sessions -> Seq(Record)]
          /\ isAnrProcess_' \in [Sessions -> BOOLEAN]
          /\ timers' \in [TimerIds -> Timer]
          /\ anrTimerCount_' \in Int
          /\ Len(events_'[s]) = Len(left) + 1
          /\ \A i \in 1 .. Len(left) : events_'[s][i] = left[i]
          /\ events_'[s][Len(left) + 1].id = id
          /\ \A r \in Sessions \ {s} : events_'[r] = events_[r]
          /\ \A k \in TimerIds : timers'[k].owner \in Sessions =>
               \/ timers'[k] = timers[k]
               \/ timers'[k].owner = s /\ timers'[k].event = id
          /\ ArmedTimersAreRecorded'
          /\ AnrStateHasCause'
      <3>1. isAnrProcess_' = [isAnrProcess_ EXCEPT ![s] = AnrAfter(s, n)]
        BY <1>1
      <3> HIDE DEF AInv
      <3> QED
        BY <1>6, <3>1, AddTimerStep, Zenon
    <2>2. TypeInv'
      BY <1>2, <1>4, <2>1 DEF TypeInv
    <2>3. Len(left) \in Nat /\ \A i \in 1 .. Len(left) : left[i].id \in Nat
      <3>1. left \in Seq(Record) /\ Len(left) \in Nat
        BY RestFacts, LenProperties
      <3>2. \A i \in 1 .. Len(left) : left[i] \in Record
        BY <3>1, ElementOfSeq
      <3> QED
        BY <3>1, <3>2 DEF Record
    <2>4. ListInOrder'
      <3>1. \A i \in 1 .. Len(events_'[s]) :
              i \in 1 .. Len(left) \/ i = Len(left) + 1
        BY <2>1, <2>3
      <3>2. \A i \in 1 .. Len(events_'[s]) :
              events_'[s][i].id \in delivered'[s] /\ events_'[s][i].id > acked'[s]
        <4>1. \A i \in 1 .. Len(left) :
                left[i].id \in delivered[s] /\ left[i].id > acked[s]
          BY RestInOrder
        <4>2. id \in delivered'[s] /\ id > acked[s] /\ acked' = acked
          BY <1>2, <1>3, <1>4
        <4>3. delivered[s] \subseteq delivered'[s]
          BY <1>4
        <4> QED
          BY <2>1, <3>1, <4>1, <4>2, <4>3
      <3>3. \A i \in 1 .. Len(left) : events_'[s][i].id <= id
        BY <1>3, <2>1, RestInOrder
      <3>4. \A i, j \in 1 .. Len(events_'[s]) :
              i < j => events_'[s][i].id <= events_'[s][j].id
        <4> TAKE i, j \in 1 .. Len(events_'[s])
        <4> HAVE i < j
        <4>1. i \in 1 .. Len(left) /\ (j \in 1 .. Len(left) \/ j = Len(left) + 1)
          BY <2>1, <2>3, <3>1
        <4>2. CASE j \in 1 .. Len(left)
          <5>1. left[i].id <= left[j].id
            BY <4>1, <4>2, RestInOrder
          <5> QED
            BY <2>1, <4>1, <4>2, <5>1
        <4>3. CASE j = Len(left) + 1
          BY <2>1, <3>3, <4>1, <4>3
        <4> QED
          BY <4>1, <4>2, <4>3
      <3>5. \A r \in Sessions \ {s} :
              /\ \A i \in 1 .. Len(events_'[r]) :
                   /\ events_'[r][i].id \in delivered'[r]
                   /\ events_'[r][i].id > acked'[r]
              /\ \A i, j \in 1 .. Len(events_'[r]) :
                   i < j => events_'[r][i].id <= events_'[r][j].id
        BY <1>2, <1>4, <2>1 DEF ListInOrder
      <3> QED
        BY <3>2, <3>4, <3>5 DEF ListInOrder
    <2>5. FiredHaveCause'
      <3>1. events_'[s] # << >>
        BY <2>1, <2>3, EmptySeq
      <3> QED
        BY <1>2, <2>1, <3>1 DEF FiredHaveCause
    <2>6. AlarmsAwaitAnswers'
      <3>1. \A k \in TimerIds : Unanswered(timers[k])'
        <4> SUFFICES ASSUME NEW k \in TimerIds, timers'[k].owner \in Sessions
                     PROVE  /\ alive'[timers'[k].owner]
                            /\ timers'[k].event \in delivered'[timers'[k].owner]
                            /\ timers'[k].event > acked'[timers'[k].owner]
          BY DEF Unanswered
        <4>1. CASE timers'[k] = timers[k]
          BY <1>2, <1>4, <4>1 DEF AlarmsAwaitAnswers, Unanswered
        <4>2. CASE timers'[k].owner = s /\ timers'[k].event = id
          BY <1>2, <1>3, <1>4, <4>2
        <4> QED
          BY <2>1, <4>1, <4>2
      <3>2. \A t \in fired' : Unanswered(t)'
        BY <1>2, <1>4 DEF AlarmsAwaitAnswers, Unanswered
      <3> QED
        BY <3>1, <3>2 DEF AlarmsAwaitAnswers
    <2> QED
      BY <1>5, <2>1, <2>2, <2>4, <2>5, <2>6
  <1>7. CASE AddNoTimer(s, n)
    <2>1. /\ events_' \in [Sessions -> Seq(Record)]
          /\ isAnrProcess_' \in [Sessions -> BOOLEAN]
          /\ timers' \in [TimerIds -> Timer]
          /\ events_'[s] = Rest(s, n)
          /\ \A r \in Sessions \ {s} : events_'[r] = events_[r]
          /\ ArmedTimersAreRecorded'
          /\ AnrStateHasCause'
      BY <1>1, <1>7, CutStep DEF AddNoTimer
    <2>2. TypeInv'
      <3>1. n \in Nat
        BY LenProperties DEF TypeInv
      <3> QED
        BY <1>2, <1>4, <1>7, <2>1, <3>1, ArmedIsNat DEF TypeInv, AddNoTimer
    <2>3. ListInOrder'
      <3>1. \A r \in Sessions \ {s} :
              /\ \A i \in 1 .. Len(events_'[r]) :
                   /\ events_'[r][i].id \in delivered'[r]
                   /\ events_'[r][i].id > acked'[r]
              /\ \A i, j \in 1 .. Len(events_'[r]) :
                   i < j => events_'[r][i].id <= events_'[r][j].id
        BY <1>2, <1>4, <2>1 DEF ListInOrder
      <3>2. /\ \A i \in 1 .. Len(events_'[s]) :
                 /\ events_'[s][i].id \in delivered'[s]
                 /\ events_'[s][i].id > acked'[s]
            /\ \A i, j \in 1 .. Len(events_'[s]) :
                 i < j => events_'[s][i].id <= events_'[s][j].id
        BY <1>2, <1>4, <2>1, RestInOrder
      <3> QED
        BY <3>1, <3>2 DEF ListInOrder
    <2>4. FiredHaveCause'
      <3>1. events_[s] # << >> => events_'[s] # << >>
        BY <1>1, <2>1, HandledLeavesSome
      <3>2. \A t \in fired : t.owner \in Sessions => events_[t.owner] # << >>
        BY DEF FiredHaveCause
      <3>3. fired' = fired
        BY <1>2
      <3> QED
        BY <2>1, <3>1, <3>2, <3>3 DEF FiredHaveCause
    <2>5. AlarmsAwaitAnswers'
      <3>1. \A k \in TimerIds : timers'[k].owner \in Sessions =>
              timers'[k] = timers[k]
        BY <1>7, WithoutFacts, NobodyIsNoSession DEF AddNoTimer
      <3>2. \A r \in Sessions : delivered[r] \subseteq delivered'[r]
        BY <1>4
      <3> QED
        BY <1>2, <3>1, <3>2 DEF AlarmsAwaitAnswers, Unanswered
    <2> QED
      BY <1>5, <2>1, <2>2, <2>3, <2>4, <2>5
  <1> QED
    BY <1>1, <1>6, <1>7

LEMMA DispatchUntrackedKeepsAInv ==
  ASSUME AInv, NEW s \in Sessions, NEW id \in Nat, DispatchUntracked(s, id)
  PROVE  AInv'
  <1> USE DEF AInv
  <1>1. PICK n \in 0 .. Len(events_[s]) :
          /\ IsHandled(s, n)
          /\ isAnrProcess_' = [isAnrProcess_ EXCEPT ![s] = AnrAfter(s, n)]
          /\ AddNoTimer(s, n)
    BY DEF DispatchUntracked
  <1>2. /\ IsEvent(id) /\ eventId' = id /\ open' = TRUE
        /\ UNCHANGED <<now, fired, alive, delivered, acked>>
    BY DEF DispatchUntracked, client
  <1>3. /\ id >= eventId
        /\ \A r \in Sessions : acked[r] < id
        /\ \A r \in Sessions : \A e \in delivered[r] : e <= id
    BY <1>2, NewEventFacts
  <1>4. /\ events_' \in [Sessions -> Seq(Record)]
        /\ isAnrProcess_' \in [Sessions -> BOOLEAN]
        /\ timers' \in [TimerIds -> Timer]
        /\ events_'[s] = Rest(s, n)
        /\ \A r \in Sessions \ {s} : events_'[r] = events_[r]
        /\ ArmedTimersAreRecorded'
        /\ AnrStateHasCause'
    BY <1>1, CutStep DEF AddNoTimer
  <1>5. TypeInv'
    <2>1. n \in Nat
      BY LenProperties DEF TypeInv
    <2> QED
      BY <1>1, <1>2, <1>4, <2>1, ArmedIsNat DEF TypeInv, AddNoTimer
  <1>6. EventsInOrder'
    <2>1. \A r \in Sessions : acked[r] <= id
      BY <1>3 DEF TypeInv
    <2> QED
      BY <1>2, <1>3, <2>1 DEF EventsInOrder
  <1>7. ListInOrder'
    BY <1>2, <1>4, RestInOrder DEF ListInOrder
  <1>8. FiredHaveCause'
    <2>1. events_[s] # << >> => events_'[s] # << >>
      BY <1>1, <1>4, HandledLeavesSome
    <2>2. fired' = fired /\ \A r \in Sessions \ {s} : events_'[r] = events_[r]
      BY <1>2, <1>4
    <2> QED
      BY <2>1, <2>2 DEF FiredHaveCause
  <1>9. AlarmsAwaitAnswers'
    <2>1. \A k \in TimerIds : timers'[k].owner \in Sessions =>
            timers'[k] = timers[k]
      BY <1>1, WithoutFacts, NobodyIsNoSession DEF AddNoTimer
    <2> QED
      BY <1>2, <2>1 DEF AlarmsAwaitAnswers, Unanswered
  <1> QED
    BY <1>4, <1>5, <1>6, <1>7, <1>8, <1>9

\* The list of a lost session, without its timers.
LEMMA ClearedFacts ==
  ASSUME NEW q \in Seq(Record)
  PROVE  /\ Cleared(q) \in Seq(Record)
         /\ Len(Cleared(q)) = Len(q)
         /\ \A i \in 1 .. Len(q) :
              Cleared(q)[i].id = q[i].id /\ Cleared(q)[i].timerId = -1
         /\ Cleared(q) = << >> <=> q = << >>
  <1>1. Len(q) \in Nat /\ \A i \in 1 .. Len(q) : q[i] \in Record
    BY LenProperties, ElementOfSeq
  <1>2. \A i \in 1 .. Len(q) :
          /\ [q[i] EXCEPT !.timerId = -1] \in Record
          /\ [q[i] EXCEPT !.timerId = -1].id = q[i].id
          /\ [q[i] EXCEPT !.timerId = -1].timerId = -1
    BY <1>1 DEF Record
  <1>3. Cleared(q) \in Seq(Record) /\ Len(Cleared(q)) = Len(q)
    BY <1>1, <1>2 DEF Cleared
  <1>4. \A i \in 1 .. Len(q) :
          Cleared(q)[i].id = q[i].id /\ Cleared(q)[i].timerId = -1
    BY <1>2 DEF Cleared
  <1>5. Cleared(q) = << >> <=> q = << >>
    <2>1. q = << >> <=> Len(q) = 0
      BY EmptySeq
    <2>2. Cleared(q) = << >> <=> Len(Cleared(q)) = 0
      BY <1>3, EmptySeq
    <2> QED
      BY <1>3, <2>1, <2>2
  <1> QED
    BY <1>3, <1>4, <1>5

LEMMA OnSessionLostKeepsAInv ==
  ASSUME AInv, NEW s \in Sessions, OnSessionLost(s)
  PROVE  AInv'
  <1> USE DEF AInv
  <1> DEFINE all == Len(events_[s])
  <1>1. /\ alive' = [alive EXCEPT ![s] = FALSE]
        /\ timers' = Without(TimerIdsOf(s, all))
        /\ anrTimerCount_' = anrTimerCount_ - Armed(s, all)
        /\ events_' = [events_ EXCEPT ![s] = Cleared(@)]
        /\ fired = {} /\ open' = FALSE
        /\ UNCHANGED <<now, fired, isAnrProcess_, eventId, delivered, acked>>
    BY DEF OnSessionLost, Idle
  <1>2. /\ events_[s] \in Seq(Record) /\ all \in Nat /\ all \in 0 .. Len(events_[s])
        /\ events_'[s] = Cleared(events_[s])
        /\ events_' \in [Sessions -> Seq(Record)]
        /\ \A r \in Sessions \ {s} : events_'[r] = events_[r]
    <2>1. events_[s] \in Seq(Record) /\ all \in Nat
      BY LenProperties DEF TypeInv
    <2> QED
      BY <1>1, <2>1, ClearedFacts DEF TypeInv
  <1>3. \A k \in TimerIds : timers'[k].owner \in Sessions =>
          timers'[k] = timers[k] /\ timers'[k].owner # s
    <2> TAKE k \in TimerIds
    <2> HAVE timers'[k].owner \in Sessions
    <2>1. timers'[k] = timers[k]
      BY <1>1, WithoutFacts, NobodyIsNoSession
    <2>2. ASSUME timers'[k].owner = s PROVE FALSE
      <3>1. /\ Without(TimerIdsOf(s, all))[k].owner = s
            /\ Len(Rest(s, all)) = 0
        BY <1>1, <1>2, <2>2, RestFacts
      <3>2. \E i \in 1 .. Len(Rest(s, all)) : Rest(s, all)[i].timerId = k
        <4>1. TypeInv /\ ArmedTimersAreRecorded /\ all \in 0 .. Len(events_[s])
          BY <1>2
        <4> HIDE DEF AInv, all
        <4> QED
          BY <3>1, <4>1, CutKeepsRecords
      <3> QED
        BY <3>1, <3>2
    <2> QED
      BY <2>1, <2>2
  <1>4. TypeInv'
    <2>1. timers' \in [TimerIds -> Timer]
      BY <1>1, WithoutFacts
    <2>2. anrTimerCount_' \in Int
      BY <1>1, <1>2, ArmedIsNat DEF TypeInv
    <2>3. alive' \in [Sessions -> BOOLEAN]
      BY <1>1 DEF TypeInv
    <2> QED
      BY <1>1, <1>2, <2>1, <2>2, <2>3 DEF TypeInv
  <1>5. EventsInOrder'
    BY <1>1 DEF EventsInOrder
  <1>6. ListInOrder'
    <2>1. Len(events_'[s]) = Len(events_[s])
          /\ \A i \in 1 .. Len(events_[s]) : events_'[s][i].id = events_[s][i].id
      BY <1>2, ClearedFacts
    <2> QED
      BY <1>1, <1>2, <2>1 DEF ListInOrder
  <1>7. FiredHaveCause'
    BY <1>1 DEF FiredHaveCause
  <1>8. ArmedTimersAreRecorded'
    <2> SUFFICES ASSUME NEW k \in TimerIds, timers'[k].owner \in Sessions
                 PROVE  \E i \in 1 .. Len(events_'[timers'[k].owner]) :
                          /\ events_'[timers'[k].owner][i].id = timers'[k].event
                          /\ events_'[timers'[k].owner][i].timerId = k
      BY DEF ArmedTimersAreRecorded
    <2>1. timers'[k] = timers[k] /\ timers[k].owner \in Sessions \ {s}
      BY <1>3
    <2>2. events_'[timers[k].owner] = events_[timers[k].owner]
      BY <1>2, <2>1
    <2> QED
      BY <2>1, <2>2 DEF ArmedTimersAreRecorded
  <1>9. AlarmsAwaitAnswers'
    BY <1>1, <1>3 DEF AlarmsAwaitAnswers, Unanswered, TypeInv
  <1>10. AnrStateHasCause'
    BY <1>1, <1>2, ClearedFacts DEF AnrStateHasCause
  <1> QED
    BY <1>4, <1>5, <1>6, <1>7, <1>8, <1>9, <1>10

\* A step that neither arms a timer of the watch nor touches a session.
LEMMA TimersGo ==
  ASSUME AInv, timers' \in [TimerIds -> Timer],
         \A k \in TimerIds : timers'[k].owner \in Sessions => timers'[k] = timers[k],
         \A t \in fired' : t \in fired \/ \E k \in TimerIds : t = timers[k],
         open' \in BOOLEAN, open' => open,
         now' \in Nat,
         UNCHANGED <<session, eventId, client>>
  PROVE  AInv'
  <1> USE DEF AInv
  <1>1. UNCHANGED <<events_, isAnrProcess_, anrTimerCount_, alive, delivered, acked>>
    BY DEF session, client
  <1>2. fired' \subseteq Timer
    BY DEF TypeInv
  <1>3. TypeInv'
    BY <1>1, <1>2 DEF TypeInv
  <1>4. EventsInOrder' /\ ListInOrder' /\ AnrStateHasCause'
    BY <1>1 DEF EventsInOrder, ListInOrder, AnrStateHasCause
  <1>5. ArmedTimersAreRecorded'
    BY <1>1 DEF ArmedTimersAreRecorded
  <1>6. FiredHaveCause'
    <2> SUFFICES ASSUME NEW t \in fired', t.owner \in Sessions
                 PROVE  events_[t.owner] # << >>
      BY <1>1 DEF FiredHaveCause
    <2>1. CASE t \in fired
      BY <2>1 DEF FiredHaveCause
    <2>2. ASSUME NEW k \in TimerIds, t = timers[k] PROVE events_[t.owner] # << >>
      <3>1. PICK i \in 1 .. Len(events_[t.owner]) : events_[t.owner][i].timerId = k
        BY <2>2 DEF ArmedTimersAreRecorded
      <3>2. Len(<< >>) = 0
        OBVIOUS
      <3> QED
        BY <3>1, <3>2
    <2> QED
      BY <2>1, <2>2
  <1>7. AlarmsAwaitAnswers'
    BY <1>1 DEF AlarmsAwaitAnswers, Unanswered
  <1> QED
    BY <1>3, <1>4, <1>5, <1>6, <1>7

LEMMA InitAInv == Init => AInv
  <1> SUFFICES ASSUME Init PROVE AInv
    OBVIOUS
  <1>1. \A k \in TimerIds : timers[k] = NoTimer
    BY DEF Init
  <1>2. NoTimer \in Timer /\ NoTimer.owner = Nobody
    BY DEF NoTimer, Timer
  <1>3. << >> \in Seq(Record) /\ Len(<< >>) = 0
    BY EmptySeq
  <1>4. TypeInv
    <2>1. timers \in [TimerIds -> Timer]
      BY <1>2 DEF Init
    <2>2. events_ \in [Sessions -> Seq(Record)]
      BY <1>3 DEF Init
    <2>3. now \in Nat /\ anrTimerCount_ \in Int /\ eventId \in Nat
      BY DEF Init
    <2>5. fired \subseteq Timer
      BY DEF Init
    <2>6. open \in BOOLEAN
      BY Zenon DEF Init
    <2>4. /\ isAnrProcess_ \in [Sessions -> BOOLEAN]
          /\ alive \in [Sessions -> BOOLEAN]
          /\ delivered \in [Sessions -> SUBSET Nat]
          /\ acked \in [Sessions -> Nat]
      BY DEF Init
    <2> QED
      BY <2>1, <2>2, <2>3, <2>4, <2>5, <2>6 DEF TypeInv
  <1>5. EventsInOrder /\ FiredHaveCause /\ AnrStateHasCause
    BY DEF Init, EventsInOrder, FiredHaveCause, AnrStateHasCause
  <1>6. ListInOrder
    BY <1>3 DEF Init, ListInOrder
  <1>7. ArmedTimersAreRecorded
    BY <1>1, <1>2, NobodyIsNoSession DEF ArmedTimersAreRecorded
  <1>8. AlarmsAwaitAnswers
    BY <1>1, <1>2, NobodyIsNoSession DEF Init, AlarmsAwaitAnswers, Unanswered
  <1> QED
    BY <1>4, <1>5, <1>6, <1>7, <1>8 DEF AInv

LEMMA TickKeepsAInv ==
  ASSUME AInv, Tick
  PROVE  AInv'
  <1>1. /\ now' = now + 1
        /\ UNCHANGED <<timers, fired, session, eventId, open, client>>
    BY DEF Tick
  <1>2. timers' \in [TimerIds -> Timer] /\ open' \in BOOLEAN /\ now' \in Nat
    BY <1>1 DEF AInv, TypeInv
  <1> QED
    BY <1>1, <1>2, TimersGo

LEMMA OtherArmsKeepsAInv ==
  ASSUME AInv, OtherArms
  PROVE  AInv'
  <1>1. PICK k \in TimerIds :
          timers' = [timers EXCEPT
                       ![k] = [owner |-> Other, event |-> 0, due |-> now + 1]]
    BY DEF OtherArms
  <1>2. UNCHANGED <<now, fired, session, eventId, open, client>>
    BY DEF OtherArms
  <1>3. now \in Nat /\ timers \in [TimerIds -> Timer] /\ open \in BOOLEAN
    BY DEF AInv, TypeInv
  <1>4. timers' \in [TimerIds -> Timer]
    BY <1>1, <1>3 DEF Timer
  <1>5. \A j \in TimerIds : timers'[j].owner \in Sessions => timers'[j] = timers[j]
    BY <1>1, <1>3, AnrAssumption
  <1> QED
    BY <1>2, <1>3, <1>4, <1>5, TimersGo

LEMMA OtherRemovesKeepsAInv ==
  ASSUME AInv, OtherRemoves
  PROVE  AInv'
  <1>1. PICK k \in TimerIds : timers' = Without({k})
    BY DEF OtherRemoves
  <1>2. UNCHANGED <<now, fired, session, eventId, open, client>>
    BY DEF OtherRemoves
  <1>3. TypeInv /\ now \in Nat /\ open \in BOOLEAN
    BY DEF AInv, TypeInv
  <1>4. /\ timers' \in [TimerIds -> Timer]
        /\ \A j \in TimerIds : timers'[j].owner \in Sessions => timers'[j] = timers[j]
    BY <1>1, <1>3, WithoutFacts, NobodyIsNoSession
  <1> QED
    BY <1>2, <1>3, <1>4, TimersGo

LEMMA ProcessTimersKeepsAInv ==
  ASSUME AInv, ProcessTimers
  PROVE  AInv'
  <1>1. /\ timers' = Without(Due)
        /\ fired' = {timers[k] : k \in Due} /\ open' = FALSE
        /\ UNCHANGED <<now, session, eventId, client>>
    BY DEF ProcessTimers
  <1>2. TypeInv /\ now' \in Nat
    BY <1>1 DEF AInv, TypeInv
  <1>3. /\ timers' \in [TimerIds -> Timer]
        /\ \A j \in TimerIds : timers'[j].owner \in Sessions => timers'[j] = timers[j]
    BY <1>1, <1>2, WithoutFacts, NobodyIsNoSession
  <1>4. \A t \in fired' : \E k \in TimerIds : t = timers[k]
    BY <1>1 DEF Due
  <1> QED
    BY <1>1, <1>2, <1>3, <1>4, TimersGo

LEMMA OtherFiresKeepsAInv ==
  ASSUME AInv, NEW t \in fired, OtherFires(t)
  PROVE  AInv'
  <1>1. /\ fired' = fired \ {t} /\ open' = FALSE
        /\ UNCHANGED <<now, timers, session, eventId, client>>
    BY DEF OtherFires
  <1>2. timers' \in [TimerIds -> Timer] /\ now' \in Nat
    BY <1>1 DEF AInv, TypeInv
  <1> QED
    BY <1>1, <1>2, TimersGo

LEMMA TimerFiresKeepsAInv ==
  ASSUME AInv, NEW t \in fired, TimerFires(t)
  PROVE  AInv'
  <1> USE DEF AInv
  <1>1. PICK visible \in BOOLEAN :
          isAnrProcess_' = [isAnrProcess_ EXCEPT ![t.owner] = @ \/ visible]
    BY DEF TimerFires
  <1>2. /\ t.owner \in Sessions
        /\ fired' = fired \ {t} /\ open' = FALSE
        /\ UNCHANGED <<now, timers, events_, anrTimerCount_, eventId, client>>
    BY DEF TimerFires
  <1>3. UNCHANGED <<alive, delivered, acked>>
    BY <1>2 DEF client
  <1>4. /\ isAnrProcess_' \in [Sessions -> BOOLEAN]
        /\ \A s \in Sessions \ {t.owner} : isAnrProcess_'[s] = isAnrProcess_[s]
    BY <1>1, <1>2 DEF TypeInv
  <1>5. TypeInv'
    BY <1>2, <1>3, <1>4 DEF TypeInv
  <1>6. EventsInOrder' /\ ListInOrder'
    BY <1>2, <1>3 DEF EventsInOrder, ListInOrder
  <1>7. FiredHaveCause' /\ ArmedTimersAreRecorded'
    BY <1>2 DEF FiredHaveCause, ArmedTimersAreRecorded
  <1>8. AlarmsAwaitAnswers'
    BY <1>2, <1>3 DEF AlarmsAwaitAnswers, Unanswered
  <1>9. AnrStateHasCause'
    BY <1>2, <1>4 DEF AnrStateHasCause, FiredHaveCause
  <1> QED
    BY <1>5, <1>6, <1>7, <1>8, <1>9
-----------------------------------------------------------------------------
(* The theorems.                                                           *)

LEMMA NextAInv == AInv /\ [Next]_vars => AInv'
  <1> SUFFICES ASSUME AInv, [Next]_vars PROVE AInv'
    OBVIOUS
  <1>1. CASE Tick
    BY <1>1, TickKeepsAInv
  <1>2. CASE OtherArms
    BY <1>2, OtherArmsKeepsAInv
  <1>3. CASE OtherRemoves
    BY <1>3, OtherRemovesKeepsAInv
  <1>4. CASE ProcessTimers
    BY <1>4, ProcessTimersKeepsAInv
  <1>5. ASSUME NEW s \in Sessions, OnSessionLost(s) PROVE AInv'
    BY <1>5, OnSessionLostKeepsAInv
  <1>6. ASSUME NEW s \in Sessions, NEW id \in 1 .. MaxEvents, Dispatch(s, id)
        PROVE  AInv'
    BY <1>6, DispatchKeepsAInv
  <1>7. ASSUME NEW s \in Sessions, NEW id \in 1 .. MaxEvents,
               DispatchUntracked(s, id)
        PROVE  AInv'
    BY <1>7, DispatchUntrackedKeepsAInv
  <1>8. ASSUME NEW s \in Sessions, NEW id \in 1 .. MaxEvents, MarkProcessed(s, id)
        PROVE  AInv'
    BY <1>8, MarkProcessedKeepsAInv
  <1>9. ASSUME NEW t \in fired, TimerFires(t) PROVE AInv'
    BY <1>9, TimerFiresKeepsAInv
  <1>10. ASSUME NEW t \in fired, OtherFires(t) PROVE AInv'
    BY <1>10, OtherFiresKeepsAInv
  <1>11. CASE UNCHANGED vars
    <2>1. /\ UNCHANGED <<now, timers, fired, session, eventId, open, client>>
          /\ timers' \in [TimerIds -> Timer] /\ open' \in BOOLEAN /\ now' \in Nat
      BY <1>11 DEF vars, AInv, TypeInv
    <2> QED
      BY <2>1, TimersGo
  <1> QED
    BY <1>1, <1>2, <1>3, <1>4, <1>5, <1>6, <1>7, <1>8, <1>9, <1>10, <1>11
    DEF Next

\* The invariant that carries the three theorems below.
THEOREM Invariant == Spec => []AInv
  BY InitAInv, NextAInv, PTL DEF Spec

\* Every armed timer of the watch is named by a record of its event in the list
\* of its session, through reuse of timer ids, session loss and the pruning of
\* HandleAnrState, whatever the limits and delays are.
THEOREM TimersAreRecorded == Spec => []ArmedTimersAreRecorded
  <1>1. AInv => ArmedTimersAreRecorded
    BY DEF AInv
  <1> QED
    BY <1>1, Invariant, PTL

\* No application is reported for an event it was not sent or has answered,
\* also when its answer comes just before the round that fires its timer.
THEOREM NoFalseAlarm == Spec => []AlarmsAwaitAnswers
  <1>1. AInv => AlarmsAwaitAnswers
    BY DEF AInv
  <1> QED
    BY <1>1, Invariant, PTL

\* The ANR state of a session always has an unanswered event behind it.
THEOREM AnrStateIsCaused == Spec => []AnrStateHasCause
  <1>1. AInv => AnrStateHasCause
    BY DEF AInv
  <1> QED
    BY <1>1, Invariant, PTL
-----------------------------------------------------------------------------
(* The count of AddTimer's limit.                                          *)

NamingIn(q) == {i \in 1 .. Len(q) : q[i].timerId # -1}
PairsOf(ev, R) == UNION {{r} \X NamingIn(ev[r]) : r \in R}

LEMMA NamingIsFinite ==
  ASSUME NEW q \in Seq(Record)
  PROVE  IsFiniteSet(NamingIn(q)) /\ Cardinality(NamingIn(q)) \in Nat
  <1>1. Len(q) \in Nat
    BY LenProperties
  <1>2. IsFiniteSet(1 .. Len(q))
    BY <1>1, FS_Interval
  <1>3. NamingIn(q) \in SUBSET (1 .. Len(q))
    BY DEF NamingIn
  <1>4. IsFiniteSet(NamingIn(q))
    BY <1>2, <1>3, FS_Subset
  <1> QED
    BY <1>4, FS_CardinalityType

LEMMA PairsAreFinite ==
  ASSUME NEW ev \in [Sessions -> Seq(Record)], NEW R \in SUBSET Sessions
  PROVE  IsFiniteSet(PairsOf(ev, R)) /\ Cardinality(PairsOf(ev, R)) \in Nat
  <1> DEFINE F == {{r} \X NamingIn(ev[r]) : r \in R}
             f == [r \in R |-> {r} \X NamingIn(ev[r])]
  <1>1. IsFiniteSet(R)
    BY AnrAssumption, FS_Subset
  <1>2. f \in Surjection(R, F)
    BY DEF Surjection
  <1>3. IsFiniteSet(F)
    BY <1>1, <1>2, FS_Surjection DEF ExistsSurjection
  <1>4. \A T \in F : IsFiniteSet(T)
    <2> TAKE T \in F
    <2>1. PICK r \in R : T = {r} \X NamingIn(ev[r])
      OBVIOUS
    <2>2. IsFiniteSet({r}) /\ IsFiniteSet(NamingIn(ev[r]))
      BY FS_Singleton, NamingIsFinite
    <2> QED
      BY <2>1, <2>2, FS_Product
  <1>5. IsFiniteSet(PairsOf(ev, R))
    BY <1>3, <1>4, FS_UNION DEF PairsOf
  <1> QED
    BY <1>5, FS_CardinalityType

\* A session's part of the count.
LEMMA PairsSplit ==
  ASSUME NEW ev \in [Sessions -> Seq(Record)], NEW s \in Sessions
  PROVE  Cardinality(PairsOf(ev, Sessions)) =
           Cardinality(PairsOf(ev, Sessions \ {s})) + Cardinality(NamingIn(ev[s]))
  <1> DEFINE others == PairsOf(ev, Sessions \ {s})
             own == {s} \X NamingIn(ev[s])
  <1>1. PairsOf(ev, Sessions) = others \cup own
    BY DEF PairsOf
  <1>2. others \cap own = {}
    BY DEF PairsOf
  <1>3. IsFiniteSet(others) /\ Cardinality(others) \in Nat
    BY PairsAreFinite
  <1>4. IsFiniteSet(NamingIn(ev[s])) /\ Cardinality(NamingIn(ev[s])) \in Nat
    BY NamingIsFinite
  <1>5. IsFiniteSet({s}) /\ Cardinality({s}) = 1
    BY FS_Singleton
  <1>6. IsFiniteSet(own) /\ Cardinality(own) = Cardinality(NamingIn(ev[s]))
    BY <1>4, <1>5, FS_Product
  <1>7. Cardinality(others \cup own) =
          Cardinality(others) + Cardinality(own) - Cardinality(others \cap own)
    <2> HIDE DEF others, own
    <2> QED
      BY <1>3, <1>6, FS_Union
  <1>8. Cardinality(others \cap own) = 0
    BY <1>2, FS_EmptySet
  <1> QED
    BY <1>1, <1>3, <1>4, <1>6, <1>7, <1>8

\* Changing one session's list changes the count by as much.
LEMMA EventsChange ==
  ASSUME events_ \in [Sessions -> Seq(Record)], events_' \in [Sessions -> Seq(Record)],
         NEW s \in Sessions, NEW d \in Int,
         \A r \in Sessions \ {s} : events_'[r] = events_[r],
         Cardinality(NamingIn(events_'[s])) = Cardinality(NamingIn(events_[s])) + d
  PROVE  Cardinality(PairsOf(events_', Sessions)) =
           Cardinality(PairsOf(events_, Sessions)) + d
  <1>1. PairsOf(events_', Sessions \ {s}) = PairsOf(events_, Sessions \ {s})
    BY DEF PairsOf
  <1>2. /\ Cardinality(NamingIn(events_[s])) \in Nat
        /\ Cardinality(PairsOf(events_, Sessions \ {s})) \in Nat
    BY NamingIsFinite, PairsAreFinite
  <1>3. Cardinality(PairsOf(events_, Sessions)) =
          Cardinality(PairsOf(events_, Sessions \ {s})) + Cardinality(NamingIn(events_[s]))
    BY PairsSplit
  <1>4. Cardinality(PairsOf(events_', Sessions)) =
          Cardinality(PairsOf(events_', Sessions \ {s})) + Cardinality(NamingIn(events_'[s]))
    BY PairsSplit
  <1> QED
    BY <1>1, <1>2, <1>3, <1>4

\* Deleting the first n records takes away those of them that name a timer.
LEMMA CutCount ==
  ASSUME NEW q \in Seq(Record), NEW n \in 0 .. Len(q), NEW p \in Seq(Record),
         Len(p) = Len(q) - n,
         \A i \in 1 .. Len(p) : p[i] = q[i + n]
  PROVE  Cardinality(NamingIn(p)) =
           Cardinality(NamingIn(q)) - Cardinality({i \in 1 .. n : q[i].timerId # -1})
  <1> DEFINE head == {i \in 1 .. n : q[i].timerId # -1}
             tail == {i \in n + 1 .. Len(q) : q[i].timerId # -1}
             f == [i \in NamingIn(p) |-> i + n]
  <1>1. Len(q) \in Nat /\ n \in Nat
    BY LenProperties
  <1>2. NamingIn(q) = head \cup tail /\ head \cap tail = {}
    BY <1>1 DEF NamingIn
  <1>3. IsFiniteSet(NamingIn(p)) /\ IsFiniteSet(NamingIn(q))
    BY NamingIsFinite
  <1>4. IsFiniteSet(head) /\ IsFiniteSet(tail)
    BY <1>2, <1>3, FS_Subset
  <1>5. Cardinality(tail) = Cardinality(NamingIn(p))
    <2>1. \A i \in NamingIn(p) : i \in Nat /\ i + n \in tail
      BY <1>1 DEF NamingIn
    <2>2. \A j \in tail : j - n \in NamingIn(p) /\ (j - n) + n = j
      BY <1>1 DEF NamingIn
    <2>3. f \in [NamingIn(p) -> tail]
      BY <2>1
    <2>4. \A i, j \in NamingIn(p) : f[i] = f[j] => i = j
      BY <1>1, <2>1
    <2>5. \A j \in tail : \E i \in NamingIn(p) : f[i] = j
      BY <2>2
    <2> HIDE DEF tail, f
    <2>6. f \in Injection(NamingIn(p), tail)
      BY <2>3, <2>4 DEF Injection, IsInjective
    <2>7. f \in Surjection(NamingIn(p), tail)
      BY <2>3, <2>5, Zenon DEF Surjection
    <2> QED
      BY <1>3, <2>6, <2>7, FS_Bijection DEF ExistsBijection, Bijection
  <1>6. Cardinality(NamingIn(q)) =
          Cardinality(head) + Cardinality(tail) - Cardinality(head \cap tail)
    <2> HIDE DEF head, tail
    <2> QED
      BY <1>2, <1>4, FS_Union
  <1>7. /\ Cardinality(head \cap tail) = 0
        /\ Cardinality(head) \in Nat /\ Cardinality(tail) \in Nat
    BY <1>2, <1>4, FS_EmptySet, FS_CardinalityType
  <1> QED
    BY <1>5, <1>6, <1>7

CountInv == anrTimerCount_ = Cardinality(PairsOf(events_, Sessions))

LEMMA CountInvIsCount == CountInv <=> CountMatchesRecords
  <1>1. \A s \in Sessions : NamingIn(events_[s]) = Naming(s)
    BY DEF NamingIn, Naming
  <1>2. PairsOf(events_, Sessions) = NamingRecords
    BY <1>1 DEF PairsOf, NamingRecords
  <1> QED
    BY <1>2 DEF CountInv, CountMatchesRecords

CountedCut(s, n) ==
  /\ events_' = [events_ EXCEPT ![s] = Rest(s, n)]
  /\ anrTimerCount_' = anrTimerCount_ - Armed(s, n)

\* Deleting records and their timers keeps the count right.
LEMMA CutKeepsCount ==
  ASSUME TypeInv, CountInv, NEW s \in Sessions, NEW n \in 0 .. Len(events_[s]),
         CountedCut(s, n)
  PROVE  CountInv'
  <1>1. events_ \in [Sessions -> Seq(Record)] /\ n \in Nat
    BY LenProperties DEF TypeInv
  <1>2. /\ events_' \in [Sessions -> Seq(Record)] /\ events_'[s] = Rest(s, n)
        /\ \A r \in Sessions \ {s} : events_'[r] = events_[r]
    BY RestFacts DEF TypeInv, CountedCut
  <1>3. Cardinality(NamingIn(events_'[s])) =
          Cardinality(NamingIn(events_[s])) - Armed(s, n)
    BY <1>1, <1>2, RestFacts, CutCount DEF Armed
  <1>4. Armed(s, n) \in Nat /\ Cardinality(NamingIn(events_[s])) \in Nat
    BY <1>1, ArmedIsNat, NamingIsFinite
  <1>5. Cardinality(NamingIn(events_'[s])) =
          Cardinality(NamingIn(events_[s])) + (0 - Armed(s, n))
    BY <1>3, <1>4
  <1>6. Cardinality(PairsOf(events_', Sessions)) =
          Cardinality(PairsOf(events_, Sessions)) + (0 - Armed(s, n))
    <2>1. 0 - Armed(s, n) \in Int
      BY <1>4
    <2> QED
      BY <1>1, <1>2, <1>5, <2>1, EventsChange
  <1>7. Cardinality(PairsOf(events_, Sessions)) \in Nat
    BY <1>1, PairsAreFinite
  <1> QED
    BY <1>4, <1>6, <1>7 DEF CountInv, CountedCut

\* So does a new record with its timer after that.
LEMMA AddTimerKeepsCount ==
  ASSUME TypeInv, CountInv, NEW s \in Sessions, NEW id \in Nat,
         NEW n \in 0 .. Len(events_[s]), AddTimer(s, id, n)
  PROVE  CountInv'
  <1>1. PICK k \in TimerIds :
          /\ events_' = [events_ EXCEPT
                ![s] = Append(Rest(s, n), [id |-> id, time |-> now,
                                           timerId |-> k])]
          /\ anrTimerCount_' = anrTimerCount_ - Armed(s, n) + 1
    BY DEF AddTimer
  <1> DEFINE rec == [id |-> id, time |-> now, timerId |-> k]
             left == Rest(s, n)
  <1>2. rec \in Record /\ rec.timerId # -1
    BY AnrAssumption DEF Record, TypeInv, TimerIds
  <1>3. left \in Seq(Record) /\ Len(left) \in Nat
    BY RestFacts, LenProperties
  <1>4. /\ Append(left, rec) \in Seq(Record)
        /\ Len(Append(left, rec)) = Len(left) + 1
        /\ \A i \in 1 .. Len(left) : Append(left, rec)[i] = left[i]
        /\ Append(left, rec)[Len(left) + 1] = rec
    BY <1>2, <1>3, AppendProperties
  <1>5. /\ events_ \in [Sessions -> Seq(Record)] /\ n \in Nat
        /\ events_' \in [Sessions -> Seq(Record)]
        /\ events_'[s] = Append(left, rec)
        /\ \A r \in Sessions \ {s} : events_'[r] = events_[r]
    BY <1>1, <1>4, LenProperties DEF TypeInv
  <1>6. Cardinality(NamingIn(left)) =
          Cardinality(NamingIn(events_[s])) - Armed(s, n)
    <2>1. /\ events_[s] \in Seq(Record) /\ left \in Seq(Record)
          /\ Len(left) = Len(events_[s]) - n
          /\ \A i \in 1 .. Len(left) : left[i] = events_[s][i + n]
      BY <1>5, RestFacts
    <2> HIDE DEF left
    <2> QED
      BY <2>1, CutCount DEF Armed
  <1>7. NamingIn(Append(left, rec)) = NamingIn(left) \cup {Len(left) + 1}
    <2> HIDE DEF left, rec
    <2> QED
      BY <1>2, <1>3, <1>4 DEF NamingIn
  <1>8. Len(left) + 1 \notin NamingIn(left)
    BY <1>3 DEF NamingIn
  <1>9. Cardinality(NamingIn(events_'[s])) = Cardinality(NamingIn(left)) + 1
    <2>1. IsFiniteSet(NamingIn(left))
      BY <1>3, NamingIsFinite
    <2>2. NamingIn(events_'[s]) = NamingIn(left) \cup {Len(left) + 1}
      BY <1>5, <1>7
    <2> HIDE DEF left, rec
    <2> QED
      BY <1>8, <2>1, <2>2, FS_AddElement
  <1>10. /\ Armed(s, n) \in Nat /\ Cardinality(NamingIn(events_[s])) \in Nat
         /\ Cardinality(PairsOf(events_, Sessions)) \in Nat
    BY <1>5, ArmedIsNat, NamingIsFinite, PairsAreFinite
  <1>11. Cardinality(NamingIn(events_'[s])) =
           Cardinality(NamingIn(events_[s])) + (1 - Armed(s, n))
    BY <1>6, <1>9, <1>10
  <1>12. Cardinality(PairsOf(events_', Sessions)) =
           Cardinality(PairsOf(events_, Sessions)) + (1 - Armed(s, n))
    <2>1. 1 - Armed(s, n) \in Int
      BY <1>10
    <2>2. /\ events_ \in [Sessions -> Seq(Record)]
          /\ events_' \in [Sessions -> Seq(Record)]
          /\ \A r \in Sessions \ {s} : events_'[r] = events_[r]
      BY <1>5
    <2> HIDE DEF left, rec
    <2> DEFINE d == 1 - Armed(s, n)
    <2>3. d \in Int /\ Cardinality(NamingIn(events_'[s])) =
                         Cardinality(NamingIn(events_[s])) + d
      BY <1>11, <2>1
    <2> HIDE DEF d
    <2>4. Cardinality(PairsOf(events_', Sessions)) =
            Cardinality(PairsOf(events_, Sessions)) + d
      BY <2>2, <2>3, EventsChange
    <2> QED
      BY <2>4 DEF d
  <1> QED
    BY <1>1, <1>10, <1>12 DEF CountInv

\* So does a session that loses all its timers.
LEMMA OnSessionLostKeepsCount ==
  ASSUME TypeInv, CountInv, NEW s \in Sessions, OnSessionLost(s)
  PROVE  CountInv'
  <1> DEFINE all == Len(events_[s])
  <1>1. /\ anrTimerCount_' = anrTimerCount_ - Armed(s, all)
        /\ events_' = [events_ EXCEPT ![s] = Cleared(@)]
    BY DEF OnSessionLost
  <1>2. /\ events_ \in [Sessions -> Seq(Record)] /\ events_[s] \in Seq(Record)
        /\ all \in Nat
    BY LenProperties DEF TypeInv
  <1>3. /\ events_' \in [Sessions -> Seq(Record)]
        /\ events_'[s] = Cleared(events_[s])
        /\ \A r \in Sessions \ {s} : events_'[r] = events_[r]
    BY <1>1, <1>2, ClearedFacts
  <1>4. NamingIn(events_'[s]) = {}
    BY <1>2, <1>3, ClearedFacts DEF NamingIn
  <1>5. Armed(s, all) = Cardinality(NamingIn(events_[s]))
    BY DEF Armed, NamingIn
  <1>6. /\ Armed(s, all) \in Nat
        /\ Cardinality(PairsOf(events_, Sessions)) \in Nat
    BY <1>2, ArmedIsNat, PairsAreFinite
  <1>7. Cardinality(NamingIn(events_'[s])) =
          Cardinality(NamingIn(events_[s])) + (0 - Armed(s, all))
    BY <1>4, <1>5, <1>6, FS_EmptySet
  <1>8. Cardinality(PairsOf(events_', Sessions)) =
          Cardinality(PairsOf(events_, Sessions)) + (0 - Armed(s, all))
    <2>1. 0 - Armed(s, all) \in Int
      BY <1>6
    <2> QED
      BY <1>2, <1>3, <1>7, <2>1, EventsChange
  <1> QED
    BY <1>1, <1>6, <1>8 DEF CountInv

LEMMA InitCount == Init => CountInv
  <1> SUFFICES ASSUME Init PROVE CountInv
    OBVIOUS
  <1>1. \A s \in Sessions : NamingIn(events_[s]) = {}
    BY EmptySeq DEF Init, NamingIn
  <1>2. PairsOf(events_, Sessions) = {}
    BY <1>1 DEF PairsOf
  <1>3. anrTimerCount_ = 0
    BY DEF Init
  <1> QED
    BY <1>2, <1>3, FS_EmptySet DEF CountInv

LEMMA NextCount == AInv /\ CountInv /\ [Next]_vars => CountInv'
  <1> SUFFICES ASSUME AInv, CountInv, [Next]_vars PROVE CountInv'
    OBVIOUS
  <1>1. TypeInv
    BY DEF AInv
  <1>2. ASSUME UNCHANGED <<events_, anrTimerCount_>> PROVE CountInv'
    BY <1>2 DEF CountInv
  <1>3. CASE Tick \/ OtherArms \/ OtherRemoves \/ ProcessTimers
    BY <1>2, <1>3 DEF Tick, OtherArms, OtherRemoves, ProcessTimers, session
  <1>4. ASSUME NEW s \in Sessions, OnSessionLost(s) PROVE CountInv'
    BY <1>1, <1>4, OnSessionLostKeepsCount
  <1>5. ASSUME NEW s \in Sessions, NEW id \in 1 .. MaxEvents, Dispatch(s, id)
        PROVE  CountInv'
    <2>1. PICK n \in 0 .. Len(events_[s]) : AddTimer(s, id, n) \/ AddNoTimer(s, n)
      BY <1>5 DEF Dispatch
    <2>2. CASE AddTimer(s, id, n)
      BY <1>1, <2>2, AddTimerKeepsCount
    <2>3. CASE AddNoTimer(s, n)
      BY <1>1, <2>3, CutKeepsCount DEF AddNoTimer, CountedCut
    <2> QED
      BY <2>1, <2>2, <2>3
  <1>6. ASSUME NEW s \in Sessions, NEW id \in 1 .. MaxEvents,
               DispatchUntracked(s, id)
        PROVE  CountInv'
    <2>1. PICK n \in 0 .. Len(events_[s]) : AddNoTimer(s, n)
      BY <1>6 DEF DispatchUntracked
    <2> QED
      BY <1>1, <2>1, CutKeepsCount DEF AddNoTimer, CountedCut
  <1>7. ASSUME NEW s \in Sessions, NEW id \in 1 .. MaxEvents, MarkProcessed(s, id)
        PROVE  CountInv'
    <2>1. PICK n \in 0 .. Len(events_[s]) : CountedCut(s, n)
      BY <1>7 DEF MarkProcessed, CountedCut
    <2> QED
      BY <1>1, <2>1, CutKeepsCount
  <1>8. ASSUME NEW t \in fired, TimerFires(t) \/ OtherFires(t) PROVE CountInv'
    BY <1>2, <1>8 DEF TimerFires, OtherFires, session
  <1>9. CASE UNCHANGED vars
    BY <1>2, <1>9 DEF vars, session
  <1> QED
    BY <1>3, <1>4, <1>5, <1>6, <1>7, <1>8, <1>9 DEF Next

\* The count of AddTimer's limit is the number of records that name a timer, so
\* it neither drifts up, which would end the watch for every application, nor
\* down, which would let the watch take every timer of the service.
THEOREM CountIsRight == Spec => []CountMatchesRecords
  <1>1. AInv /\ CountInv /\ [Next]_vars => (AInv /\ CountInv)'
    BY NextAInv, NextCount
  <1>2. Init => AInv /\ CountInv
    BY InitAInv, InitCount
  <1>3. Spec => [](AInv /\ CountInv)
    BY <1>1, <1>2, PTL DEF Spec
  <1>4. AInv /\ CountInv => CountMatchesRecords
    BY CountInvIsCount
  <1> QED
    BY <1>3, <1>4, PTL

\* Timers, lists and counters have their types; the count is never negative.
THEOREM TypeCorrect == Spec => []TypeOK
  <1>1. AInv /\ CountMatchesRecords => TypeOK
    <2> SUFFICES ASSUME AInv, CountMatchesRecords PROVE TypeOK
      OBVIOUS
    <2>1. TypeInv /\ CountInv
      BY CountInvIsCount DEF AInv
    <2>2. anrTimerCount_ \in Nat
      BY <2>1, PairsAreFinite DEF TypeInv, CountInv
    <2> QED
      BY <2>1, <2>2 DEF TypeInv, TypeOK
  <1> QED
    BY <1>1, Invariant, CountIsRight, PTL
-----------------------------------------------------------------------------
(* How a timer of the watch goes.                                          *)

\* Some record names k although the timer under k is not the one of its event.
StaleId(k) ==
  \E s \in Sessions : \E i \in 1 .. Len(events_[s]) :
    /\ events_[s][i].timerId = k
    /\ timers[k].owner # s \/ timers[k].event # events_[s][i].id

\* A timer among those of the first n records is that of one of them, or one of
\* them is stale.
LEMMA NamedOrStale ==
  ASSUME TypeInv, NEW s \in Sessions, NEW n \in 0 .. Len(events_[s]),
         NEW k \in TimerIdsOf(s, n)
  PROVE  \/ StaleId(k)
         \/ /\ timers[k].owner = s
            /\ \E i \in 1 .. n : events_[s][i].id = timers[k].event
  <1>1. PICK i \in 1 .. n : events_[s][i].timerId = k
    BY DEF TimerIdsOf
  <1>2. i \in 1 .. Len(events_[s])
    BY LenProperties DEF TypeInv
  <1> QED
    BY <1>1, <1>2 DEF StaleId

\* A timer that AddTimer does not touch stays, and the id it takes was free.
LEMMA AddKeepsTimers ==
  ASSUME TypeInv, NEW s \in Sessions, NEW n \in 0 .. Len(events_[s]), NEW id,
         AddTimer(s, id, n) \/ AddNoTimer(s, n),
         NEW k \in TimerIds, timers[k].owner \in Sessions, timers'[k] # timers[k]
  PROVE  k \in TimerIdsOf(s, n)
  <1> SUFFICES ASSUME k \notin TimerIdsOf(s, n)
               PROVE  timers'[k] = timers[k]
    OBVIOUS
  <1>1. Without(TimerIdsOf(s, n))[k] = timers[k]
        /\ Without(TimerIdsOf(s, n)) \in [TimerIds -> Timer]
    BY WithoutFacts
  <1>2. Without(TimerIdsOf(s, n))[k] # NoTimer
    BY <1>1, NobodyIsNoSession
  <1>3. CASE AddNoTimer(s, n)
    BY <1>1, <1>3 DEF AddNoTimer
  <1>4. CASE AddTimer(s, id, n)
    <2>1. PICK j \in TimerIds :
            /\ IsFreeId(j, TimerIdsOf(s, n))
            /\ timers' = [Without(TimerIdsOf(s, n)) EXCEPT
                            ![j] = [owner |-> s, event |-> id, due |-> now + TimerDelay]]
      BY <1>4 DEF AddTimer
    <2>2. j # k
      BY <1>2, <2>1 DEF IsFreeId
    <2> QED
      BY <1>1, <2>1, <2>2
  <1> QED
    BY <1>3, <1>4

\* HandleAnrState deletes nothing unless the session is in the ANR state.
LEMMA HandledInAnrState ==
  ASSUME NEW s \in Sessions, NEW n, IsHandled(s, n), n # 0
  PROVE  isAnrProcess_[s]
  BY DEF IsHandled, IsLastDeleted

LostToStaleIdStep ==
  \A k \in TimerIds : LET s == timers[k].owner IN
    s \in Sessions /\ timers'[k] # timers[k] =>
      \/ timers[k] \in fired'
      \/ timers[k].event <= acked'[s]
      \/ ~alive'[s]
      \/ isAnrProcess_[s]
      \/ StaleId(k)

\* What WatchIsKept asks for fails only through an id that a fired timer left in a
\* list: any other timer of the watch goes because it fires, its event was
\* answered, its session is lost, or HandleAnrState deletes its record.
THEOREM WatchIsLostOnlyToStaleIds == Spec => [][LostToStaleIdStep]_vars
  <1>1. ASSUME AInv, [Next]_vars, NEW k \in TimerIds, timers[k].owner \in Sessions,
               timers'[k] # timers[k]
        PROVE  \/ timers[k] \in fired'
               \/ timers[k].event <= acked'[timers[k].owner]
               \/ ~alive'[timers[k].owner]
               \/ isAnrProcess_[timers[k].owner]
               \/ StaleId(k)
    <2> DEFINE Good ==
          \/ timers[k] \in fired'
          \/ timers[k].event <= acked'[timers[k].owner]
          \/ ~alive'[timers[k].owner]
          \/ isAnrProcess_[timers[k].owner]
          \/ StaleId(k)
    <2>0. TypeInv
      BY <1>1 DEF AInv
    <2>1. ASSUME NEW s \in Sessions, NEW n \in 0 .. Len(events_[s]),
                 \A j \in TimerIds : j \notin TimerIdsOf(s, n) => timers'[j] = timers[j]
          PROVE  \/ StaleId(k)
                 \/ /\ timers[k].owner = s
                    /\ \E i \in 1 .. n : events_[s][i].id = timers[k].event
      BY <1>1, <2>0, <2>1, NamedOrStale
    <2>2. ASSUME NEW s \in Sessions, NEW id \in 1 .. MaxEvents, MarkProcessed(s, id)
          PROVE  Good
      <3>1. PICK n \in 0 .. Len(events_[s]) :
              IsCut(s, id, n) /\ timers' = Without(TimerIdsOf(s, n))
        BY <2>2 DEF MarkProcessed
      <3>2. \A j \in TimerIds : j \notin TimerIdsOf(s, n) => timers'[j] = timers[j]
        BY <2>0, <3>1, WithoutFacts
      <3>3. acked'[s] >= id /\ acked'[s] \in Nat /\ id \in Nat
        BY <2>0, <2>2, AnrAssumption DEF MarkProcessed, TypeInv
      <3>4. timers[k].event \in Nat
        BY <2>0 DEF TypeInv, Timer
      <3>5. \A i \in 1 .. n : events_[s][i].id <= id
        BY <3>1 DEF IsCut
      <3>6. StaleId(k) \/ (timers[k].owner = s /\ timers[k].event <= id)
        BY <2>1, <3>2, <3>5
      <3> QED
        BY <3>3, <3>4, <3>6
    <2>3. ASSUME NEW s \in Sessions, OnSessionLost(s) PROVE Good
      <3>1. timers' = Without(TimerIdsOf(s, Len(events_[s]))) /\ ~alive'[s]
        BY <2>0, <2>3 DEF OnSessionLost, TypeInv
      <3>2. \A j \in TimerIds : j \notin TimerIdsOf(s, Len(events_[s])) =>
              timers'[j] = timers[j]
        BY <2>0, <3>1, WithoutFacts
      <3>3. Len(events_[s]) \in 0 .. Len(events_[s])
        BY <2>0, LenProperties DEF TypeInv
      <3>4. StaleId(k) \/ timers[k].owner = s
        BY <2>1, <3>2, <3>3
      <3> QED
        BY <3>1, <3>4
    <2>4. ASSUME NEW s \in Sessions, NEW id \in 1 .. MaxEvents,
                 Dispatch(s, id) \/ DispatchUntracked(s, id)
          PROVE  Good
      <3>1. PICK n \in 0 .. Len(events_[s]) :
              IsHandled(s, n) /\ (AddTimer(s, id, n) \/ AddNoTimer(s, n))
        BY <2>4 DEF Dispatch, DispatchUntracked
      <3>2. k \in TimerIdsOf(s, n)
        BY <1>1, <2>0, <3>1, AddKeepsTimers
      <3>3. StaleId(k) \/ timers[k].owner = s
        BY <2>0, <3>2, NamedOrStale
      <3>4. n # 0
        BY <3>2 DEF TimerIdsOf
      <3> QED
        BY <3>1, <3>3, <3>4, HandledInAnrState
    <2>5. CASE ProcessTimers
      <3>1. k \in Due
        BY <1>1, <2>0, <2>5, WithoutFacts DEF ProcessTimers
      <3> QED
        BY <2>5, <3>1 DEF ProcessTimers
    <2>6. CASE OtherArms
      <3>1. PICK j \in TimerIds :
              IsFreeId(j, {})
              /\ timers' = [timers EXCEPT ![j] = [owner |-> Other, event |-> 0,
                                                  due |-> now + 1]]
        BY <2>6 DEF OtherArms
      <3>2. timers[j] = NoTimer
        BY <2>0, <3>1, WithoutFacts DEF IsFreeId
      <3> QED
        BY <1>1, <2>0, <3>1, <3>2, NobodyIsNoSession DEF TypeInv
    <2>7. CASE OtherRemoves
      <3>1. PICK j \in TimerIds : timers[j].owner = Other /\ timers' = Without({j})
        BY <2>7 DEF OtherRemoves
      <3> QED
        BY <1>1, <2>0, <3>1, WithoutFacts, AnrAssumption
    <2>8. CASE UNCHANGED timers
      BY <1>1, <2>8
    <2>9. CASE \/ Tick \/ UNCHANGED vars
               \/ \E t \in fired : TimerFires(t) \/ OtherFires(t)
      BY <2>8, <2>9 DEF Tick, TimerFires, OtherFires, vars
    <2> QED
      BY <1>1, <2>2, <2>3, <2>4, <2>5, <2>6, <2>7, <2>9 DEF Next
  <1>2. AInv /\ [Next]_vars => LostToStaleIdStep
    BY <1>1 DEF LostToStaleIdStep
  <1> QED
    BY <1>2, Invariant, PTL DEF Spec
-----------------------------------------------------------------------------
(* How the ANR state goes.                                                 *)

\* Records were appended as time went on.
TimesInOrder ==
  \A s \in Sessions :
    /\ \A i \in 1 .. Len(events_[s]) : events_[s][i].time <= now
    /\ \A i, j \in 1 .. Len(events_[s]) :
         i < j => events_[s][i].time <= events_[s][j].time

InTime(q) ==
  /\ \A i \in 1 .. Len(q) : q[i].time <= now
  /\ \A i, j \in 1 .. Len(q) : i < j => q[i].time <= q[j].time

LEMMA TimesAreNat ==
  ASSUME TypeInv, NEW s \in Sessions
  PROVE  /\ Len(events_[s]) \in Nat
         /\ \A i \in 1 .. Len(events_[s]) : events_[s][i].time \in Nat
  <1>1. events_[s] \in Seq(Record)
    BY DEF TypeInv
  <1>2. \A i \in 1 .. Len(events_[s]) : events_[s][i] \in Record
    BY <1>1, ElementOfSeq
  <1> QED
    BY <1>1, <1>2, LenProperties DEF Record

LEMMA RestInTime ==
  ASSUME TypeInv, TimesInOrder, NEW s \in Sessions, NEW n \in 0 .. Len(events_[s])
  PROVE  InTime(Rest(s, n))
  <1>1. Len(events_[s]) \in Nat /\ Len(Rest(s, n)) = Len(events_[s]) - n
    BY RestFacts, TimesAreNat
  <1>2. \A i \in 1 .. Len(Rest(s, n)) :
          i + n \in 1 .. Len(events_[s]) /\ Rest(s, n)[i] = events_[s][i + n]
    BY <1>1, RestFacts
  <1>3. \A i, j \in 1 .. Len(Rest(s, n)) : i < j => i + n < j + n
    BY <1>1
  <1> QED
    BY <1>2, <1>3 DEF TimesInOrder, InTime

LEMMA AppendInTime ==
  ASSUME now \in Nat, NEW q \in Seq(Record), InTime(q), NEW r \in Record, r.time = now
  PROVE  InTime(Append(q, r))
  <1>1. /\ Len(q) \in Nat /\ Len(Append(q, r)) = Len(q) + 1
        /\ \A i \in 1 .. Len(q) : Append(q, r)[i] = q[i]
        /\ Append(q, r)[Len(q) + 1] = r
    BY LenProperties, AppendProperties
  <1>2. \A i \in 1 .. Len(Append(q, r)) : i \in 1 .. Len(q) \/ i = Len(q) + 1
    BY <1>1
  <1>3. \A i \in 1 .. Len(Append(q, r)) : Append(q, r)[i].time <= now
    BY <1>1, <1>2 DEF InTime
  <1>4. \A i, j \in 1 .. Len(Append(q, r)) :
          i < j => Append(q, r)[i].time <= Append(q, r)[j].time
    <2> SUFFICES ASSUME NEW i \in 1 .. Len(Append(q, r)),
                        NEW j \in 1 .. Len(Append(q, r)), i < j
                 PROVE  Append(q, r)[i].time <= Append(q, r)[j].time
      OBVIOUS
    <2>1. i \in 1 .. Len(q)
      BY <1>1
    <2>2. CASE j \in 1 .. Len(q)
      BY <1>1, <2>1, <2>2 DEF InTime
    <2>3. CASE j = Len(q) + 1
      BY <1>1, <1>3, <2>3
    <2> QED
      BY <1>2, <2>2, <2>3
  <1> QED
    BY <1>3, <1>4 DEF InTime

LEMMA ClearedInTime ==
  ASSUME NEW q \in Seq(Record), InTime(q)
  PROVE  InTime(Cleared(q))
  <1>1. Len(q) \in Nat /\ Len(Cleared(q)) = Len(q)
    BY LenProperties, ClearedFacts
  <1>2. ASSUME NEW i \in 1 .. Len(q) PROVE Cleared(q)[i].time = q[i].time
    <2>1. q[i] \in Record
      BY ElementOfSeq
    <2>2. Cleared(q)[i] = [q[i] EXCEPT !.timerId = -1]
      BY <1>1 DEF Cleared
    <2> QED
      BY <2>1, <2>2 DEF Record
  <1> QED
    BY <1>1, <1>2 DEF InTime

\* One list is replaced by one that is in time, and the clock stands still.
LEMMA ListReplaced ==
  ASSUME TypeInv, TimesInOrder, NEW s \in Sessions, NEW q, InTime(q),
         events_' = [events_ EXCEPT ![s] = q], now' = now
  PROVE  TimesInOrder'
  <1>1. events_'[s] = q /\ \A r \in Sessions \ {s} : events_'[r] = events_[r]
    BY DEF TypeInv
  <1> SUFFICES ASSUME NEW r \in Sessions
               PROVE  /\ \A i \in 1 .. Len(events_'[r]) : events_'[r][i].time <= now
                      /\ \A i, j \in 1 .. Len(events_'[r]) :
                           i < j => events_'[r][i].time <= events_'[r][j].time
    BY DEF TimesInOrder
  <1>2. CASE r = s
    BY <1>1, <1>2 DEF InTime
  <1>3. CASE r # s
    BY <1>1, <1>3 DEF TimesInOrder
  <1> QED
    BY <1>2, <1>3

LEMMA TimesStep ==
  ASSUME TypeInv, TimesInOrder, [Next]_vars
  PROVE  TimesInOrder'
  <1>1. ASSUME NEW s \in Sessions, NEW id \in 1 .. MaxEvents, MarkProcessed(s, id)
        PROVE  TimesInOrder'
    <2>1. PICK n \in 0 .. Len(events_[s]) :
            events_' = [events_ EXCEPT ![s] = Rest(s, n)]
      BY <1>1 DEF MarkProcessed
    <2>2. now' = now
      BY <1>1 DEF MarkProcessed
    <2>3. InTime(Rest(s, n))
      BY RestInTime
    <2> QED
      BY <2>1, <2>2, <2>3, ListReplaced
  <1>2. ASSUME NEW s \in Sessions, OnSessionLost(s) PROVE TimesInOrder'
    <2>1. events_[s] \in Seq(Record) /\ InTime(events_[s])
      BY DEF TypeInv, TimesInOrder, InTime
    <2>2. events_' = [events_ EXCEPT ![s] = Cleared(events_[s])] /\ now' = now
      BY <1>2 DEF OnSessionLost
    <2> QED
      BY <2>1, <2>2, ClearedInTime, ListReplaced
  <1>3. ASSUME NEW s \in Sessions, NEW id \in 1 .. MaxEvents,
               Dispatch(s, id) \/ DispatchUntracked(s, id)
        PROVE  TimesInOrder'
    <2>1. PICK n \in 0 .. Len(events_[s]) : AddTimer(s, id, n) \/ AddNoTimer(s, n)
      BY <1>3 DEF Dispatch, DispatchUntracked
    <2>2. now' = now
      BY <1>3 DEF Dispatch, DispatchUntracked
    <2>3. InTime(Rest(s, n)) /\ Rest(s, n) \in Seq(Record)
      BY RestInTime, RestFacts
    <2>4. CASE AddNoTimer(s, n)
      BY <2>2, <2>3, <2>4, ListReplaced DEF AddNoTimer
    <2>5. CASE AddTimer(s, id, n)
      <3>1. PICK k \in TimerIds :
              events_' = [events_ EXCEPT
                            ![s] = Append(Rest(s, n), [id |-> id, time |-> now,
                                                       timerId |-> k])]
        BY <2>5 DEF AddTimer
      <3> DEFINE r == [id |-> id, time |-> now, timerId |-> k]
      <3>2. r \in Record /\ r.time = now /\ now \in Nat
        BY AnrAssumption DEF Record, TypeInv
      <3>3. InTime(Append(Rest(s, n), r))
        BY <2>3, <3>2, AppendInTime
      <3> QED
        BY <2>2, <3>1, <3>3, ListReplaced
    <2> QED
      BY <2>1, <2>4, <2>5
  <1>4. CASE Tick
    <2>1. events_' = events_ /\ now' = now + 1 /\ now \in Nat
      BY <1>4 DEF Tick, session, TypeInv
    <2>2. \A s \in Sessions : \A i \in 1 .. Len(events_[s]) :
            events_[s][i].time <= now + 1
      BY <2>1, TimesAreNat DEF TimesInOrder
    <2> QED
      BY <2>1, <2>2 DEF TimesInOrder
  <1>5. CASE UNCHANGED <<events_, now>>
    BY <1>5 DEF TimesInOrder
  <1>6. CASE \/ OtherArms \/ OtherRemoves \/ ProcessTimers \/ UNCHANGED vars
             \/ \E t \in fired : TimerFires(t) \/ OtherFires(t)
    BY <1>5, <1>6 DEF OtherArms, OtherRemoves, ProcessTimers, TimerFires, OtherFires,
                      vars, session
  <1> QED
    BY <1>1, <1>2, <1>3, <1>4, <1>6 DEF Next

YoungTimeoutStep ==
  \A s \in Sessions :
    eventId' # eventId /\ isAnrProcess_[s] /\ ~isAnrProcess_'[s] =>
      \E i \in 1 .. Len(events_[s]) :
        IsTimeout(s, i) /\ now < events_[s][i].time + INPUT_UI_TIMEOUT

\* What AnrStateIsKept asks for fails only through a record that HandleAnrState takes
\* for timed out and DelEvents does not: only because the one compares with a
\* thousandth of what the other adds.
THEOREM AnrStateIsLostOnlyToYoungRecords == Spec => [][YoungTimeoutStep]_vars
  <1>1. ASSUME AInv, TimesInOrder, NEW s \in Sessions, NEW id \in 1 .. MaxEvents,
               Dispatch(s, id) \/ DispatchUntracked(s, id),
               NEW r \in Sessions, isAnrProcess_[r], ~isAnrProcess_'[r]
        PROVE  \E i \in 1 .. Len(events_[r]) :
                 IsTimeout(r, i) /\ now < events_[r][i].time + INPUT_UI_TIMEOUT
    <2>0. TypeInv /\ ListInOrder /\ events_[r] # << >>
      BY <1>1 DEF AInv, AnrStateHasCause
    <2>1. PICK n \in 0 .. Len(events_[s]) :
            IsHandled(s, n)
            /\ isAnrProcess_' = [isAnrProcess_ EXCEPT ![s] = AnrAfter(s, n)]
      BY <1>1 DEF Dispatch, DispatchUntracked
    <2>2. r = s /\ ~AnrAfter(s, n)
      BY <1>1, <2>0, <2>1 DEF TypeInv
    <2>3. /\ n < Len(events_[s])
          /\ n # 0 => \E last \in n + 1 .. Len(events_[s]) : IsTimeout(s, last)
      BY <2>0, <2>1, <2>2, HandledLeavesOne
    <2>4. /\ Len(events_[s]) \in Nat /\ now \in Nat
          /\ HandleThreshold \in Nat /\ INPUT_UI_TIMEOUT \in Nat
          /\ \A i \in 1 .. Len(events_[s]) : events_[s][i].time \in Nat
      BY <2>0, TimesAreNat, AnrAssumption DEF TypeInv
    <2>5. /\ n > 0 /\ n + 1 \in 1 .. Len(events_[s])
          /\ ~(now >= events_[s][n + 1].time + INPUT_UI_TIMEOUT)
      <3>0. Len(Rest(s, n)) = Len(events_[s]) - n /\ 1 \in 1 .. Len(events_[s]) - n
        BY <2>0, <2>3, <2>4, RestFacts
      <3>1. Rest(s, n)[1] = events_[s][n + 1]
        <4>1. Rest(s, n)[1] = events_[s][1 + n]
          BY <2>0, <3>0, RestFacts
        <4>2. 1 + n = n + 1
          BY <2>4
        <4> QED
          BY <4>1, <4>2
      <3>2. Rest(s, n) # << >>
        BY <2>4, <3>0, EmptySeq
      <3>3. n # 0 /\ ~(now >= Rest(s, n)[1].time + INPUT_UI_TIMEOUT)
        <4>1. isAnrProcess_[s]
          BY <1>1, <2>2
        <4> QED
          BY <2>2, <3>2, <4>1 DEF AnrAfter
      <3>4. n > 0 /\ n + 1 \in 1 .. Len(events_[s])
        BY <2>3, <2>4, <3>3
      <3> QED
        BY <3>1, <3>3, <3>4
    <2>6. PICK last \in n + 1 .. Len(events_[s]) : IsTimeout(s, last)
      BY <2>3, <2>5
    <2>7. events_[s][n + 1].time <= events_[s][last].time
      <3>1. last \in 1 .. Len(events_[s]) /\ (n + 1 = last \/ n + 1 < last)
        BY <2>4, <2>5, <2>6
      <3> QED
        BY <1>1, <2>4, <2>5, <3>1 DEF TimesInOrder
    <2>8. IsTimeout(s, n + 1)
      <3>1. last \in 1 .. Len(events_[s])
        BY <2>4, <2>5, <2>6
      <3>2. now - events_[s][last].time > HandleThreshold
        BY <2>6 DEF IsTimeout
      <3>3. events_[s][last].time \in Nat /\ events_[s][n + 1].time \in Nat
        BY <2>4, <2>5, <3>1
      <3>4. now - events_[s][n + 1].time > HandleThreshold
        <4> DEFINE x == events_[s][n + 1].time
                   y == events_[s][last].time
        <4>1. x \in Nat /\ y \in Nat /\ x <= y /\ now - y > HandleThreshold
          BY <2>7, <3>2, <3>3
        <4>2. now \in Nat /\ HandleThreshold \in Nat
          BY <2>4
        <4> HIDE DEF x, y
        <4>3. now - x > HandleThreshold
          BY <4>1, <4>2
        <4> QED
          BY <4>3 DEF x
      <3> QED
        BY <3>4 DEF IsTimeout
    <2>9. now < events_[s][n + 1].time + INPUT_UI_TIMEOUT
      BY <2>4, <2>5
    <2> QED
      BY <2>2, <2>5, <2>8, <2>9
  <1>2. ASSUME [Next]_vars, eventId' # eventId
        PROVE  \E s \in Sessions, id \in 1 .. MaxEvents :
                 Dispatch(s, id) \/ DispatchUntracked(s, id)
    BY <1>2 DEF Next, Tick, OtherArms, OtherRemoves, ProcessTimers, OnSessionLost,
                MarkProcessed, TimerFires, OtherFires, vars
  <1>3. AInv /\ TimesInOrder /\ [Next]_vars => YoungTimeoutStep
    BY <1>1, <1>2 DEF YoungTimeoutStep
  <1>4. Init => TimesInOrder
    BY DEF Init, TimesInOrder
  <1>5. AInv => TypeInv
    BY DEF AInv
  <1> QED
    BY <1>3, <1>4, <1>5, TimesStep, Invariant, PTL DEF Spec
=============================================================================
