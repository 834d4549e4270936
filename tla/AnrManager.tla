----------------------------- MODULE AnrManager -----------------------------
(***************************************************************************)
(* The watch over applications that do not answer (ANR): ANRManager in     *)
(* anr_manager.cpp, the lists UDSSession keeps for it, and the two places  *)
(* of EventDispatchHandler that use it.  When an event is sent to an       *)
(* application, a one-shot timer is armed and a record [id, time, timerId] *)
(* is appended to the session's list.  The application answers with the    *)
(* id of an event; every record up to that id is deleted and its timer     *)
(* removed.  A timer that fires puts the session into the ANR state.       *)
(*                                                                         *)
(* All of it runs on the worker thread, one handler at a time.  The list   *)
(* of timers is the one of TimerManager and is shared with other parts of  *)
(* the service; it hands out the lowest free id.  A round collects all     *)
(* timers that are due and then calls their functions.  Only ANR_DISPATCH  *)
(* has callers, so a session has one list.                                 *)
(***************************************************************************)
EXTENDS Integers, Sequences, FiniteSets

CONSTANTS
  Sessions,           \* sessions of applications
  Other, Nobody,      \* owner of the other timers; no owner
  MAX_TIMER_COUNT,    \* 64 in TimerManager
  MAX_ANR_TIMERS,     \* MAX_TIMER_COUNT of ANRManager, 50
  TimerDelay,         \* the delay of the timer that AddTimer arms
  INPUT_UI_TIMEOUT,   \* what DelEvents adds to the time of the first event
  HandleThreshold,    \* the age HandleAnrState compares with
  MaxEvents, MaxNow   \* bounds of the model

ASSUME AnrAssumption ==
  /\ Other # Nobody /\ {Other, Nobody} \cap Sessions = {}
  /\ IsFiniteSet(Sessions)
  /\ MAX_TIMER_COUNT \in Nat \ {0} /\ MAX_ANR_TIMERS \in Nat
  /\ TimerDelay \in Nat \ {0} /\ INPUT_UI_TIMEOUT \in Nat
  /\ HandleThreshold \in Nat
  /\ MaxEvents \in Nat /\ MaxNow \in Nat

TimerIds == 0 .. MAX_TIMER_COUNT - 1
NoTimer == [owner |-> Nobody, event |-> 0, due |-> 0]

VARIABLES
  now,            \* GetSysClockTime
  timers,         \* id -> the timer armed under it
  fired,          \* timers collected in this round whose functions are due
  events_,        \* session -> its list for ANR_DISPATCH
  isAnrProcess_,  \* session -> it is in the ANR state
  anrTimerCount_,
  eventId,        \* id of the latest input event
  open,           \* the handler that dispatches that event has not returned
  alive,          \* session -> it is in the server's map
  delivered,      \* session -> ids of the events the application was sent
  acked           \* session -> the highest id the server saw it answer

session == <<events_, isAnrProcess_, anrTimerCount_>>
client == <<alive, delivered, acked>>
vars == <<now, timers, fired, session, eventId, open, client>>

Init ==
  /\ now = 0
  /\ timers = [k \in TimerIds |-> NoTimer]
  /\ fired = {}
  /\ events_ = [s \in Sessions |-> << >>]
  /\ isAnrProcess_ = [s \in Sessions |-> FALSE]
  /\ anrTimerCount_ = 0
  /\ eventId = 0 /\ open = FALSE
  /\ alive = [s \in Sessions |-> TRUE]
  /\ delivered = [s \in Sessions |-> {}]
  /\ acked = [s \in Sessions |-> 0]

\* No function of a timer is running or about to run.
Idle == fired = {}

\* The collected timer whose function is next: those due earlier come first.
IsNext(t) == t \in fired /\ \A u \in fired : t.due <= u.due

\* time passes
Tick ==
  /\ now < MaxNow
  /\ now' = now + 1
  /\ UNCHANGED <<timers, fired, session, eventId, open, client>>
-----------------------------------------------------------------------------
(* The list of a session.                                                  *)

\* Mutant: an event answered by its own id stays.
IsCut_Strict(s, id, n) ==
  /\ n \in 0 .. Len(events_[s])
  /\ \A i \in 1 .. n : events_[s][i].id < id
  /\ n < Len(events_[s]) => events_[s][n + 1].id >= id

\* DelEvents deletes the first n records: it stops at the first later event.
IsCut(s, id, n) ==
  /\ n \in 0 .. Len(events_[s])
  /\ \A i \in 1 .. n : events_[s][i].id <= id
  /\ n < Len(events_[s]) => events_[s][n + 1].id > id

Rest(s, n) == SubSeq(events_[s], n + 1, Len(events_[s]))

\* Mutant: the list that became empty does not end the ANR state.
AnrAfter_StaysWhenEmpty(s, n) ==
  /\ isAnrProcess_[s]
  /\ n > 0 /\ Rest(s, n) # << >> => now >= Rest(s, n)[1].time + INPUT_UI_TIMEOUT

\* The ANR state ends when nothing is left or what is left is recent.
AnrAfter(s, n) ==
  /\ isAnrProcess_[s]
  /\ n > 0 => /\ Rest(s, n) # << >>
              /\ now >= Rest(s, n)[1].time + INPUT_UI_TIMEOUT

\* What the caller of DelEvents does with the timer ids it gets.
TimerIdsOf(s, n) == {events_[s][i].timerId : i \in 1 .. n} \ {-1}
Without(ids) == [k \in TimerIds |-> IF k \in ids THEN NoTimer ELSE timers[k]]
Armed(s, n) == Cardinality({i \in 1 .. n : events_[s][i].timerId # -1})

\* A session that loses its timers: GetTimerIds clears them from the list.
Cleared(q) == [i \in 1 .. Len(q) |-> [q[i] EXCEPT !.timerId = -1]]
-----------------------------------------------------------------------------
(* The application.                                                        *)

\* Mutant: the timers of the answered events stay armed.
MarkProcessed_KeepsTimers(s, id) ==
  /\ Idle /\ alive[s] /\ id \in delivered[s]
  /\ \E n \in 0 .. Len(events_[s]) :
       /\ IsCut(s, id, n)
       /\ events_' = [events_ EXCEPT ![s] = Rest(s, n)]
       /\ isAnrProcess_' = [isAnrProcess_ EXCEPT ![s] = AnrAfter(s, n)]
       /\ anrTimerCount_' = anrTimerCount_ - Armed(s, n)
  /\ acked' = [acked EXCEPT ![s] = IF id > @ THEN id ELSE @]
  /\ open' = FALSE
  /\ UNCHANGED <<now, timers, fired, eventId, alive, delivered>>

\* The application answers an event it was sent: at any time, in any order,
\* again, or never.
MarkProcessed(s, id) ==
  /\ Idle /\ alive[s] /\ id \in delivered[s]
  /\ \E n \in 0 .. Len(events_[s]) :
       /\ IsCut(s, id, n)
       /\ events_' = [events_ EXCEPT ![s] = Rest(s, n)]
       /\ isAnrProcess_' = [isAnrProcess_ EXCEPT ![s] = AnrAfter(s, n)]
       /\ timers' = Without(TimerIdsOf(s, n))
       /\ anrTimerCount_' = anrTimerCount_ - Armed(s, n)
  /\ acked' = [acked EXCEPT ![s] = IF id > @ THEN id ELSE @]
  /\ open' = FALSE
  /\ UNCHANGED <<now, fired, eventId, alive, delivered>>

\* Mutant: the lost timers stay counted.
OnSessionLost_KeepsCount(s) ==
  /\ Idle /\ alive[s]
  /\ alive' = [alive EXCEPT ![s] = FALSE]
  /\ timers' = Without(TimerIdsOf(s, Len(events_[s])))
  /\ events_' = [events_ EXCEPT ![s] = Cleared(@)]
  /\ open' = FALSE
  /\ UNCHANGED <<now, fired, isAnrProcess_, anrTimerCount_, eventId, delivered,
                 acked>>

\* The session is deleted from the server's map.
OnSessionLost(s) ==
  /\ Idle /\ alive[s]
  /\ alive' = [alive EXCEPT ![s] = FALSE]
  /\ timers' = Without(TimerIdsOf(s, Len(events_[s])))
  /\ anrTimerCount_' = anrTimerCount_ - Armed(s, Len(events_[s]))
  /\ events_' = [events_ EXCEPT ![s] = Cleared(@)]
  /\ open' = FALSE
  /\ UNCHANGED <<now, fired, isAnrProcess_, eventId, delivered, acked>>
-----------------------------------------------------------------------------
(* Dispatch of input events.                                               *)

\* HandleAnrState: the record is older than the threshold; it is the last such.
IsTimeout(s, i) == now - events_[s][i].time > HandleThreshold
IsLastTimeout(s, i) ==
  /\ i \in 1 .. Len(events_[s]) /\ IsTimeout(s, i)
  /\ \A j \in i + 1 .. Len(events_[s]) : ~IsTimeout(s, j)

\* Record i has the highest id that HandleAnrState calls DelEvents with.
IsLastDeleted(s, i) ==
  /\ isAnrProcess_[s]
  /\ i \in 1 .. Len(events_[s]) /\ IsTimeout(s, i)
  /\ \E last \in 1 .. Len(events_[s]) :
       /\ IsLastTimeout(s, last)
       /\ events_[s][i].id # events_[s][last].id
       /\ \A j \in 1 .. Len(events_[s]) :
            IsTimeout(s, j) /\ events_[s][j].id # events_[s][last].id =>
              events_[s][j].id <= events_[s][i].id

\* Mutant: the last event is not kept.
IsHandled_All(s, n) ==
  /\ n \in 0 .. Len(events_[s])
  /\ IF isAnrProcess_[s] /\ \E i \in 1 .. Len(events_[s]) : IsTimeout(s, i)
     THEN \E i \in 1 .. Len(events_[s]) :
            IsLastTimeout(s, i) /\ IsCut(s, events_[s][i].id, n)
     ELSE n = 0

\* TriggerANR, and HandleAnrState deletes the first n records.
IsHandled(s, n) ==
  /\ n \in 0 .. Len(events_[s])
  /\ \/ \E i \in 1 .. Len(events_[s]) :
          IsLastDeleted(s, i) /\ IsCut(s, events_[s][i].id, n)
     \/ n = 0 /\ ~ \E i \in 1 .. Len(events_[s]) : IsLastDeleted(s, i)

\* The id TimerManager gives to a new timer once those in ids are removed.
IsFreeId(k, ids) ==
  /\ k \in TimerIds /\ Without(ids)[k] = NoTimer
  /\ \A j \in TimerIds : j < k => Without(ids)[j] # NoTimer

CanAdd(s, n) ==
  /\ anrTimerCount_ - Armed(s, n) < MAX_ANR_TIMERS
  /\ \E k \in TimerIds : Without(TimerIdsOf(s, n))[k] = NoTimer

\* Mutant: the new timer is not counted.
AddTimer_NotCounted(s, id, n) ==
  \E k \in TimerIds :
    /\ IsFreeId(k, TimerIdsOf(s, n))
    /\ timers' = [Without(TimerIdsOf(s, n)) EXCEPT
                    ![k] = [owner |-> s, event |-> id, due |-> now + TimerDelay]]
    /\ events_' = [events_ EXCEPT
                     ![s] = Append(Rest(s, n), [id |-> id, time |-> now,
                                                timerId |-> k])]
    /\ anrTimerCount_' = anrTimerCount_ - Armed(s, n)

\* AddTimer arms a timer for event id and records it, after n records went.
AddTimer(s, id, n) ==
  \E k \in TimerIds :
    /\ IsFreeId(k, TimerIdsOf(s, n))
    /\ timers' = [Without(TimerIdsOf(s, n)) EXCEPT
                    ![k] = [owner |-> s, event |-> id, due |-> now + TimerDelay]]
    /\ events_' = [events_ EXCEPT
                     ![s] = Append(Rest(s, n), [id |-> id, time |-> now,
                                                timerId |-> k])]
    /\ anrTimerCount_' = anrTimerCount_ - Armed(s, n) + 1

\* AddTimer returns early, or is not called.
AddNoTimer(s, n) ==
  /\ timers' = Without(TimerIdsOf(s, n))
  /\ events_' = [events_ EXCEPT ![s] = Rest(s, n)]
  /\ anrTimerCount_' = anrTimerCount_ - Armed(s, n)

\* Where an event handler of the service can run: in the event loop, or in the
\* function of a timer of another part (a key that repeats, for instance).
InHandler == Idle \/ \E t \in fired : IsNext(t) /\ t.owner = Other

\* A new event, or the event at hand for one more window.
IsEvent(id) ==
  /\ id \in 1 .. MaxEvents
  /\ id = eventId + 1 \/ (id = eventId /\ open)

\* DispatchPointerEventInner or DispatchKeyEvent sends the event to s.
Dispatch(s, id) ==
  /\ InHandler /\ alive[s] /\ IsEvent(id)
  /\ \E n \in 0 .. Len(events_[s]) :
       /\ IsHandled(s, n)
       /\ isAnrProcess_' = [isAnrProcess_ EXCEPT ![s] = AnrAfter(s, n)]
       /\ \/ CanAdd(s, n) /\ AddTimer(s, id, n)
          \/ ~CanAdd(s, n) /\ AddNoTimer(s, n)
  /\ delivered' = [delivered EXCEPT ![s] = @ \union {id}]
  /\ eventId' = id /\ open' = TRUE
  /\ UNCHANGED <<now, fired, alive, acked>>

\* The message cannot be sent, or the event is one the application need not
\* answer (unmarked, or under a debugger).
DispatchUntracked(s, id) ==
  /\ InHandler /\ alive[s] /\ IsEvent(id)
  /\ \E n \in 0 .. Len(events_[s]) :
       /\ IsHandled(s, n)
       /\ isAnrProcess_' = [isAnrProcess_ EXCEPT ![s] = AnrAfter(s, n)]
       /\ AddNoTimer(s, n)
  /\ eventId' = id /\ open' = TRUE
  /\ UNCHANGED <<now, fired, client>>
-----------------------------------------------------------------------------
(* Timers.                                                                 *)

\* Another part of the service arms and removes its timer.
OtherArms ==
  /\ \A k \in TimerIds : timers[k].owner # Other
  /\ \E k \in TimerIds :
       /\ IsFreeId(k, {})
       /\ timers' = [timers EXCEPT
                       ![k] = [owner |-> Other, event |-> 0, due |-> now + 1]]
  /\ UNCHANGED <<now, fired, session, eventId, open, client>>

OtherRemoves ==
  /\ \E k \in TimerIds :
       /\ timers[k].owner = Other
       /\ timers' = Without({k})
  /\ UNCHANGED <<now, fired, session, eventId, open, client>>

Due == {k \in TimerIds : timers[k] # NoTimer /\ timers[k].due <= now}

\* ProcessTimers takes every timer that is due off the list.
ProcessTimers ==
  /\ Idle /\ Due # {}
  /\ timers' = Without(Due)
  /\ fired' = {timers[k] : k \in Due}
  /\ open' = FALSE
  /\ UNCHANGED <<now, session, eventId, client>>

\* The function of a timer of AddTimer: the ANR state and the report, if the
\* application's window is visible.
TimerFires(t) ==
  /\ IsNext(t) /\ t.owner \in Sessions
  /\ \E visible \in BOOLEAN :
       isAnrProcess_' = [isAnrProcess_ EXCEPT ![t.owner] = @ \/ visible]
  /\ fired' = fired \ {t}
  /\ open' = FALSE
  /\ UNCHANGED <<now, timers, events_, anrTimerCount_, eventId, client>>

\* The function of another part's timer returns.
OtherFires(t) ==
  /\ IsNext(t) /\ t.owner = Other
  /\ fired' = fired \ {t}
  /\ open' = FALSE
  /\ UNCHANGED <<now, timers, session, eventId, client>>
-----------------------------------------------------------------------------
Next ==
  \/ Tick \/ OtherArms \/ OtherRemoves \/ ProcessTimers
  \/ \E s \in Sessions :
       \/ OnSessionLost(s)
       \/ \E id \in 1 .. MaxEvents :
            Dispatch(s, id) \/ DispatchUntracked(s, id) \/ MarkProcessed(s, id)
  \/ \E t \in fired : TimerFires(t) \/ OtherFires(t)

Spec == Init /\ [][Next]_vars

\* The latest event that application s was sent.
Latest(s) == CHOOSE id \in delivered[s] : \A e \in delivered[s] : e <= id
-----------------------------------------------------------------------------
(* Properties.                                                             *)

Timer == [owner : Sessions \union {Other, Nobody}, event : Nat, due : Nat]
Record == [id : Nat, time : Nat, timerId : TimerIds \union {-1}]

\* Timers, lists and counters have their types.
TypeOK ==
  /\ now \in Nat
  /\ timers \in [TimerIds -> Timer]
  /\ fired \subseteq Timer
  /\ events_ \in [Sessions -> Seq(Record)]
  /\ isAnrProcess_ \in [Sessions -> BOOLEAN]
  /\ anrTimerCount_ \in Nat
  /\ eventId \in Nat
  /\ open \in BOOLEAN
  /\ alive \in [Sessions -> BOOLEAN]
  /\ delivered \in [Sessions -> SUBSET Nat]
  /\ acked \in [Sessions -> Nat]

\* anrTimerCount_ is the number of records that name a timer, also after timers
\* fired, ids were reused and sessions were lost: the count of AddTimer's limit
\* never drifts, which would switch the watch off for every application.
Naming(s) == {i \in 1 .. Len(events_[s]) : events_[s][i].timerId # -1}
NamingRecords == UNION {{s} \X Naming(s) : s \in Sessions}

CountMatchesRecords == anrTimerCount_ = Cardinality(NamingRecords)

\* A timer of the watch can always be removed again: the list of its session
\* has a record of its event that names it (timers_ of TimerManager against
\* events_ of the sessions).
ArmedTimersAreRecorded ==
  \A k \in TimerIds : LET s == timers[k].owner IN
    s \in Sessions => \E i \in 1 .. Len(events_[s]) :
      /\ events_[s][i].id = timers[k].event
      /\ events_[s][i].timerId = k

\* No false alarm: an application is only reported for an event it was sent and
\* did not answer, and only while it is connected.
Unanswered(t) ==
  t.owner \in Sessions =>
    alive[t.owner] /\ t.event \in delivered[t.owner] /\ t.event > acked[t.owner]

AlarmsAwaitAnswers ==
  /\ \A k \in TimerIds : Unanswered(timers[k])
  /\ \A t \in fired : Unanswered(t)

\* A session in the ANR state has an event it still has to answer; otherwise no
\* answer could end that state (isAnrProcess_ against events_).
AnrStateHasCause ==
  \A s \in Sessions : isAnrProcess_[s] => events_[s] # << >>

\* An application that goes on to answer leaves the ANR state.
AnrStateEnds ==
  \A s \in Sessions : isAnrProcess_[s] ~> ~isAnrProcess_[s] \/ ~alive[s]

\* What the log line of MarkProcessed says, "Remove anr timer": it removes the
\* timers of the events that were answered.  A timer of the watch goes when it
\* fires, its event is answered, its session is lost, or HandleAnrState deletes
\* its record.
WatchStep ==
  \A k \in TimerIds : LET s == timers[k].owner IN
    s \in Sessions /\ timers'[k] # timers[k] =>
      \/ timers[k] \in fired'
      \/ timers[k].event <= acked'[s]
      \/ ~alive'[s]
      \/ isAnrProcess_[s]

WatchIsKept == [][WatchStep]_vars

\* What the log line of HandleAnrState says, "Keep anr state": dispatching an
\* event to an application that does not answer leaves it in the ANR state.
KeepStep ==
  \A s \in Sessions :
    eventId' # eventId /\ isAnrProcess_[s] => isAnrProcess_'[s]

AnrStateIsKept == [][KeepStep]_vars
=============================================================================
