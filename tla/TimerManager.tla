----------------------------- MODULE TimerManager -----------------------------
(***************************************************************************)
(* service/common/timer_manager and the event loop that drives it          *)
(* (MMIService::OnThread).  The worker computes how long it may sleep from *)
(* the head of the sorted list timers_, waits in EpollWait, handles what   *)
(* woke it, and then collects the due timers under timerMutex_ and calls   *)
(* them back outside of it.  Handlers and callbacks add, remove and reset  *)
(* timers; threads other than the worker add some too (a binder thread in  *)
(* MMIService::AllocSocketFdResult).  AddTimerInternal reads the clock     *)
(* before it takes the mutex, so an addition is two steps.                 *)
(***************************************************************************)
EXTENDS TimerItem, SequencesExt

CONSTANTS
  Worker,        \* the thread of the event loop
  Others,        \* other threads that add timers
  Requested,     \* intervals asked of AddTimer and AddLongTimer
  RawIntervals,  \* intervals that input plugins ask for
  RepeatCounts,  \* repeat counts that callers ask for
  NoCall, Never,
  MaxNow         \* bound of the model on the clock

ASSUME ThreadAssumption ==
  /\ Worker \notin Others
  /\ Requested \subseteq Int /\ RawIntervals \subseteq Int
  /\ RepeatCounts \subseteq Int
  /\ MaxNow \in Nat
  /\ Never \notin Nat

Threads == Others \union {Worker}

VARIABLES
  timers_,    \* the armed timers, soonest first
  now,        \* the clock, GetMillisTime
  call,       \* call[th]: the timer th is about to insert, or NoCall
  wpc,        \* where the worker is in its loop
  wakeAt,     \* in EpollWait: the time its timeout ends, or Never
  count,      \* what EpollWait returned: 0 for a timeout, 1 for an event
  pending,    \* libinput HasPendingEvents when the worker went to sleep
  nowTime,    \* in ProcessTimersInternal: the clock as it read it
  callbacks   \* the callbacks collected and not yet called

loopVars == <<wpc, wakeAt, count, pending, nowTime, callbacks>>
vars == <<timers_, now, call, loopVars>>

\* "calc" computes the delay, "epoll" sleeps, "handle" runs the handlers of
\* what woke it, "collect" is ProcessTimersInternal, "run" the loop over the
\* callbacks, "callback" one of them and "pending" HandlePendingEvents.
LoopStates == {"calc", "epoll", "handle", "collect", "run", "callback",
               "pending"}
CodeRuns == {"handle", "callback", "pending"}

MIN_TIMEOUT_DELAY == 1

\* What AddTimerInternal knows before it takes the mutex.
Request == [intervalMs : Int, repeatCount : RepeatCounts,
            nextCallTime : Int, name : AnyName]

Init ==
  /\ timers_ = << >> /\ now = 0
  /\ call = [th \in Threads |-> NoCall]
  /\ wpc = "calc" /\ wakeAt = Never /\ count = 0 /\ pending = FALSE
  /\ nowTime = 0 /\ callbacks = << >>

\* timerMutex_ is held across steps only by ProcessTimersInternal.
MutexFree == wpc # "collect"

\* A thread runs code that may call the manager.
MayCall(th) == call[th] = NoCall /\ (th = Worker => wpc \in CodeRuns)

Tick == now < MaxNow /\ now' = now + 1 /\ UNCHANGED <<timers_, call, loopVars>>
-----------------------------------------------------------------------------
(* Faults the checks must notice: variants of the definitions below as     *)
(* slips in the code would have them.                                      *)

\* Insertion without looking at the order.
IsInsertPosition_PushBack(q, t, k) == k = Len(q) + 1

\* The number of timers as the next id.
IsNextTimerId_Count(id) == id = Len(timers_)

\* The delay up to the last timer, and no delay for a timer that is due.
CalcNextDelayInternal_Back ==
  IF timers_ = << >> THEN -1
  ELSE IF now >= timers_[Len(timers_)].nextCallTime THEN 0
  ELSE timers_[Len(timers_)].nextCallTime - now
CalcNextDelayInternal_DueIsNone ==
  IF timers_ = << >> THEN -1
  ELSE IF now >= timers_[1].nextCallTime THEN -1
  ELSE timers_[1].nextCallTime - now

\* -1 taken for a length of time.
EnterEpollWait_MinusOne ==
  /\ wpc = "calc"
  /\ pending' = FALSE
  /\ wpc' = "epoll"
  /\ wakeAt' = now + (IF timers_ = << >> THEN -1 ELSE 0)
  /\ UNCHANGED <<timers_, now, call, count, nowTime, callbacks>>

\* A timer due at this very millisecond is left for the next round.
HeadIsDue_Strict == timers_ # << >> /\ timers_[1].nextCallTime < nowTime
-----------------------------------------------------------------------------
(* Helpers on the list.                                                    *)

\* k is where InsertTimerInternal puts t: before the first timer that is
\* strictly later, at the end if there is none.
IsInsertPosition(q, t, k) ==
  /\ \A i \in 1 .. k - 1 : q[i].nextCallTime <= t.nextCallTime
  /\ k <= Len(q) => q[k].nextCallTime > t.nextCallTime

\* t enters the list q.
InsertTimerInternal(q, t) ==
  \E k \in 1 .. Len(q) + 1 :
    IsInsertPosition(q, t, k) /\ timers_' = InsertAt(q, k, t)

IsUsed(id) == \E i \in 1 .. Len(timers_) : timers_[i].id = id

\* TakeNextTimerId: the lowest id that no timer in the list has.
IsNextTimerId(id) == ~ IsUsed(id) /\ \A j \in TimerIds : j < id => IsUsed(j)

\* The delay for EpollWait: -1 for no timer, else up to the first.
CalcNextDelayInternal ==
  IF timers_ = << >> THEN -1
  ELSE IF now >= timers_[1].nextCallTime THEN 0
  ELSE timers_[1].nextCallTime - now
-----------------------------------------------------------------------------
(* Calls of the manager.                                                   *)

\* AddTimer or AddLongTimer up to the mutex.
BeginAdd(th, intervalMs, repeatCount, name) ==
  /\ MayCall(th)
  /\ call' = [call EXCEPT ![th] =
       [intervalMs |-> intervalMs, repeatCount |-> repeatCount,
        nextCallTime |-> now + intervalMs, name |-> name]]
  /\ UNCHANGED <<timers_, now, loopVars>>

\* The rest under the mutex: take an id and insert.
EndAdd(th) ==
  /\ call[th] # NoCall /\ MutexFree
  /\ \E id \in TimerIds :
       /\ IsNextTimerId(id)
       /\ InsertTimerInternal(timers_,
            [id |-> id, intervalMs |-> call[th].intervalMs,
             repeatCount |-> call[th].repeatCount, callbackCount |-> 0,
             nextCallTime |-> call[th].nextCallTime, name |-> call[th].name])
  /\ call' = [call EXCEPT ![th] = NoCall]
  /\ UNCHANGED <<now, loopVars>>

\* Every id is taken: NONEXISTENT_ID.
AddFails(th) ==
  /\ call[th] # NoCall /\ MutexFree
  /\ \A id \in TimerIds : IsUsed(id)
  /\ call' = [call EXCEPT ![th] = NoCall]
  /\ UNCHANGED <<timers_, now, loopVars>>

\* RemoveTimer(timerId, name): an empty name matches every timer.  No match
\* changes nothing (RET_ERR).
RemoveTimerInternal(timerId, name) ==
  /\ MayCall(Worker)
  /\ \E k \in 1 .. Len(timers_) :
       /\ timers_[k].id = timerId /\ (name = NoName \/ timers_[k].name = name)
       /\ timers_' = RemoveAt(timers_, k)
  /\ UNCHANGED <<now, call, loopVars>>

\* ResetTimer: a full interval from now, and the count starts again.
ResetTimerInternal(timerId) ==
  /\ MayCall(Worker)
  /\ \E k \in 1 .. Len(timers_) :
       /\ timers_[k].id = timerId
       /\ InsertTimerInternal(RemoveAt(timers_, k), Restarted(timers_[k], now))
  /\ UNCHANGED <<now, call, loopVars>>
-----------------------------------------------------------------------------
(* The loop of the worker.                                                 *)

\* The locals of a step that is over are set back to their initial values.

\* CalcNextDelay, and the worker sleeps; no longer than MIN_TIMEOUT_DELAY
\* when libinput has pending events (none at MaxNow, where the clock of the
\* model would not reach the end of the timeout).
EnterEpollWait ==
  /\ wpc = "calc"
  /\ pending' \in BOOLEAN /\ (pending' => now < MaxNow)
  /\ wpc' = "epoll"
  /\ wakeAt' = IF pending' THEN now + MIN_TIMEOUT_DELAY
               ELSE IF CalcNextDelayInternal = -1 THEN Never
               ELSE now + CalcNextDelayInternal
  /\ UNCHANGED <<timers_, now, call, count, nowTime, callbacks>>

\* EpollWait returns for an event: a device, a socket, a delegated task.
WakeForEvent ==
  /\ wpc = "epoll"
  /\ wpc' = "handle" /\ count' = 1 /\ wakeAt' = Never
  /\ UNCHANGED <<timers_, now, call, pending, nowTime, callbacks>>

\* ProcessTimersInternal locks and reads the clock.
StartProcessTimers ==
  /\ wpc' = "collect" /\ nowTime' = now /\ wakeAt' = Never
  /\ UNCHANGED <<timers_, now, call, pending, callbacks>>

\* EpollWait returns because its timeout ended: nothing to handle.
WakeForTimeout ==
  /\ wpc = "epoll" /\ wakeAt # Never /\ now >= wakeAt
  /\ count' = 0
  /\ StartProcessTimers

\* The handlers of the event returned.
HandlersReturn ==
  /\ wpc = "handle" /\ call[Worker] = NoCall
  /\ StartProcessTimers
  /\ UNCHANGED count

HeadIsDue == timers_ # << >> /\ timers_[1].nextCallTime <= nowTime

\* One turn of its loop: the head is due.
CollectTimer ==
  /\ wpc = "collect" /\ HeadIsDue
  /\ callbacks' = Append(callbacks, [name |-> timers_[1].name,
                                     at |-> timers_[1].nextCallTime])
  /\ IF IsLastCall(timers_[1])
     THEN timers_' = Tail(timers_)
     ELSE InsertTimerInternal(Tail(timers_), AfterCall(timers_[1]))
  /\ UNCHANGED <<now, call, wpc, wakeAt, count, pending, nowTime>>

\* The head is not due or there is none: unlock.
EndCollect ==
  /\ wpc = "collect" /\ ~ HeadIsDue
  /\ wpc' = "run" /\ nowTime' = 0
  /\ UNCHANGED <<timers_, now, call, wakeAt, count, pending, callbacks>>

\* ProcessTimers calls the next callback, which returns later.
CallNext ==
  /\ wpc = "run" /\ callbacks # << >>
  /\ wpc' = "callback" /\ callbacks' = Tail(callbacks)
  /\ UNCHANGED <<timers_, now, call, wakeAt, count, pending, nowTime>>

CallbackReturns ==
  /\ wpc = "callback" /\ call[Worker] = NoCall
  /\ wpc' = "run"
  /\ UNCHANGED <<timers_, now, call, wakeAt, count, pending, nowTime, callbacks>>

\* All are called.  After a timeout the pending events of libinput are
\* handled; then the loop starts over.
HandlePendingEvents ==
  /\ wpc = "run" /\ callbacks = << >> /\ count = 0 /\ pending
  /\ wpc' = "pending"
  /\ UNCHANGED <<timers_, now, call, wakeAt, count, pending, nowTime, callbacks>>

LoopAgain ==
  /\ \/ wpc = "run" /\ callbacks = << >> /\ ~ (count = 0 /\ pending)
     \/ wpc = "pending" /\ call[Worker] = NoCall
  /\ wpc' = "calc" /\ count' = 0 /\ pending' = FALSE
  /\ UNCHANGED <<timers_, now, call, wakeAt, nowTime, callbacks>>

AddTimer(th) == \E ms \in Requested, n \in RepeatCounts, name \in AnyName :
                  BeginAdd(th, Clamp(ms), n, name)
AddLongTimer(th) == \E ms \in Requested, n \in RepeatCounts, name \in AnyName :
                      BeginAdd(th, ClampLong(ms), n, name)
\* An input plugin adds its timer with AddTimerInternal, whatever the
\* interval, and under its own name.
AddPluginTimer == \E ms \in RawIntervals, n \in RepeatCounts, name \in Names :
                    BeginAdd(Worker, ms, n, name)
CallManager == \E timerId \in TimerIds :
  \/ \E name \in AnyName : RemoveTimerInternal(timerId, name)
  \/ ResetTimerInternal(timerId)

Loop == \/ EnterEpollWait \/ WakeForTimeout \/ HandlersReturn
        \/ CollectTimer \/ EndCollect \/ CallNext \/ CallbackReturns
        \/ HandlePendingEvents \/ LoopAgain

Next == \/ Tick \/ Loop \/ WakeForEvent \/ CallManager \/ AddPluginTimer
        \/ \E th \in Threads : \/ AddTimer(th) \/ AddLongTimer(th)
                               \/ EndAdd(th) \/ AddFails(th)

Spec == Init /\ [][Next]_vars

\* The scheduler runs the worker; time passes; handlers, callbacks and
\* HandlePendingEvents return although each may call the manager often.
SpecLoopRuns ==
  /\ Spec
  /\ WF_vars(Tick) /\ WF_vars(Loop)
  /\ WF_vars(EndAdd(Worker) \/ AddFails(Worker))
  /\ SF_vars(HandlersReturn) /\ SF_vars(CallbackReturns) /\ SF_vars(LoopAgain)
-----------------------------------------------------------------------------
(* Properties.                                                             *)

TypeOK ==
  /\ timers_ \in Seq(Timer)
  /\ now \in Nat /\ nowTime \in Nat
  /\ call \in [Threads -> Request \union {NoCall}]
  /\ wpc \in LoopStates
  /\ wakeAt \in Nat \union {Never}
  /\ count \in {0, 1} /\ pending \in BOOLEAN
  /\ callbacks \in Seq(Callback)

\* An id names one timer: RemoveTimer and ResetTimer go by the id alone, so
\* with two timers under one id (additions of two threads, an id taken again
\* after the timer fired) they would hit the wrong one.
UniqueIds ==
  \A i, j \in 1 .. Len(timers_) : timers_[i].id = timers_[j].id => i = j

\* The list stays sorted through insertions by any thread, resets and the
\* reinsertion of repeating timers.  CalcNextDelay and ProcessTimersInternal
\* look at its head only.
SortedByDueTime ==
  \A i, j \in 1 .. Len(timers_) :
    i <= j => timers_[i].nextCallTime <= timers_[j].nextCallTime

\* While the worker sleeps, its timeout ends no later than any armed timer
\* is due, up to MIN_TIMEOUT_DELAY for pending events.  It holds where the
\* worker alone adds timers.
SleepCoversTimers ==
  wpc = "epoll" =>
    \A i \in 1 .. Len(timers_) :
      /\ wakeAt # Never
      /\ \/ wakeAt <= timers_[i].nextCallTime + MIN_TIMEOUT_DELAY
         \/ wakeAt <= now + MIN_TIMEOUT_DELAY

\* TimerManager does what TimerTable promises: whatever the interleaving of
\* additions, removals, resets and rounds, due timers fire earliest first, none
\* is left behind, and what fired is called back in that order.
Phase == IF wpc = "collect" THEN "firing"
         ELSE IF wpc \in {"run", "callback"} THEN "calling" ELSE "open"
Table == INSTANCE TimerTable WITH
  armed <- ToSet(timers_), phase <- Phase, cutoff <- nowTime, fired <- callbacks
ImplementsTimerTable == Table!Spec

\* A timer that is due is collected, removed or reset, whatever handlers and
\* callbacks do.  It holds where the worker alone adds timers: one that
\* another thread adds while the worker sleeps is seen at its next wake-up.
Due(id) == \E i \in 1 .. Len(timers_) :
             timers_[i].id = id /\ timers_[i].nextCallTime <= now
DueTimersFire == \A id \in TimerIds : Due(id) ~> ~ Due(id)
=============================================================================
