------------------------------ MODULE TimerItem ------------------------------
(* A timer of the service, service/common/timer_manager: TimerItem and the *)
(* rules that depend on a single timer.                                    *)
EXTENDS Integers, Sequences

CONSTANTS
  Names,                 \* names that callers give to their timers
  NoName,                \* the default name, ""
  MAX_TIMER_COUNT,       \* ids are 0 .. MAX_TIMER_COUNT - 1
  MIN_INTERVAL, MAX_INTERVAL_MS, MAX_LONG_INTERVAL_MS

ASSUME TimerAssumption ==
  /\ NoName \notin Names
  /\ MAX_TIMER_COUNT \in Nat \ {0}
  /\ MIN_INTERVAL \in Nat \ {0}
  /\ MAX_INTERVAL_MS \in Nat /\ MIN_INTERVAL <= MAX_INTERVAL_MS
  /\ MAX_LONG_INTERVAL_MS \in Nat /\ MAX_INTERVAL_MS <= MAX_LONG_INTERVAL_MS

TimerIds == 0 .. MAX_TIMER_COUNT - 1
AnyName  == Names \union {NoName}

\* repeatCount < 1 means for ever.
Timer == [id : TimerIds, intervalMs : Int, repeatCount : Int,
          callbackCount : Nat, nextCallTime : Int, name : AnyName]

\* A collected callback, with the time its timer was set to.
Callback == [name : AnyName, at : Int]

\* The interval AddTimer keeps, and the one AddLongTimer keeps: a request
\* above MAX_LONG_INTERVAL_MS falls back to MAX_INTERVAL_MS.
Clamp(ms) == IF ms < MIN_INTERVAL THEN MIN_INTERVAL
             ELSE IF ms > MAX_INTERVAL_MS THEN MAX_INTERVAL_MS ELSE ms
ClampLong(ms) == IF ms < MIN_INTERVAL THEN MIN_INTERVAL
                 ELSE IF ms > MAX_LONG_INTERVAL_MS THEN MAX_INTERVAL_MS ELSE ms

\* The call now due is the last one the timer asks for.
IsLastCall(t) == t.repeatCount >= 1 /\ t.callbackCount + 1 >= t.repeatCount

\* The timer after a call that is not the last, and after ResetTimer.
AfterCall(t) == [t EXCEPT !.callbackCount = @ + 1,
                          !.nextCallTime = @ + t.intervalMs]
Restarted(t, time) == [t EXCEPT !.callbackCount = 0,
                                !.nextCallTime = time + t.intervalMs]
=============================================================================
