------------------------------ MODULE TimerTable ------------------------------
(* What the timer manager promises to its users, without a list and        *)
(* without an order of insertion: a set of armed timers with different     *)
(* ids.  In a round, the timers due at the cutoff fire, earliest first,    *)
(* each as often as its periods have passed; the round closes only when    *)
(* nothing that was due is left.  A timer that fired for the last time is  *)
(* armed no more.  What fired is called back afterwards, in that order.    *)
EXTENDS TimerItem

VARIABLES armed,   \* the set of armed timers
          now,     \* the clock
          phase,   \* "open", "firing" or "calling"
          cutoff,  \* the clock when the round began, while it lasts
          fired    \* callbacks not yet called, in the order they fired

vars == <<armed, now, phase, cutoff, fired>>

Init == /\ armed = {} /\ now = 0 /\ phase = "open" /\ cutoff = 0
        /\ fired = << >>

Tick == now' = now + 1 /\ UNCHANGED <<armed, phase, cutoff, fired>>

\* Arm, disarm and rearm are refused while timers fire.  A timer is armed
\* only under an id that no other armed timer has, and is due at the
\* latest one interval from now.
Arm(t) == /\ phase # "firing"
          /\ \A u \in armed : u.id # t.id
          /\ t.callbackCount = 0 /\ t.nextCallTime <= now + t.intervalMs
          /\ armed' = armed \union {t}
          /\ UNCHANGED <<now, phase, cutoff, fired>>

Disarm(t) == /\ phase # "firing"
             /\ armed' = armed \ {t}
             /\ UNCHANGED <<now, phase, cutoff, fired>>

Rearm(t) == /\ phase # "firing"
            /\ armed' = (armed \ {t}) \union {Restarted(t, now)}
            /\ UNCHANGED <<now, phase, cutoff, fired>>

OpenRound == /\ phase = "open" /\ phase' = "firing" /\ cutoff' = now
             /\ UNCHANGED <<armed, now, fired>>

Fire(t) ==
  /\ phase = "firing"
  /\ t.nextCallTime <= cutoff
  /\ \A u \in armed : t.nextCallTime <= u.nextCallTime
  /\ armed' = (armed \ {t}) \union
                (IF IsLastCall(t) THEN {} ELSE {AfterCall(t)})
  /\ fired' = Append(fired, [name |-> t.name, at |-> t.nextCallTime])
  /\ UNCHANGED <<now, phase, cutoff>>

CloseRound == /\ phase = "firing" /\ \A t \in armed : t.nextCallTime > cutoff
              /\ phase' = "calling" /\ cutoff' = 0
              /\ UNCHANGED <<armed, now, fired>>

CallBack == /\ phase = "calling" /\ fired # << >> /\ fired' = Tail(fired)
            /\ UNCHANGED <<armed, now, phase, cutoff>>

Reopen == /\ phase = "calling" /\ fired = << >> /\ phase' = "open"
          /\ UNCHANGED <<armed, now, cutoff, fired>>

Next == \/ Tick \/ OpenRound \/ CloseRound \/ CallBack \/ Reopen
        \/ \E t \in armed' : t \in Timer /\ Arm(t)
        \/ \E t \in armed : Disarm(t) \/ Rearm(t) \/ Fire(t)

Spec == Init /\ [][Next]_vars
=============================================================================
