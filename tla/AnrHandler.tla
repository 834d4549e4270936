----------------------------- MODULE AnrHandler -----------------------------
(***************************************************************************)
(* The application's side of the watch of AnrManager: ANRHandler in        *)
(* anr_handler.cpp.  An application marks events as processed; the handler *)
(* keeps the newest id of each type that was not sent yet and submits a    *)
(* task for it.  A task calls MarkProcessed of the service, takes every id *)
(* that came in meanwhile, of any type, and sends those too, and looks     *)
(* once more for one of its own type, which it passes to a new task.       *)
(*                                                                         *)
(* Tasks run on a pool of threads: any number at a time, in any order,     *)
(* with other calls of the application between any two of their steps.  A  *)
(* call to the service is a function on the service's worker thread.       *)
(***************************************************************************)
EXTENDS AnrManager, Bags

CONSTANTS
  ANR_DISPATCH, ANR_MONITOR, \* types of events
  MonitorEvents              \* bound of the model: events that monitors get

ASSUME HandlerAssumption ==
  /\ ANR_DISPATCH # ANR_MONITOR
  /\ MonitorEvents \subseteq Nat

Types == {ANR_DISPATCH, ANR_MONITOR}

VARIABLES
  pendingEvents_,  \* session -> type -> the id to be sent, or -1
  tasks,           \* session -> the tasks that did not end yet
  processed        \* session -> the events [type, id] it marked

handler == <<pendingEvents_, tasks, processed>>
sysVars == <<vars, handler>>

\* A task and where it is: at its "first" call, or at the "rest" of the calls.
Task(p) == [own |-> p, at |-> "first", calls |-> {p}]
One(t) == SetToBag({t})
Become(q, t, u) == (q (-) One(t)) (+) One(u)

SysInit ==
  /\ Init
  /\ pendingEvents_ = [c \in Sessions |-> [y \in Types |-> -1]]
  /\ tasks = [c \in Sessions |-> EmptyBag]
  /\ processed = [c \in Sessions |-> {}]
-----------------------------------------------------------------------------
(* The application marks an event.                                         *)

\* Events of ANR_DISPATCH were sent to its windows, those of ANR_MONITOR to
\* its monitors, of which the service keeps no list.
CanMark(c, p) ==
  /\ p \notin processed[c]
  /\ IF p.type = ANR_DISPATCH
     THEN p.id \in delivered[c]
     ELSE p.id \in MonitorEvents /\ p.id <= eventId

\* Mutant: no task is submitted while one is running.
SendEvent_OneTask(c, p) ==
  LET pending == pendingEvents_[c][p.type] IN
    /\ pendingEvents_' = [pendingEvents_ EXCEPT
                            ![c][p.type] = IF p.id > @ THEN p.id ELSE @]
    /\ tasks' = [tasks EXCEPT
                   ![c] = IF pending = -1 /\ @ = EmptyBag
                          THEN @ (+) One(Task(p)) ELSE @]

\* A newer id replaces the one that waits for its task; an older one is dropped.
SendEvent(c, p) ==
  LET pending == pendingEvents_[c][p.type] IN
    /\ pendingEvents_' = [pendingEvents_ EXCEPT
                            ![c][p.type] = IF p.id > @ THEN p.id ELSE @]
    /\ tasks' = [tasks EXCEPT ![c] = IF pending = -1 THEN @ (+) One(Task(p)) ELSE @]

SetLastProcessedEventId(c, p) ==
  /\ alive[c] /\ CanMark(c, p)
  /\ processed' = [processed EXCEPT ![c] = @ \union {p}]
  /\ SendEvent(c, p)
  /\ UNCHANGED vars
-----------------------------------------------------------------------------
(* A task t of session c.                                                  *)

\* The service runs MarkProcessed for one of the ids of the task.  Once the
\* session is lost it returns an error, which is only logged.
CallService(c, t) ==
  \E p \in t.calls :
    /\ tasks' = [tasks EXCEPT ![c] = Become(@, t, [t EXCEPT !.calls = @ \ {p}])]
    /\ IF alive[c] /\ p.type = ANR_DISPATCH
       THEN MarkProcessed(c, p.id)
       ELSE Idle /\ UNCHANGED vars
    /\ UNCHANGED <<pendingEvents_, processed>>

Waiting(c) ==
  {[type |-> y, id |-> pendingEvents_[c][y]] :
     y \in {z \in Types : pendingEvents_[c][z] # -1}}

\* Mutant: the ids are cleared, but only those of other types are sent.
TakePending_OtherTypes(c, t) ==
  /\ t.at = "first" /\ t.calls = {}
  /\ tasks' = [tasks EXCEPT
                 ![c] = Become(@, t, [t EXCEPT
                          !.at = "rest",
                          !.calls = {p \in Waiting(c) : p.type # t.own.type}])]
  /\ pendingEvents_' = [pendingEvents_ EXCEPT ![c] = [y \in Types |-> -1]]
  /\ UNCHANGED <<vars, processed>>

\* MarkProcessedPendingEvents: all ids are taken; its own was sent.
TakePending(c, t) ==
  /\ t.at = "first" /\ t.calls = {}
  /\ tasks' = [tasks EXCEPT
                 ![c] = Become(@, t, [t EXCEPT !.at = "rest",
                                               !.calls = Waiting(c) \ {t.own}])]
  /\ pendingEvents_' = [pendingEvents_ EXCEPT ![c] = [y \in Types |-> -1]]
  /\ UNCHANGED <<vars, processed>>

\* The end of MarkProcessed: an id of the same type goes to a new task.
Finish(c, t) ==
  /\ t.at = "rest" /\ t.calls = {}
  /\ LET y == t.own.type  id == pendingEvents_[c][y] IN
       /\ tasks' = [tasks EXCEPT
                      ![c] = IF id # -1 THEN Become(@, t, Task([type |-> y, id |-> id]))
                             ELSE @ (-) One(t)]
       /\ pendingEvents_' = [pendingEvents_ EXCEPT ![c][y] = -1]
  /\ UNCHANGED <<vars, processed>>

TaskStep(c) ==
  \E t \in BagToSet(tasks[c]) : CallService(c, t) \/ TakePending(c, t) \/ Finish(c, t)
-----------------------------------------------------------------------------
\* AnrManager, except for the answers.
ServiceStep ==
  /\ \/ Tick \/ OtherArms \/ OtherRemoves \/ ProcessTimers
     \/ \E s \in Sessions :
          \/ OnSessionLost(s)
          \/ \E id \in 1 .. MaxEvents : Dispatch(s, id) \/ DispatchUntracked(s, id)
     \/ \E t \in fired : TimerFires(t) \/ OtherFires(t)
  /\ UNCHANGED handler

Marks(c) ==
  \E y \in Types, id \in 1 .. MaxEvents :
    SetLastProcessedEventId(c, [type |-> y, id |-> id])

SysNext ==
  \/ ServiceStep
  \/ \E c \in Sessions : Marks(c) \/ TaskStep(c)

SysSpec == SysInit /\ [][SysNext]_sysVars

\* Functions of timers are called and tasks run; an application marks the
\* latest event it was sent in the end.
MarksLatest(c) ==
  /\ delivered[c] # {}
  /\ SetLastProcessedEventId(c, [type |-> ANR_DISPATCH, id |-> Latest(c)])

SysFairness ==
  /\ WF_sysVars((\E t \in fired : TimerFires(t) \/ OtherFires(t)) /\ UNCHANGED handler)
  /\ \A c \in Sessions : WF_sysVars(MarksLatest(c)) /\ WF_sysVars(TaskStep(c))

FairSpec == SysSpec /\ SysFairness
-----------------------------------------------------------------------------
(* Properties.                                                             *)

\* No answer is forgotten: an id that waits in pendingEvents_ has a task that
\* will still look for it, although SendEvent submits none for it.
Looks(t, y) == t.at = "first" \/ (t.at = "rest" /\ t.own.type = y)

PendingHasTask ==
  \A c \in Sessions, y \in Types :
    pendingEvents_[c][y] # -1 => \E t \in BagToSet(tasks[c]) : Looks(t, y)

\* What an application marked, the service gets to know, whatever was dropped
\* or overtaken on the way: an answer for this event or a later one arrives.
MarkedIsAnswered ==
  \A c \in Sessions : \A id \in 1 .. MaxEvents :
    [type |-> ANR_DISPATCH, id |-> id] \in processed[c] ~>
      acked[c] >= id \/ ~alive[c]

\* The library's answers are answers AnrManager expects: what holds there for
\* an application that answers as it likes holds for one that uses the library.
ImplementsAnrManager == Spec
=============================================================================
