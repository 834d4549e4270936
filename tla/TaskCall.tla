------------------------------ MODULE TaskCall ------------------------------
(***************************************************************************)
(* What the delegate-task mechanism promises to a thread that hands a task *)
(* to the service's worker thread: every accepted task is executed at most *)
(* once, is thrown away only when its caller no longer waits, and the      *)
(* answer the caller gets agrees with how far the execution has come.      *)
(* DelegateTasks is shown to implement this specification.                 *)
(***************************************************************************)
CONSTANT Ids    \* the identities of tasks

VARIABLES
  exec,     \* exec[t]: how far the task's function has come
  waited,   \* waited[t]: the caller of t no longer waits for it
  answer    \* answer[t]: what PostSyncTask returned for t

vars == <<exec, waited, answer>>

ExecStates == {"none", "posted", "running", "done", "discarded"}
Answers    == {"none", "RESULT", "ETASKS_WAIT_TIMEOUT",
               "ETASKS_WAIT_TIMEOUT_BUT_RUNNING"}

TypeOK ==
  /\ exec   \in [Ids -> ExecStates]
  /\ waited \in [Ids -> BOOLEAN]
  /\ answer \in [Ids -> Answers]

Init ==
  /\ exec   = [t \in Ids |-> "none"]
  /\ waited = [t \in Ids |-> FALSE]
  /\ answer = [t \in Ids |-> "none"]

Move(t, from, to) ==
  /\ exec[t] = from
  /\ exec' = [exec EXCEPT ![t] = to]
  /\ UNCHANGED <<waited, answer>>

Accept(t) == Move(t, "none", "posted")
Begin(t)  == Move(t, "posted", "running")
Finish(t) == Move(t, "running", "done")

\* Only a task nobody waits for may be thrown away.
Discard(t) == waited[t] /\ Move(t, "posted", "discarded")

\* The result is handed out only after the function has returned.
ReturnResult(t) ==
  /\ exec[t] = "done"
  /\ answer[t] = "none"
  /\ ~waited[t]
  /\ waited' = [waited EXCEPT ![t] = TRUE]
  /\ answer' = [answer EXCEPT ![t] = "RESULT"]
  /\ UNCHANGED exec

GiveUp(t) ==
  /\ exec[t] # "none"
  /\ ~waited[t]
  /\ waited' = [waited EXCEPT ![t] = TRUE]
  /\ UNCHANGED <<exec, answer>>

\* The error code tells whether the function had been entered.
ReturnTimeout(t) ==
  /\ waited[t]
  /\ answer[t] = "none"
  /\ answer' = [answer EXCEPT ![t] =
                  IF exec[t] \in {"running", "done"}
                  THEN "ETASKS_WAIT_TIMEOUT_BUT_RUNNING"
                  ELSE "ETASKS_WAIT_TIMEOUT"]
  /\ UNCHANGED <<exec, waited>>

Next ==
  \E t \in Ids :
    \/ Accept(t) \/ Begin(t) \/ Finish(t) \/ Discard(t)
    \/ ReturnResult(t) \/ GiveUp(t) \/ ReturnTimeout(t)

Spec == Init /\ [][Next]_vars
=============================================================================
