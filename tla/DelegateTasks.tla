---------------------------- MODULE DelegateTasks ----------------------------
(***************************************************************************)
(* service/delegate_task: binder threads hand tasks to the single worker   *)
(* thread of the service.  A poster appends a task to tasks_ and writes    *)
(* one record into a pipe, both under mux_; the worker's epoll loop sees   *)
(* the pipe readable, pops up to ONCE_PROCESS_TASK_LIMIT tasks, runs them  *)
(* one after the other outside the mutex and then reads as many records    *)
(* as it popped tasks.  A synchronous poster waits on a future with a      *)
(* timeout; hasWaited and taskIsRunning are the two atomics by which it    *)
(* and the worker tell each other what happened.  Every access of the two  *)
(* threads to shared memory is a step of its own.                          *)
(***************************************************************************)
EXTENDS Integers, Sequences

CONSTANTS
  Posters,                  \* threads other than the worker
  NoThread,                 \* mux_ is free
  MAX_TASKS_LIMIT,          \* tasks_.size() above which posts are refused
  ONCE_PROCESS_TASK_LIMIT,  \* tasks popped by one ProcessTasks
  PIPE_CAPACITY,            \* records the kernel pipe holds
  MaxPosts                  \* bound of the model on id_

ASSUME BoundsAssumption ==
  /\ NoThread \notin Posters
  /\ MAX_TASKS_LIMIT \in Nat
  /\ ONCE_PROCESS_TASK_LIMIT \in Nat \ {0}
  /\ PIPE_CAPACITY \in Nat \ {0}
  /\ MaxPosts \in Nat

Ids == 1 .. MaxPosts

VARIABLES
  tasks_,         \* the queue of posted tasks, oldest first
  pipe,           \* number of unread records in the pipe
  mux_,           \* the poster that holds mux_, or NoThread
  id_,            \* the last task id given out
  hasWaited,      \* hasWaited[t]: the poster of t stopped waiting
  taskIsRunning,  \* taskIsRunning[t]: the worker entered t's function
  promise,        \* promise[t]: "async" for a task without one
  exec,           \* exec[t]: progress of t's function
  answer,         \* answer[t]: what PostSyncTask returned for t
  pc, cur,        \* per poster: where it is, and the task it posts
  wpc, batch, count  \* worker: where it is, popped tasks still to run,
                     \* and how many it popped

postVars   == <<tasks_, pipe, mux_, id_, promise, cur>>
workerVars == <<wpc, batch, count>>
vars == <<tasks_, pipe, mux_, id_, hasWaited, taskIsRunning, promise, exec,
          answer, pc, cur, wpc, batch, count>>

ExecStates == {"none", "posted", "running", "done", "discarded"}
Answers    == {"none", "RESULT", "ETASKS_WAIT_TIMEOUT",
               "ETASKS_WAIT_TIMEOUT_BUT_RUNNING"}

Init ==
  /\ tasks_ = << >> /\ pipe = 0 /\ mux_ = NoThread /\ id_ = 0
  /\ hasWaited     = [t \in Ids |-> FALSE]
  /\ taskIsRunning = [t \in Ids |-> FALSE]
  /\ promise       = [t \in Ids |-> "async"]
  /\ exec          = [t \in Ids |-> "none"]
  /\ answer        = [t \in Ids |-> "none"]
  /\ pc  = [p \in Posters |-> "idle"]
  /\ cur = [p \in Posters |-> 0]
  /\ wpc = "epoll" /\ batch = << >> /\ count = 0
-----------------------------------------------------------------------------
(* Faults the checks must notice: variants of the actions below as slips    *)
(* in the code would have them.                                             *)

Smaller(a, b) == IF a < b THEN a ELSE b

\* A stack in place of the queue.
PushTask_Front(p) ==
  /\ pc[p] = "locked"
  /\ tasks_' = <<cur[p]>> \o tasks_
  /\ exec'   = [exec EXCEPT ![cur[p]] = "posted"]
  /\ mux_'   = NoThread
  /\ pc'     = [pc EXCEPT ![p] =
                  IF promise[cur[p]] = "async" THEN "idle" ELSE "waiting"]
  /\ UNCHANGED <<pipe, id_, hasWaited, taskIsRunning, promise, answer, cur,
                 workerVars>>

\* wait instead of wait_for.
WaitTimeout_Never(p) == pc[p] = "timedOut" /\ FALSE /\ UNCHANGED vars

\* The call of SetWaited forgotten.
SetWaited_Missing(p) ==
  /\ pc[p] = "timedOut"
  /\ pc' = [pc EXCEPT ![p] = "expired"]
  /\ UNCHANGED <<postVars, hasWaited, taskIsRunning, exec, answer, workerVars>>

\* The pipe drained whole, and the pipe read for a full batch.
ReadRecords_Leaving(n) ==
  /\ wpc = "next" /\ batch = << >>
  /\ pipe' = n
  /\ wpc' = "epoll" /\ count' = 0
  /\ UNCHANGED <<tasks_, mux_, id_, promise, cur, hasWaited, taskIsRunning,
                 exec, answer, pc, batch>>
ReadRecords_Drain == ReadRecords_Leaving(0)
ReadRecords_FullBatch == ReadRecords_Leaving(pipe - ONCE_PROCESS_TASK_LIMIT)
-----------------------------------------------------------------------------
(* The poster: PostTask, PostSyncTask, PostAsyncTask.                      *)

\* PostTask takes mux_, numbers the task and writes its record to the pipe.
\* PostAsyncTask passes no promise.
WriteRecord(p, kind) ==
  /\ pc[p] = "idle" /\ mux_ = NoThread
  /\ Len(tasks_) <= MAX_TASKS_LIMIT
  /\ id_ < MaxPosts
  /\ pipe < PIPE_CAPACITY
  /\ id_'  = id_ + 1
  /\ pipe' = pipe + 1
  /\ mux_' = p
  /\ cur'  = [cur EXCEPT ![p] = id_ + 1]
  /\ pc'   = [pc EXCEPT ![p] = "locked"]
  /\ promise' = [promise EXCEPT ![id_ + 1] = kind]
  /\ UNCHANGED <<tasks_, hasWaited, taskIsRunning, exec, answer, workerVars>>

\* The nonblocking write finds the pipe full: the id is spent, no task is
\* queued and the caller gets a null task (ETASKS_POST_..._FAIL).  A full
\* tasks_ is refused without any change of state.
WriteFails(p) ==
  /\ pc[p] = "idle" /\ mux_ = NoThread
  /\ Len(tasks_) <= MAX_TASKS_LIMIT
  /\ id_ < MaxPosts
  /\ pipe >= PIPE_CAPACITY
  /\ id_' = id_ + 1
  /\ UNCHANGED <<tasks_, pipe, mux_, hasWaited, taskIsRunning, promise, exec,
                 answer, pc, cur, workerVars>>

\* Still under mux_: the task enters the queue, then mux_ is released.
PushTask(p) ==
  /\ pc[p] = "locked"
  /\ tasks_' = Append(tasks_, cur[p])
  /\ exec'   = [exec EXCEPT ![cur[p]] = "posted"]
  /\ mux_'   = NoThread
  /\ pc'     = [pc EXCEPT ![p] =
                  IF promise[cur[p]] = "async" THEN "idle" ELSE "waiting"]
  /\ UNCHANGED <<pipe, id_, hasWaited, taskIsRunning, promise, answer, cur,
                 workerVars>>

\* wait_for returns ready; SetWaited and future.get() follow.
WaitReady(p) ==
  /\ pc[p] = "waiting" /\ promise[cur[p]] = "set"
  /\ hasWaited' = [hasWaited EXCEPT ![cur[p]] = TRUE]
  /\ answer'    = [answer EXCEPT ![cur[p]] = "RESULT"]
  /\ pc'        = [pc EXCEPT ![p] = "idle"]
  /\ UNCHANGED <<postVars, taskIsRunning, exec, workerVars>>

\* wait_for returns timeout; the poster has not told anybody yet.
WaitTimeout(p) ==
  /\ pc[p] = "waiting" /\ promise[cur[p]] = "unset"
  /\ pc' = [pc EXCEPT ![p] = "timedOut"]
  /\ UNCHANGED <<postVars, hasWaited, taskIsRunning, exec, answer, workerVars>>

SetWaited(p) ==
  /\ pc[p] = "timedOut"
  /\ hasWaited' = [hasWaited EXCEPT ![cur[p]] = TRUE]
  /\ pc'        = [pc EXCEPT ![p] = "expired"]
  /\ UNCHANGED <<postVars, taskIsRunning, exec, answer, workerVars>>

\* The poster reads taskIsRunning and returns the error it selects.
ReturnTimeout(p) ==
  /\ pc[p] = "expired"
  /\ answer' = [answer EXCEPT ![cur[p]] =
                  IF taskIsRunning[cur[p]]
                  THEN "ETASKS_WAIT_TIMEOUT_BUT_RUNNING"
                  ELSE "ETASKS_WAIT_TIMEOUT"]
  /\ pc'     = [pc EXCEPT ![p] = "idle"]
  /\ UNCHANGED <<postVars, hasWaited, taskIsRunning, exec, workerVars>>
-----------------------------------------------------------------------------
(* The worker: ProcessTasks, PopPendingTaskList, Task::ProcessTask.        *)

\* The loop wakes because the pipe is readable.  While a poster holds mux_
\* try_lock_for may fail; ProcessTasks then returns without reading the pipe
\* and the level-triggered loop comes back, which changes nothing here.
PopPendingTaskList ==
  /\ wpc = "epoll" /\ pipe > 0 /\ mux_ = NoThread
  /\ tasks_ # << >>
  /\ count' = Smaller(Len(tasks_), ONCE_PROCESS_TASK_LIMIT)
  /\ batch' = SubSeq(tasks_, 1, count')
  /\ tasks_' = SubSeq(tasks_, count' + 1, Len(tasks_))
  /\ wpc' = "next"
  /\ UNCHANGED <<pipe, mux_, id_, hasWaited, taskIsRunning, promise, exec,
                 answer, pc, cur>>

\* ProcessTask: a task whose poster stopped waiting is discarded ...
DiscardExpired ==
  /\ wpc = "next" /\ batch # << >>
  /\ hasWaited[Head(batch)]
  /\ exec' = [exec EXCEPT ![Head(batch)] = "discarded"]
  /\ batch' = Tail(batch)
  /\ UNCHANGED <<postVars, hasWaited, taskIsRunning, answer, pc, wpc, count>>

\* ... any other is going to run,
CheckWaited ==
  /\ wpc = "next" /\ batch # << >>
  /\ ~hasWaited[Head(batch)]
  /\ wpc' = "checked"
  /\ UNCHANGED <<postVars, hasWaited, taskIsRunning, exec, answer, pc, batch,
                 count>>

\* but only this later store tells the poster.
StartFun ==
  /\ wpc = "checked"
  /\ taskIsRunning' = [taskIsRunning EXCEPT ![Head(batch)] = TRUE]
  /\ exec' = [exec EXCEPT ![Head(batch)] = "running"]
  /\ wpc' = "running"
  /\ UNCHANGED <<postVars, hasWaited, answer, pc, batch, count>>

FinishFun ==
  /\ wpc = "running"
  /\ exec' = [exec EXCEPT ![Head(batch)] = "done"]
  /\ wpc' = "ran"
  /\ UNCHANGED <<postVars, hasWaited, taskIsRunning, answer, pc, batch, count>>

\* !hasWaited_ && promise_ != nullptr, then set_value.
CheckPromise ==
  /\ wpc = "ran"
  /\ ~hasWaited[Head(batch)] /\ promise[Head(batch)] # "async"
  /\ wpc' = "setting"
  /\ UNCHANGED <<postVars, hasWaited, taskIsRunning, exec, answer, pc, batch,
                 count>>

SkipPromise ==
  /\ wpc = "ran"
  /\ hasWaited[Head(batch)] \/ promise[Head(batch)] = "async"
  /\ wpc' = "next" /\ batch' = Tail(batch)
  /\ UNCHANGED <<postVars, hasWaited, taskIsRunning, exec, answer, pc, count>>

SetValue ==
  /\ wpc = "setting"
  /\ promise' = [promise EXCEPT ![Head(batch)] = "set"]
  /\ wpc' = "next" /\ batch' = Tail(batch)
  /\ UNCHANGED <<tasks_, pipe, mux_, id_, cur, hasWaited, taskIsRunning, exec,
                 answer, pc, count>>

\* After the whole batch: read(fds_[0]) for as many records as were popped.
ReadRecords ==
  /\ wpc = "next" /\ batch = << >>
  /\ pipe' = pipe - Smaller(pipe, count)
  /\ wpc' = "epoll" /\ count' = 0
  /\ UNCHANGED <<tasks_, mux_, id_, promise, cur, hasWaited, taskIsRunning,
                 exec, answer, pc, batch>>
-----------------------------------------------------------------------------
PosterReturns(p) ==
  \/ PushTask(p) \/ WaitReady(p) \/ WaitTimeout(p)
  \/ SetWaited(p) \/ ReturnTimeout(p)

Poster(p) ==
  \/ \E kind \in {"async", "unset"} : WriteRecord(p, kind)
  \/ WriteFails(p)
  \/ PosterReturns(p)

WorkerStep ==
  \/ PopPendingTaskList \/ DiscardExpired \/ CheckWaited \/ StartFun
  \/ CheckPromise \/ SkipPromise \/ SetValue \/ ReadRecords

Next == (\E p \in Posters : Poster(p)) \/ WorkerStep \/ FinishFun

\* Threads are scheduled, and wait_for returns at the latest when its time
\* is over.  Nobody has to post.
ThreadFairness ==
  /\ \A p \in Posters : WF_vars(PosterReturns(p))
  /\ WF_vars(WorkerStep)

\* No fairness on FinishFun: a function the worker runs may hang.
Spec == Init /\ [][Next]_vars /\ ThreadFairness
-----------------------------------------------------------------------------
(* Correctness.                                                            *)

TypeOK ==
  /\ tasks_ \in Seq(Ids)
  /\ pipe \in Nat
  /\ mux_ \in Posters \cup {NoThread}
  /\ id_ \in 0 .. MaxPosts
  /\ hasWaited \in [Ids -> BOOLEAN]
  /\ taskIsRunning \in [Ids -> BOOLEAN]
  /\ promise \in [Ids -> {"async", "unset", "set"}]
  /\ exec \in [Ids -> ExecStates]
  /\ answer \in [Ids -> Answers]
  /\ pc \in [Posters -> {"idle", "locked", "waiting", "timedOut", "expired"}]
  /\ cur \in [Posters -> 0 .. MaxPosts]
  /\ wpc \in {"epoll", "next", "checked", "running", "ran", "setting"}
  /\ batch \in Seq(Ids)
  /\ count \in Nat

\* The records in the pipe are exactly the queued tasks, the tasks of the
\* batch being run and the task whose poster is about to push it.  So the
\* worker is never asleep while a task is queued (no lost wake-up), and never
\* spins on a readable pipe with nothing to pop.
PipeMatchesQueue ==
  pipe = Len(tasks_) + count + (IF mux_ = NoThread THEN 0 ELSE 1)

\* A queue of MAX_TASKS_LIMIT + 1 tasks and one popped batch bound the pipe:
\* write can fail only on a pipe smaller than that, so with the kernel's 4096
\* records a task is refused for a full queue and never for a full pipe.
PipeBound ==
  pipe <= MAX_TASKS_LIMIT + 1 + ONCE_PROCESS_TASK_LIMIT

\* Functions are entered in the order in which PostTask numbered the tasks,
\* whichever threads posted them and however the batches were cut: callers
\* rely on it when they post "add" before "remove".
StartsInOrder ==
  \A t \in Ids :
    exec[t] = "posted" /\ exec'[t] = "running"
      => \A s \in 1 .. (t - 1) : exec[s] # "posted"
TasksStartInPostOrder == [][StartsInOrder]_vars

\* What the mechanism promises its callers: see TaskCall.
Promise == INSTANCE TaskCall WITH waited <- hasWaited
ImplementsTaskCall == Promise!Spec

\* A thread that entered PostTask comes out again, even if the worker hangs
\* in some task's function for ever: wait_for is bounded and mux_ is never
\* held while a function runs.
EveryCallReturns ==
  \A p \in Posters : (pc[p] # "idle") ~> (pc[p] = "idle")

\* If functions return, no accepted task is forgotten: each is executed or,
\* when its caller gave up, discarded.
FunctionsReturn ==
  \A t \in Ids : (exec[t] = "running") ~> (exec[t] = "done")
EveryTaskSettles ==
  FunctionsReturn =>
    \A t \in Ids : (exec[t] = "posted") ~> (exec[t] \in {"done", "discarded"})

\* "Expired tasks will be discarded" (delegate_tasks.cpp:40): a task whose
\* caller was told ETASKS_WAIT_TIMEOUT is not executed afterwards.  The worker
\* reads hasWaited_ before it stores taskIsRunning, and the poster stores
\* hasWaited_ and then reads taskIsRunning in between.
ExpiredTaskIsDiscarded ==
  \A t \in Ids : answer[t] = "ETASKS_WAIT_TIMEOUT"
                   => exec[t] \in {"posted", "discarded"}
=============================================================================
