------------------------ MODULE DelegateTasks_proofs ------------------------
(***************************************************************************)
(* Proofs about DelegateTasks for every number of posting threads, every   *)
(* queue limit, batch size and pipe capacity.                              *)
(***************************************************************************)
EXTENDS DelegateTasks, SequenceTheorems, TLAPS

\* mux_ is held exactly by the poster between its write and its push, and a
\* poster inside a call has a task.
LockInv ==
  /\ \A p \in Posters : pc[p] = "locked" <=> mux_ = p
  /\ \A p \in Posters : pc[p] # "idle" => cur[p] \in Ids

\* The worker works on the head of its batch.
WorkerInv ==
  /\ wpc \in {"checked", "running", "ran", "setting"} => batch # << >>
  /\ wpc = "epoll" => count = 0 /\ batch = << >>

\* The queue grows past MAX_TASKS_LIMIT by one task at most, and not at all
\* while a poster that has seen it at the limit still has to push.
QueueInv ==
  /\ Len(tasks_) <= MAX_TASKS_LIMIT + (IF mux_ = NoThread THEN 1 ELSE 0)
  /\ count <= ONCE_PROCESS_TASK_LIMIT

PipeInv == TypeOK /\ LockInv /\ WorkerInv /\ QueueInv /\ PipeMatchesQueue

\* What PopPendingTaskList takes and what it leaves are sequences of tasks
\* whose lengths add up to the queue's.
LEMMA PopSplits ==
  ASSUME NEW q \in Seq(Ids), NEW k \in 1 .. Len(q)
  PROVE  /\ SubSeq(q, 1, k) \in Seq(Ids)
         /\ SubSeq(q, k + 1, Len(q)) \in Seq(Ids)
         /\ Len(SubSeq(q, 1, k)) = k
         /\ Len(SubSeq(q, k + 1, Len(q))) = Len(q) - k
         /\ \A i \in 1 .. k : SubSeq(q, 1, k)[i] = q[i]
         /\ \A i \in 1 .. (Len(q) - k) :
              SubSeq(q, k + 1, Len(q))[i] = q[k + i]
  <1>1. Len(q) \in Nat /\ \A i \in 1 .. Len(q) : q[i] \in Ids
    BY ElementOfSeq, LenProperties
  <1>2. \A i \in 1 .. k : q[i] \in Ids
    BY <1>1
  <1>3. \A i \in (k + 1) .. Len(q) : q[i] \in Ids
    BY <1>1
  <1> QED
    BY <1>1, <1>2, <1>3

\* At least one task is taken, and no more than a batch.
LEMMA PopCount ==
  ASSUME NEW q \in Seq(Ids), q # << >>, NEW n \in Nat \ {0}
  PROVE  Smaller(Len(q), n) \in 1 .. Len(q) /\ Smaller(Len(q), n) <= n
  <1>1. Len(q) \in Nat \ {0}
    BY EmptySeq
  <1> QED
    BY <1>1 DEF Smaller

\* The initial state satisfies the invariant: everything is empty.
LEMMA InitPipeInv == Init => PipeInv
  BY BoundsAssumption
  DEF Init, PipeInv, TypeOK, LockInv, WorkerInv, QueueInv, PipeMatchesQueue,
      Ids, ExecStates, Answers

\* No step of a poster breaks it.
LEMMA PosterPipeInv ==
  ASSUME PipeInv, NEW p \in Posters, Poster(p)
  PROVE  PipeInv'
  <1>1. ASSUME NEW kind \in {"async", "unset"}, WriteRecord(p, kind)
        PROVE  PipeInv'
    <2>1. TypeOK'
      BY <1>1, BoundsAssumption DEF WriteRecord, PipeInv, TypeOK, LockInv, WorkerInv, Ids,
                 ExecStates, Answers, postVars, workerVars
    <2>2. LockInv' /\ WorkerInv'
      BY <1>1, BoundsAssumption DEF WriteRecord, PipeInv, TypeOK, LockInv, WorkerInv, Ids,
                 postVars, workerVars
    <2>3. QueueInv' /\ PipeMatchesQueue'
      <3>1. Len(tasks_) \in Nat /\ pipe \in Nat /\ count \in Nat
        BY DEF PipeInv, TypeOK
      <3>2. mux_ = NoThread /\ mux_' # NoThread
        BY <1>1, BoundsAssumption DEF WriteRecord
      <3>3. QueueInv'
        BY <1>1, <3>1, <3>2, BoundsAssumption
        DEF WriteRecord, PipeInv, QueueInv, workerVars
      <3>4. PipeMatchesQueue'
        BY <1>1, <3>1, <3>2
        DEF WriteRecord, PipeInv, PipeMatchesQueue, workerVars
      <3> QED
        BY <3>3, <3>4
    <2> QED
      BY <2>1, <2>2, <2>3 DEF PipeInv
  <1>2. CASE WriteFails(p)
    <2>1. TypeOK'
      BY <1>2, BoundsAssumption DEF WriteFails, PipeInv, TypeOK, LockInv, WorkerInv, Ids,
                 ExecStates, Answers, postVars, workerVars
    <2>2. LockInv' /\ WorkerInv'
      BY <1>2, BoundsAssumption DEF WriteFails, PipeInv, TypeOK, LockInv, WorkerInv, Ids,
                 postVars, workerVars
    <2>3. QueueInv' /\ PipeMatchesQueue'
      BY <1>2, BoundsAssumption DEF WriteFails, PipeInv, TypeOK, LockInv, WorkerInv,
                 QueueInv, PipeMatchesQueue, postVars, workerVars
    <2> QED
      BY <2>1, <2>2, <2>3 DEF PipeInv
  <1>3. CASE PushTask(p)
    <2>1. TypeOK'
      BY <1>3, BoundsAssumption DEF PushTask, PipeInv, TypeOK, LockInv, WorkerInv, Ids,
                 ExecStates, Answers, postVars, workerVars
    <2>2. LockInv' /\ WorkerInv'
      BY <1>3, BoundsAssumption DEF PushTask, PipeInv, TypeOK, LockInv, WorkerInv, Ids,
                 postVars, workerVars
    <2>3. QueueInv' /\ PipeMatchesQueue'
      <3>1. Len(tasks_) \in Nat /\ pipe \in Nat /\ count \in Nat
        BY DEF PipeInv, TypeOK
      <3>2. mux_ # NoThread /\ mux_' = NoThread
        BY <1>3, BoundsAssumption DEF PushTask, PipeInv, LockInv
      <3>3. Len(tasks_') = Len(tasks_) + 1
        BY <1>3 DEF PushTask, PipeInv, TypeOK, LockInv
      <3>4. QueueInv'
        BY <1>3, <3>1, <3>2, <3>3, BoundsAssumption
        DEF PushTask, PipeInv, QueueInv, workerVars
      <3>5. PipeMatchesQueue'
        BY <1>3, <3>1, <3>2, <3>3
        DEF PushTask, PipeInv, PipeMatchesQueue, workerVars
      <3> QED
        BY <3>4, <3>5
    <2> QED
      BY <2>1, <2>2, <2>3 DEF PipeInv
  <1>4. CASE WaitReady(p)
    <2>1. TypeOK'
      BY <1>4, BoundsAssumption DEF WaitReady, PipeInv, TypeOK, LockInv, WorkerInv, Ids,
                 ExecStates, Answers, postVars, workerVars
    <2>2. LockInv' /\ WorkerInv'
      BY <1>4, BoundsAssumption DEF WaitReady, PipeInv, TypeOK, LockInv, WorkerInv, Ids,
                 postVars, workerVars
    <2>3. QueueInv' /\ PipeMatchesQueue'
      BY <1>4, BoundsAssumption DEF WaitReady, PipeInv, TypeOK, LockInv, WorkerInv,
                 QueueInv, PipeMatchesQueue, postVars, workerVars
    <2> QED
      BY <2>1, <2>2, <2>3 DEF PipeInv
  <1>5. CASE WaitTimeout(p)
    <2>1. TypeOK'
      BY <1>5, BoundsAssumption DEF WaitTimeout, PipeInv, TypeOK, LockInv, WorkerInv, Ids,
                 ExecStates, Answers, postVars, workerVars
    <2>2. LockInv' /\ WorkerInv'
      BY <1>5, BoundsAssumption DEF WaitTimeout, PipeInv, TypeOK, LockInv, WorkerInv, Ids,
                 postVars, workerVars
    <2>3. QueueInv' /\ PipeMatchesQueue'
      BY <1>5, BoundsAssumption DEF WaitTimeout, PipeInv, TypeOK, LockInv, WorkerInv,
                 QueueInv, PipeMatchesQueue, postVars, workerVars
    <2> QED
      BY <2>1, <2>2, <2>3 DEF PipeInv
  <1>6. CASE SetWaited(p)
    <2>1. TypeOK'
      BY <1>6, BoundsAssumption DEF SetWaited, PipeInv, TypeOK, LockInv, WorkerInv, Ids,
                 ExecStates, Answers, postVars, workerVars
    <2>2. LockInv' /\ WorkerInv'
      BY <1>6, BoundsAssumption DEF SetWaited, PipeInv, TypeOK, LockInv, WorkerInv, Ids,
                 postVars, workerVars
    <2>3. QueueInv' /\ PipeMatchesQueue'
      BY <1>6, BoundsAssumption DEF SetWaited, PipeInv, TypeOK, LockInv, WorkerInv,
                 QueueInv, PipeMatchesQueue, postVars, workerVars
    <2> QED
      BY <2>1, <2>2, <2>3 DEF PipeInv
  <1>7. CASE ReturnTimeout(p)
    <2>1. TypeOK'
      BY <1>7, BoundsAssumption DEF ReturnTimeout, PipeInv, TypeOK, LockInv, WorkerInv, Ids,
                 ExecStates, Answers, postVars, workerVars
    <2>2. LockInv' /\ WorkerInv'
      BY <1>7, BoundsAssumption DEF ReturnTimeout, PipeInv, TypeOK, LockInv, WorkerInv, Ids,
                 postVars, workerVars
    <2>3. QueueInv' /\ PipeMatchesQueue'
      BY <1>7, BoundsAssumption DEF ReturnTimeout, PipeInv, TypeOK, LockInv, WorkerInv,
                 QueueInv, PipeMatchesQueue, postVars, workerVars
    <2> QED
      BY <2>1, <2>2, <2>3 DEF PipeInv
  <1> QED
    BY <1>1, <1>2, <1>3, <1>4, <1>5, <1>6, <1>7 DEF Poster, PosterReturns

\* No step of the worker breaks it.
LEMMA WorkerPipeInv ==
  ASSUME PipeInv, WorkerStep \/ FinishFun
  PROVE  PipeInv'
  <1>1. CASE PopPendingTaskList
    <2> DEFINE k == Smaller(Len(tasks_), ONCE_PROCESS_TASK_LIMIT)
    <2>1. /\ tasks_ \in Seq(Ids) /\ tasks_ # << >>
          /\ ONCE_PROCESS_TASK_LIMIT \in Nat \ {0}
      BY <1>1, BoundsAssumption DEF PopPendingTaskList, PipeInv, TypeOK
    <2>2. /\ k \in 1 .. Len(tasks_) /\ k <= ONCE_PROCESS_TASK_LIMIT
          /\ SubSeq(tasks_, 1, k) \in Seq(Ids)
          /\ SubSeq(tasks_, k + 1, Len(tasks_)) \in Seq(Ids)
          /\ Len(SubSeq(tasks_, 1, k)) = k
          /\ Len(SubSeq(tasks_, k + 1, Len(tasks_))) = Len(tasks_) - k
      <3>1. k \in 1 .. Len(tasks_) /\ k <= ONCE_PROCESS_TASK_LIMIT
        BY <2>1, PopCount
      <3> QED
        BY <2>1, <3>1, PopSplits
    <2>3. /\ count' = k
          /\ batch' = SubSeq(tasks_, 1, k)
          /\ tasks_' = SubSeq(tasks_, k + 1, Len(tasks_))
          /\ mux_ = NoThread /\ mux_' = NoThread /\ wpc' = "next"
      BY <1>1 DEF PopPendingTaskList
    <2>4. TypeOK'
      <3>1. count' \in Nat /\ batch' \in Seq(Ids) /\ tasks_' \in Seq(Ids)
        BY <2>2, <2>3
      <3> QED
        BY <1>1, <3>1 DEF PopPendingTaskList, PipeInv, TypeOK, Ids
    <2>5. LockInv' /\ WorkerInv'
      BY <1>1 DEF PopPendingTaskList, PipeInv, LockInv, WorkerInv
    <2>6. Len(tasks_) \in Nat /\ pipe \in Nat /\ count = 0
      BY <1>1 DEF PopPendingTaskList, PipeInv, TypeOK, WorkerInv
    <2>7. QueueInv'
      BY <2>2, <2>3, <2>6, BoundsAssumption DEF PipeInv, QueueInv
    <2>8. PipeMatchesQueue'
      BY <1>1, <2>2, <2>3, <2>6
      DEF PopPendingTaskList, PipeInv, PipeMatchesQueue
    <2> QED
      BY <2>4, <2>5, <2>7, <2>8 DEF PipeInv
  <1>2. CASE DiscardExpired
    <2>1. TypeOK'
      BY <1>2, BoundsAssumption, HeadTailProperties DEF DiscardExpired, PipeInv, TypeOK, LockInv, WorkerInv, Ids,
                 ExecStates, Answers, postVars, workerVars
    <2>2. LockInv' /\ WorkerInv'
      BY <1>2, BoundsAssumption, HeadTailProperties DEF DiscardExpired, PipeInv, TypeOK, LockInv, WorkerInv, Ids,
                 postVars, workerVars
    <2>3. QueueInv' /\ PipeMatchesQueue'
      BY <1>2, BoundsAssumption, HeadTailProperties DEF DiscardExpired, PipeInv, TypeOK, LockInv, WorkerInv,
                 QueueInv, PipeMatchesQueue, postVars, workerVars
    <2> QED
      BY <2>1, <2>2, <2>3 DEF PipeInv
  <1>3. CASE CheckWaited
    <2>1. TypeOK'
      BY <1>3, BoundsAssumption DEF CheckWaited, PipeInv, TypeOK, LockInv, WorkerInv, Ids,
                 ExecStates, Answers, postVars, workerVars
    <2>2. LockInv' /\ WorkerInv'
      BY <1>3, BoundsAssumption DEF CheckWaited, PipeInv, TypeOK, LockInv, WorkerInv, Ids,
                 postVars, workerVars
    <2>3. QueueInv' /\ PipeMatchesQueue'
      BY <1>3, BoundsAssumption DEF CheckWaited, PipeInv, TypeOK, LockInv, WorkerInv,
                 QueueInv, PipeMatchesQueue, postVars, workerVars
    <2> QED
      BY <2>1, <2>2, <2>3 DEF PipeInv
  <1>4. CASE StartFun
    <2>1. TypeOK'
      BY <1>4, BoundsAssumption DEF StartFun, PipeInv, TypeOK, LockInv, WorkerInv, Ids,
                 ExecStates, Answers, postVars, workerVars
    <2>2. LockInv' /\ WorkerInv'
      BY <1>4, BoundsAssumption DEF StartFun, PipeInv, TypeOK, LockInv, WorkerInv, Ids,
                 postVars, workerVars
    <2>3. QueueInv' /\ PipeMatchesQueue'
      BY <1>4, BoundsAssumption DEF StartFun, PipeInv, TypeOK, LockInv, WorkerInv,
                 QueueInv, PipeMatchesQueue, postVars, workerVars
    <2> QED
      BY <2>1, <2>2, <2>3 DEF PipeInv
  <1>5. CASE FinishFun
    <2>1. TypeOK'
      BY <1>5, BoundsAssumption DEF FinishFun, PipeInv, TypeOK, LockInv, WorkerInv, Ids,
                 ExecStates, Answers, postVars, workerVars
    <2>2. LockInv' /\ WorkerInv'
      BY <1>5, BoundsAssumption DEF FinishFun, PipeInv, TypeOK, LockInv, WorkerInv, Ids,
                 postVars, workerVars
    <2>3. QueueInv' /\ PipeMatchesQueue'
      BY <1>5, BoundsAssumption DEF FinishFun, PipeInv, TypeOK, LockInv, WorkerInv,
                 QueueInv, PipeMatchesQueue, postVars, workerVars
    <2> QED
      BY <2>1, <2>2, <2>3 DEF PipeInv
  <1>6. CASE CheckPromise
    <2>1. TypeOK'
      BY <1>6, BoundsAssumption DEF CheckPromise, PipeInv, TypeOK, LockInv, WorkerInv, Ids,
                 ExecStates, Answers, postVars, workerVars
    <2>2. LockInv' /\ WorkerInv'
      BY <1>6, BoundsAssumption DEF CheckPromise, PipeInv, TypeOK, LockInv, WorkerInv, Ids,
                 postVars, workerVars
    <2>3. QueueInv' /\ PipeMatchesQueue'
      BY <1>6, BoundsAssumption DEF CheckPromise, PipeInv, TypeOK, LockInv, WorkerInv,
                 QueueInv, PipeMatchesQueue, postVars, workerVars
    <2> QED
      BY <2>1, <2>2, <2>3 DEF PipeInv
  <1>7. CASE SkipPromise
    <2>1. TypeOK'
      BY <1>7, BoundsAssumption, HeadTailProperties DEF SkipPromise, PipeInv, TypeOK, LockInv, WorkerInv, Ids,
                 ExecStates, Answers, postVars, workerVars
    <2>2. LockInv' /\ WorkerInv'
      BY <1>7, BoundsAssumption, HeadTailProperties DEF SkipPromise, PipeInv, TypeOK, LockInv, WorkerInv, Ids,
                 postVars, workerVars
    <2>3. QueueInv' /\ PipeMatchesQueue'
      BY <1>7, BoundsAssumption, HeadTailProperties DEF SkipPromise, PipeInv, TypeOK, LockInv, WorkerInv,
                 QueueInv, PipeMatchesQueue, postVars, workerVars
    <2> QED
      BY <2>1, <2>2, <2>3 DEF PipeInv
  <1>8. CASE SetValue
    <2>1. TypeOK'
      BY <1>8, BoundsAssumption, HeadTailProperties DEF SetValue, PipeInv, TypeOK, LockInv, WorkerInv, Ids,
                 ExecStates, Answers, postVars, workerVars
    <2>2. LockInv' /\ WorkerInv'
      BY <1>8, BoundsAssumption, HeadTailProperties DEF SetValue, PipeInv, TypeOK, LockInv, WorkerInv, Ids,
                 postVars, workerVars
    <2>3. QueueInv' /\ PipeMatchesQueue'
      BY <1>8, BoundsAssumption, HeadTailProperties DEF SetValue, PipeInv, TypeOK, LockInv, WorkerInv,
                 QueueInv, PipeMatchesQueue, postVars, workerVars
    <2> QED
      BY <2>1, <2>2, <2>3 DEF PipeInv
  <1>9. CASE ReadRecords
    <2>1. TypeOK'
      BY <1>9, BoundsAssumption DEF ReadRecords, Smaller, PipeInv, TypeOK, LockInv, WorkerInv, Ids,
                 ExecStates, Answers, postVars, workerVars
    <2>2. LockInv' /\ WorkerInv'
      BY <1>9, BoundsAssumption DEF ReadRecords, Smaller, PipeInv, TypeOK, LockInv, WorkerInv, Ids,
                 postVars, workerVars
    <2>3. QueueInv' /\ PipeMatchesQueue'
      <3>1. Len(tasks_) \in Nat /\ pipe \in Nat /\ count \in Nat
        BY DEF PipeInv, TypeOK
      <3>2. QueueInv'
        BY <1>9, BoundsAssumption DEF ReadRecords, PipeInv, QueueInv
      <3>3. count <= pipe
        BY <3>1 DEF PipeInv, PipeMatchesQueue
      <3>4. Smaller(pipe, count) = count
        BY <3>1, <3>3 DEF Smaller
      <3>5. /\ pipe' = pipe - count /\ count' = 0
            /\ tasks_' = tasks_ /\ mux_' = mux_
        BY <1>9, <3>4 DEF ReadRecords
      <3>6. PipeMatchesQueue'
        BY <3>1, <3>5 DEF PipeInv, PipeMatchesQueue
      <3> QED
        BY <3>2, <3>6
    <2> QED
      BY <2>1, <2>2, <2>3 DEF PipeInv
  <1> QED
    BY <1>1, <1>2, <1>3, <1>4, <1>5, <1>6, <1>7, <1>8, <1>9 DEF WorkerStep

\* The invariant holds in every reachable state.
THEOREM PipeInvariant == Spec => []PipeInv
  <1>1. Init => PipeInv
    BY InitPipeInv
  <1>2. PipeInv /\ [Next]_vars => PipeInv'
    <2> SUFFICES ASSUME PipeInv, [Next]_vars PROVE PipeInv'
      OBVIOUS
    <2>1. CASE Next
      BY <2>1, PosterPipeInv, WorkerPipeInv DEF Next
    <2>2. CASE UNCHANGED vars
      BY <2>2 DEF vars, PipeInv, TypeOK, LockInv, WorkerInv, QueueInv,
                  PipeMatchesQueue
    <2> QED
      BY <2>1, <2>2
  <1> QED
    BY <1>1, <1>2, PTL DEF Spec

\* Type correctness.
THEOREM TypeCorrect == Spec => []TypeOK
  BY PipeInvariant, PTL DEF PipeInv

\* No lost wake-up and no spinning: the pipe always holds one record per task
\* that is queued, being run in the current batch or about to be pushed.
THEOREM PipeAlwaysMatchesQueue == Spec => []PipeMatchesQueue
  BY PipeInvariant, PTL DEF PipeInv

\* The pipe never holds more than MAX_TASKS_LIMIT + 1 + ONCE_PROCESS_TASK_LIMIT
\* records (1011 in the code, against a kernel capacity of 4096), so write
\* never fails for want of room.
THEOREM PipeNeverFills == Spec => []PipeBound
  <1>1. PipeInv => PipeBound
    BY BoundsAssumption
    DEF PipeInv, TypeOK, QueueInv, PipeMatchesQueue, PipeBound
  <1> QED
    BY <1>1, PipeInvariant, PTL
-----------------------------------------------------------------------------
(* Order of execution, and the refinement of TaskCall.                     *)

\* What the task at the head of the batch has come to.
HeadExec ==
  IF wpc = "running" THEN "running"
  ELSE IF wpc \in {"ran", "setting"} THEN "done" ELSE "posted"

\* Batch and queue together hold the posted tasks, in the order of their ids.
OrderInv ==
  /\ \A i, j \in 1 .. Len(tasks_) : i < j => tasks_[i] < tasks_[j]
  /\ \A i, j \in 1 .. Len(batch) : i < j => batch[i] < batch[j]
  /\ \A i \in 1 .. Len(batch) : \A j \in 1 .. Len(tasks_) :
       batch[i] < tasks_[j]
  /\ \A i \in 1 .. Len(tasks_) :
       tasks_[i] <= id_ /\ exec[tasks_[i]] = "posted"
  /\ \A i \in 1 .. Len(batch) :
       /\ batch[i] <= id_
       /\ exec[batch[i]] = IF i = 1 THEN HeadExec ELSE "posted"
  /\ \A t \in Ids : exec[t] = "posted" =>
       \/ \E i \in 1 .. Len(tasks_) : tasks_[i] = t
       \/ \E i \in 1 .. Len(batch) : batch[i] = t

\* What is known of a task from where its poster is.
CallInv ==
  /\ \A p \in Posters :
       /\ pc[p] # "idle" => cur[p] <= id_ /\ answer[cur[p]] = "none"
       /\ pc[p] = "locked" =>
            /\ cur[p] = id_ /\ exec[id_] = "none" /\ ~hasWaited[id_]
            /\ promise[id_] # "set"
       /\ pc[p] \in {"waiting", "timedOut"} =>
            exec[cur[p]] # "none" /\ ~hasWaited[cur[p]]
       /\ pc[p] = "expired" => hasWaited[cur[p]]
  /\ \A p, q \in Posters :
       p # q /\ pc[p] # "idle" /\ pc[q] # "idle" => cur[p] # cur[q]
  /\ \A t \in Ids :
       /\ promise[t] = "set" => exec[t] = "done"
       /\ taskIsRunning[t] <=> exec[t] \in {"running", "done"}
       /\ t > id_ => exec[t] = "none" /\ ~hasWaited[t] /\ answer[t] = "none"

CallsInv == PipeInv /\ OrderInv /\ CallInv

\* Queue and batch hold task ids.
LEMMA Entries ==
  ASSUME CallsInv
  PROVE  /\ Len(tasks_) \in Nat /\ Len(batch) \in Nat /\ id_ \in Int
         /\ \A j \in 1 .. Len(tasks_) : tasks_[j] \in Ids
         /\ \A i \in 1 .. Len(batch) : batch[i] \in Ids
         /\ Ids \subseteq Int
  <1>1. tasks_ \in Seq(Ids) /\ batch \in Seq(Ids) /\ id_ \in 0 .. MaxPosts
    BY DEF CallsInv, PipeInv, TypeOK
  <1> QED
    BY <1>1, ElementOfSeq, LenProperties, BoundsAssumption DEF Ids

\* The head of the batch, and what is behind it.
LEMMA HeadOfBatch ==
  ASSUME CallsInv, batch # << >>
  PROVE  /\ Len(batch) \in Nat \ {0} /\ Len(tasks_) \in Nat
         /\ Head(batch) = batch[1] /\ Head(batch) \in Ids
         /\ exec[Head(batch)] = HeadExec
         /\ \A i \in 2 .. Len(batch) :
              Head(batch) < batch[i] /\ exec[batch[i]] = "posted"
         /\ \A j \in 1 .. Len(tasks_) : Head(batch) < tasks_[j]
         /\ Tail(batch) \in Seq(Ids) /\ Len(Tail(batch)) = Len(batch) - 1
         /\ \A i \in 1 .. Len(Tail(batch)) : Tail(batch)[i] = batch[i + 1]
  <1>1. batch \in Seq(Ids) /\ tasks_ \in Seq(Ids)
    BY DEF CallsInv, PipeInv, TypeOK
  <1>2. /\ Len(batch) \in Nat \ {0} /\ Len(tasks_) \in Nat
        /\ Head(batch) = batch[1] /\ Head(batch) \in Ids
        /\ Tail(batch) \in Seq(Ids) /\ Len(Tail(batch)) = Len(batch) - 1
        /\ \A i \in 1 .. Len(Tail(batch)) : Tail(batch)[i] = batch[i + 1]
    BY <1>1, HeadTailProperties, EmptySeq
  <1> QED
    BY <1>2 DEF CallsInv, OrderInv

\* The order survives when the head of the batch alone moves on ...
LEMMA HeadAdvances ==
  ASSUME CallsInv, batch # << >>,
         UNCHANGED <<tasks_, batch, id_>>, exec' \in [Ids -> ExecStates],
         exec'[Head(batch)] = HeadExec', HeadExec' # "posted",
         \A t \in Ids \ {Head(batch)} : exec'[t] = exec[t]
  PROVE  OrderInv'
  <1>1. \A i \in 2 .. Len(batch) : batch[i] \in Ids \ {Head(batch)}
    BY HeadOfBatch, Entries
  <1>2. \A j \in 1 .. Len(tasks_) : tasks_[j] \in Ids \ {Head(batch)}
    BY HeadOfBatch, Entries
  <1>3. \A i \in 1 .. Len(batch) :
          exec'[batch[i]] = IF i = 1 THEN HeadExec' ELSE "posted"
    BY <1>1, HeadOfBatch
  <1>4. \A j \in 1 .. Len(tasks_) : exec'[tasks_[j]] = "posted"
    BY <1>2 DEF CallsInv, OrderInv
  <1> QED
    BY <1>3, <1>4 DEF CallsInv, OrderInv

\* ... and when it leaves the batch.
LEMMA HeadLeaves ==
  ASSUME CallsInv, batch # << >>, batch' = Tail(batch),
         UNCHANGED <<tasks_, id_>>, exec' \in [Ids -> ExecStates],
         HeadExec' = "posted", exec'[Head(batch)] # "posted",
         \A t \in Ids \ {Head(batch)} : exec'[t] = exec[t]
  PROVE  OrderInv'
  <1>1. \A i \in 2 .. Len(batch) : batch[i] \in Ids \ {Head(batch)}
    BY HeadOfBatch, Entries
  <1>2. \A j \in 1 .. Len(tasks_) : tasks_[j] \in Ids \ {Head(batch)}
    BY HeadOfBatch, Entries
  <1>3. /\ Len(batch') = Len(batch) - 1 /\ Len(batch) \in Nat \ {0}
        /\ \A i \in 1 .. Len(batch') : batch'[i] = batch[i + 1]
    BY HeadOfBatch
  <1>4. \A i \in 1 .. Len(batch') :
          batch'[i] <= id_ /\ exec'[batch'[i]] = "posted"
    <2> SUFFICES ASSUME NEW i \in 1 .. Len(batch')
                 PROVE  batch'[i] <= id_ /\ exec'[batch'[i]] = "posted"
      OBVIOUS
    <2>1. i + 1 \in 2 .. Len(batch) /\ batch'[i] = batch[i + 1]
      BY <1>3
    <2> QED
      BY <2>1, <1>1, HeadOfBatch DEF CallsInv, OrderInv
  <1>5. \A j \in 1 .. Len(tasks_) : exec'[tasks_[j]] = "posted"
    BY <1>2 DEF CallsInv, OrderInv
  <1>6. \A i, j \in 1 .. Len(batch') : i < j => batch'[i] < batch'[j]
    BY <1>3 DEF CallsInv, OrderInv
  <1>7. \A i \in 1 .. Len(batch') : \A j \in 1 .. Len(tasks_) :
          batch'[i] < tasks_[j]
    BY <1>3 DEF CallsInv, OrderInv
  <1>8. ASSUME NEW t \in Ids, exec'[t] = "posted"
        PROVE  \/ \E i \in 1 .. Len(tasks_) : tasks_[i] = t
               \/ \E i \in 1 .. Len(batch') : batch'[i] = t
    <2>1. t # Head(batch) /\ exec[t] = "posted"
      BY <1>8
    <2>2. CASE \E i \in 1 .. Len(tasks_) : tasks_[i] = t
      BY <2>2
    <2>3. CASE \E i \in 1 .. Len(batch) : batch[i] = t
      <3>1. PICK i \in 1 .. Len(batch) : batch[i] = t
        BY <2>3
      <3>2. i # 1
        BY <2>1, <3>1, HeadOfBatch
      <3>3. i - 1 \in 1 .. Len(batch') /\ batch'[i - 1] = batch[i]
        BY <1>3, <3>2
      <3> QED
        BY <3>1, <3>3
    <2> QED
      BY <2>1, <2>2, <2>3 DEF CallsInv, OrderInv
  <1> QED
    BY <1>4, <1>5, <1>6, <1>7, <1>8 DEF CallsInv, OrderInv

\* No step of a poster breaks the order or the calls' invariant.
LEMMA PosterCallsInv ==
  ASSUME CallsInv, NEW p \in Posters, Poster(p)
  PROVE  OrderInv' /\ CallInv'
  <1>1. ASSUME NEW kind \in {"async", "unset"}, WriteRecord(p, kind)
        PROVE  OrderInv' /\ CallInv'
    <2>1. OrderInv'
      <3>1. /\ UNCHANGED <<tasks_, batch, exec, wpc>> /\ id_' = id_ + 1
            /\ HeadExec' = HeadExec
        BY <1>1 DEF WriteRecord, workerVars, HeadExec
      <3>2. /\ \A i \in 1 .. Len(tasks_) : tasks_[i] <= id_ + 1
            /\ \A i \in 1 .. Len(batch) : batch[i] <= id_ + 1
        BY Entries DEF CallsInv, OrderInv
      <3> QED
        BY <3>1, <3>2 DEF CallsInv, OrderInv
    <2>2. CallInv'
      BY <1>1, BoundsAssumption
      DEF WriteRecord, CallsInv, PipeInv, TypeOK, LockInv, WorkerInv, Ids,
                 ExecStates, Answers, postVars, workerVars, CallInv, OrderInv, HeadExec
    <2> QED
      BY <2>1, <2>2
  <1>2. CASE WriteFails(p)
    <2>1. OrderInv'
      <3>1. /\ UNCHANGED <<tasks_, batch, exec, wpc>> /\ id_' = id_ + 1
        BY <1>2 DEF WriteFails, workerVars
      <3>2. HeadExec' = HeadExec
        BY <3>1 DEF HeadExec
      <3>3. /\ \A i \in 1 .. Len(tasks_) : tasks_[i] <= id_ + 1
            /\ \A i \in 1 .. Len(batch) : batch[i] <= id_ + 1
        BY Entries DEF CallsInv, OrderInv
      <3> QED
        BY <3>1, <3>2, <3>3 DEF CallsInv, OrderInv
    <2>2. CallInv'
      BY <1>2, BoundsAssumption
      DEF WriteFails, CallsInv, PipeInv, TypeOK, LockInv, WorkerInv, Ids,
                 ExecStates, Answers, postVars, workerVars, CallInv, OrderInv, HeadExec
    <2> QED
      BY <2>1, <2>2
  <1>3. CASE PushTask(p)
    <2>1. OrderInv'
      <3>1. /\ pc[p] = "locked" /\ cur[p] = id_ /\ id_ \in Ids
            /\ exec[id_] = "none" /\ exec \in [Ids -> ExecStates]
            /\ tasks_ \in Seq(Ids)
        BY <1>3 DEF PushTask, CallsInv, CallInv, PipeInv, LockInv, TypeOK
      <3>2. /\ tasks_' = Append(tasks_, id_)
            /\ exec' = [exec EXCEPT ![id_] = "posted"]
            /\ UNCHANGED <<batch, wpc, id_>>
        BY <1>3, <3>1 DEF PushTask, workerVars
      <3>3. /\ Len(tasks_') = Len(tasks_) + 1 /\ tasks_'[Len(tasks_')] = id_
            /\ \A i \in 1 .. Len(tasks_) : tasks_'[i] = tasks_[i]
        BY <3>1, <3>2
      <3>4. HeadExec' = HeadExec /\ HeadExec # "none"
        BY <3>2 DEF HeadExec
      <3>5. /\ \A i \in 1 .. Len(tasks_) : tasks_[i] < id_
            /\ \A i \in 1 .. Len(batch) : batch[i] < id_
        BY <3>1, <3>4, Entries DEF CallsInv, OrderInv
      <3>6. /\ \A i \in 1 .. Len(tasks_) : exec'[tasks_[i]] = "posted"
            /\ \A i \in 1 .. Len(batch) :
                 exec'[batch[i]] = IF i = 1 THEN HeadExec ELSE "posted"
            /\ exec'[id_] = "posted"
        <4>1. /\ \A i \in 1 .. Len(tasks_) : exec[tasks_[i]] = "posted"
              /\ \A i \in 1 .. Len(batch) :
                   exec[batch[i]] = IF i = 1 THEN HeadExec ELSE "posted"
          BY DEF CallsInv, OrderInv
        <4>2. \A t \in Ids : t < id_ => exec'[t] = exec[t]
          BY <3>1, <3>2, Entries
        <4>3. exec'[id_] = "posted"
          BY <3>1, <3>2
        <4>4. /\ \A i \in 1 .. Len(tasks_) : exec'[tasks_[i]] = exec[tasks_[i]]
              /\ \A i \in 1 .. Len(batch) : exec'[batch[i]] = exec[batch[i]]
          BY <3>5, <4>2, Entries
        <4> QED
          BY <4>1, <4>3, <4>4
      <3>7. ASSUME NEW i \in 1 .. Len(tasks_'), NEW j \in 1 .. Len(tasks_'),
                   i < j
            PROVE  tasks_'[i] < tasks_'[j]
        <4>1. i \in 1 .. Len(tasks_) /\ tasks_'[i] = tasks_[i]
          BY <3>3, <3>7, Entries
        <4>2. CASE j = Len(tasks_')
          BY <4>1, <4>2, <3>3, <3>5
        <4>3. CASE j # Len(tasks_')
          <5>1. j \in 1 .. Len(tasks_) /\ tasks_'[j] = tasks_[j]
            BY <4>3, <3>3, Entries
          <5> QED
            BY <4>1, <5>1, <3>7 DEF CallsInv, OrderInv
        <4> QED
          BY <4>2, <4>3
      <3>8. \A i \in 1 .. Len(batch) : \A j \in 1 .. Len(tasks_') :
              batch[i] < tasks_'[j]
        <4> SUFFICES ASSUME NEW i \in 1 .. Len(batch), NEW j \in 1 .. Len(tasks_')
                     PROVE  batch[i] < tasks_'[j]
          OBVIOUS
        <4>1. CASE j = Len(tasks_')
          BY <3>3, <3>5, <4>1
        <4>2. CASE j # Len(tasks_')
          <5>1. j \in 1 .. Len(tasks_) /\ tasks_'[j] = tasks_[j]
            BY <3>3, <4>2, Entries
          <5> QED
            BY <5>1 DEF CallsInv, OrderInv
        <4> QED
          BY <4>1, <4>2
      <3>9. \A i \in 1 .. Len(tasks_') :
              tasks_'[i] <= id_ /\ exec'[tasks_'[i]] = "posted"
        BY <3>3, <3>5, <3>6, Entries
      <3>10. ASSUME NEW t \in Ids, exec'[t] = "posted"
             PROVE  \/ \E i \in 1 .. Len(tasks_') : tasks_'[i] = t
                    \/ \E i \in 1 .. Len(batch) : batch[i] = t
        <4>1. CASE t = id_
          BY <4>1, <3>3, Entries
        <4>2. CASE t # id_
          <5>1. exec[t] = "posted"
            BY <3>1, <3>2, <3>10, <4>2
          <5> QED
            BY <5>1, <3>3, Entries DEF CallsInv, OrderInv
        <4> QED
          BY <4>1, <4>2
      <3> QED
        BY <3>2, <3>4, <3>6, <3>7, <3>8, <3>9, <3>10
        DEF CallsInv, OrderInv
    <2>2. CallInv'
      BY <1>3, BoundsAssumption
      DEF PushTask, CallsInv, PipeInv, TypeOK, LockInv, WorkerInv, Ids,
                 ExecStates, Answers, postVars, workerVars, CallInv, OrderInv, HeadExec
    <2> QED
      BY <2>1, <2>2
  <1>4. CASE WaitReady(p)
    <2>1. OrderInv'
      BY <1>4, BoundsAssumption
      DEF WaitReady, CallsInv, PipeInv, TypeOK, LockInv, WorkerInv, Ids,
                 ExecStates, Answers, postVars, workerVars, OrderInv, HeadExec, CallInv
    <2>2. CallInv'
      BY <1>4, BoundsAssumption
      DEF WaitReady, CallsInv, PipeInv, TypeOK, LockInv, WorkerInv, Ids,
                 ExecStates, Answers, postVars, workerVars, CallInv, OrderInv, HeadExec
    <2> QED
      BY <2>1, <2>2
  <1>5. CASE WaitTimeout(p)
    <2>1. OrderInv'
      BY <1>5, BoundsAssumption
      DEF WaitTimeout, CallsInv, PipeInv, TypeOK, LockInv, WorkerInv, Ids,
                 ExecStates, Answers, postVars, workerVars, OrderInv, HeadExec, CallInv
    <2>2. CallInv'
      BY <1>5, BoundsAssumption
      DEF WaitTimeout, CallsInv, PipeInv, TypeOK, LockInv, WorkerInv, Ids,
                 ExecStates, Answers, postVars, workerVars, CallInv, OrderInv, HeadExec
    <2> QED
      BY <2>1, <2>2
  <1>6. CASE SetWaited(p)
    <2>1. OrderInv'
      BY <1>6, BoundsAssumption
      DEF SetWaited, CallsInv, PipeInv, TypeOK, LockInv, WorkerInv, Ids,
                 ExecStates, Answers, postVars, workerVars, OrderInv, HeadExec, CallInv
    <2>2. CallInv'
      BY <1>6, BoundsAssumption
      DEF SetWaited, CallsInv, PipeInv, TypeOK, LockInv, WorkerInv, Ids,
                 ExecStates, Answers, postVars, workerVars, CallInv, OrderInv, HeadExec
    <2> QED
      BY <2>1, <2>2
  <1>7. CASE ReturnTimeout(p)
    <2>1. OrderInv'
      BY <1>7, BoundsAssumption
      DEF ReturnTimeout, CallsInv, PipeInv, TypeOK, LockInv, WorkerInv, Ids,
                 ExecStates, Answers, postVars, workerVars, OrderInv, HeadExec, CallInv
    <2>2. CallInv'
      BY <1>7, BoundsAssumption
      DEF ReturnTimeout, CallsInv, PipeInv, TypeOK, LockInv, WorkerInv, Ids,
                 ExecStates, Answers, postVars, workerVars, CallInv, OrderInv, HeadExec
    <2> QED
      BY <2>1, <2>2
  <1> QED
    BY <1>1, <1>2, <1>3, <1>4, <1>5, <1>6, <1>7 DEF Poster, PosterReturns

\* No step of the worker breaks them.
LEMMA WorkerCallsInv ==
  ASSUME CallsInv, WorkerStep \/ FinishFun
  PROVE  OrderInv' /\ CallInv'
  <1>1. CASE PopPendingTaskList
    <2>1. OrderInv'
      <3> DEFINE k == Smaller(Len(tasks_), ONCE_PROCESS_TASK_LIMIT)
      <3>1. /\ tasks_ \in Seq(Ids) /\ tasks_ # << >>
            /\ ONCE_PROCESS_TASK_LIMIT \in Nat \ {0}
            /\ k = Smaller(Len(tasks_), ONCE_PROCESS_TASK_LIMIT)
        BY <1>1, BoundsAssumption
        DEF PopPendingTaskList, CallsInv, PipeInv, TypeOK
      <3>3. /\ batch' = SubSeq(tasks_, 1, k)
            /\ tasks_' = SubSeq(tasks_, k + 1, Len(tasks_))
            /\ UNCHANGED <<exec, id_>> /\ HeadExec' = "posted"
            /\ batch = << >>
        BY <1>1
        DEF PopPendingTaskList, HeadExec, CallsInv, PipeInv, WorkerInv
      <3> HIDE DEF k
      <3>2. /\ k \in 1 .. Len(tasks_)
            /\ Len(SubSeq(tasks_, 1, k)) = k
            /\ Len(SubSeq(tasks_, k + 1, Len(tasks_))) = Len(tasks_) - k
            /\ \A i \in 1 .. k : SubSeq(tasks_, 1, k)[i] = tasks_[i]
            /\ \A i \in 1 .. (Len(tasks_) - k) :
                 SubSeq(tasks_, k + 1, Len(tasks_))[i] = tasks_[k + i]
        <4>1. k \in 1 .. Len(tasks_)
          BY <3>1, PopCount
        <4> QED
          BY <3>1, <4>1, PopSplits
      <3>4. /\ Len(batch') = k /\ Len(tasks_') = Len(tasks_) - k
            /\ \A i \in 1 .. k : batch'[i] = tasks_[i]
            /\ \A i \in 1 .. (Len(tasks_) - k) : tasks_'[i] = tasks_[k + i]
        BY <3>2, <3>3
      <3>5. /\ \A i \in 1 .. Len(batch') :
                 i \in 1 .. Len(tasks_) /\ batch'[i] = tasks_[i]
            /\ \A j \in 1 .. Len(tasks_') :
                 k + j \in 1 .. Len(tasks_) /\ tasks_'[j] = tasks_[k + j]
        BY <3>2, <3>4, Entries
      <3>6. /\ \A i, j \in 1 .. Len(batch') : i < j => batch'[i] < batch'[j]
            /\ \A i \in 1 .. Len(batch') :
                 batch'[i] <= id_ /\ exec[batch'[i]] = "posted"
        BY <3>5 DEF CallsInv, OrderInv
      <3>7. /\ \A i, j \in 1 .. Len(tasks_') :
                 i < j => tasks_'[i] < tasks_'[j]
            /\ \A i \in 1 .. Len(tasks_') :
                 tasks_'[i] <= id_ /\ exec[tasks_'[i]] = "posted"
        <4>1. \A i, j \in 1 .. Len(tasks_') : i < j => k + i < k + j
          BY <3>2, <3>4, Entries
        <4>2. /\ \A i, j \in 1 .. Len(tasks_) : i < j => tasks_[i] < tasks_[j]
              /\ \A i \in 1 .. Len(tasks_) :
                   tasks_[i] <= id_ /\ exec[tasks_[i]] = "posted"
          BY DEF CallsInv, OrderInv
        <4>3. ASSUME NEW i \in 1 .. Len(tasks_'), NEW j \in 1 .. Len(tasks_'), i < j
              PROVE  tasks_'[i] < tasks_'[j]
          <5>1. tasks_[k + i] < tasks_[k + j]
            BY <3>5, <4>1, <4>2, <4>3
          <5> QED
            BY <3>5, <5>1
        <4>4. ASSUME NEW i \in 1 .. Len(tasks_')
              PROVE  tasks_'[i] <= id_ /\ exec[tasks_'[i]] = "posted"
          BY <3>5, <4>2
        <4> QED
          BY <4>3, <4>4
      <3>8. \A i \in 1 .. Len(batch') : \A j \in 1 .. Len(tasks_') :
              batch'[i] < tasks_'[j]
        <4>1. \A i \in 1 .. Len(batch') : \A j \in 1 .. Len(tasks_') :
                i < k + j
          BY <3>2, <3>4, Entries
        <4> QED
          BY <4>1, <3>5 DEF CallsInv, OrderInv
      <3>9. ASSUME NEW t \in Ids, exec[t] = "posted"
            PROVE  \/ \E i \in 1 .. Len(tasks_') : tasks_'[i] = t
                   \/ \E i \in 1 .. Len(batch') : batch'[i] = t
        <4>1. PICK i \in 1 .. Len(tasks_) : tasks_[i] = t
          BY <3>3, <3>9 DEF CallsInv, OrderInv
        <4>2. CASE i <= k
          BY <4>1, <4>2, <3>2, <3>4
        <4>3. CASE i > k
          <5>1. i - k \in 1 .. Len(tasks_') /\ tasks_'[i - k] = tasks_[i]
            BY <4>3, <3>2, <3>4, Entries
          <5> QED
            BY <4>1, <5>1
        <4> QED
          BY <4>2, <4>3, <3>2, Entries
      <3> QED
        BY <3>3, <3>6, <3>7, <3>8, <3>9 DEF OrderInv
    <2>2. CallInv'
      BY <1>1, BoundsAssumption
      DEF PopPendingTaskList, CallsInv, PipeInv, TypeOK, LockInv, WorkerInv, Ids,
                 ExecStates, Answers, postVars, workerVars, CallInv, OrderInv, HeadExec
    <2> QED
      BY <2>1, <2>2
  <1>2. CASE DiscardExpired
    <2>1. OrderInv'
      BY <1>2, HeadLeaves, HeadOfBatch
      DEF DiscardExpired, CallsInv, PipeInv, TypeOK, WorkerInv, Ids, ExecStates,
          HeadExec, postVars
    <2>2. CallInv'
      BY <1>2, BoundsAssumption, HeadTailProperties
      DEF DiscardExpired, CallsInv, PipeInv, TypeOK, LockInv, WorkerInv, Ids,
                 ExecStates, Answers, postVars, workerVars, CallInv, OrderInv, HeadExec
    <2> QED
      BY <2>1, <2>2
  <1>3. CASE CheckWaited
    <2>1. OrderInv'
      BY <1>3, BoundsAssumption
      DEF CheckWaited, CallsInv, PipeInv, TypeOK, LockInv, WorkerInv, Ids,
                 ExecStates, Answers, postVars, workerVars, OrderInv, HeadExec, CallInv
    <2>2. CallInv'
      BY <1>3, BoundsAssumption
      DEF CheckWaited, CallsInv, PipeInv, TypeOK, LockInv, WorkerInv, Ids,
                 ExecStates, Answers, postVars, workerVars, CallInv, OrderInv, HeadExec
    <2> QED
      BY <2>1, <2>2
  <1>4. CASE StartFun
    <2>1. OrderInv'
      BY <1>4, HeadAdvances, HeadOfBatch
      DEF StartFun, CallsInv, PipeInv, TypeOK, WorkerInv, Ids, ExecStates,
          HeadExec, postVars
    <2>2. CallInv'
      BY <1>4, BoundsAssumption
      DEF StartFun, CallsInv, PipeInv, TypeOK, LockInv, WorkerInv, Ids,
                 ExecStates, Answers, postVars, workerVars, CallInv, OrderInv, HeadExec
    <2> QED
      BY <2>1, <2>2
  <1>5. CASE FinishFun
    <2>1. OrderInv'
      BY <1>5, HeadAdvances, HeadOfBatch
      DEF FinishFun, CallsInv, PipeInv, TypeOK, WorkerInv, Ids, ExecStates,
          HeadExec, postVars
    <2>2. CallInv'
      BY <1>5, HeadOfBatch
      DEF FinishFun, CallInv, CallsInv, PipeInv, TypeOK, WorkerInv, Ids, ExecStates,
          HeadExec, postVars
    <2> QED
      BY <2>1, <2>2
  <1>6. CASE CheckPromise
    <2>1. OrderInv'
      BY <1>6, BoundsAssumption
      DEF CheckPromise, CallsInv, PipeInv, TypeOK, LockInv, WorkerInv, Ids,
                 ExecStates, Answers, postVars, workerVars, OrderInv, HeadExec, CallInv
    <2>2. CallInv'
      BY <1>6, BoundsAssumption
      DEF CheckPromise, CallsInv, PipeInv, TypeOK, LockInv, WorkerInv, Ids,
                 ExecStates, Answers, postVars, workerVars, CallInv, OrderInv, HeadExec
    <2> QED
      BY <2>1, <2>2
  <1>7. CASE SkipPromise
    <2>1. OrderInv'
      BY <1>7, HeadLeaves, HeadOfBatch
      DEF SkipPromise, CallsInv, PipeInv, TypeOK, WorkerInv, Ids, ExecStates,
          HeadExec, postVars
    <2>2. CallInv'
      BY <1>7, BoundsAssumption, HeadTailProperties
      DEF SkipPromise, CallsInv, PipeInv, TypeOK, LockInv, WorkerInv, Ids,
                 ExecStates, Answers, postVars, workerVars, CallInv, OrderInv, HeadExec
    <2> QED
      BY <2>1, <2>2
  <1>8. CASE SetValue
    <2>1. OrderInv'
      BY <1>8, HeadLeaves, HeadOfBatch
      DEF SetValue, CallsInv, PipeInv, TypeOK, WorkerInv, Ids, ExecStates,
          HeadExec, postVars
    <2>2. CallInv'
      BY <1>8, HeadOfBatch
      DEF SetValue, CallInv, CallsInv, PipeInv, TypeOK, WorkerInv, Ids, ExecStates,
          HeadExec, postVars
    <2> QED
      BY <2>1, <2>2
  <1>9. CASE ReadRecords
    <2>1. OrderInv'
      BY <1>9, BoundsAssumption
      DEF ReadRecords, CallsInv, PipeInv, TypeOK, LockInv, WorkerInv, Ids,
                 ExecStates, Answers, postVars, workerVars, OrderInv, HeadExec, CallInv
    <2>2. CallInv'
      BY <1>9, BoundsAssumption
      DEF ReadRecords, CallsInv, PipeInv, TypeOK, LockInv, WorkerInv, Ids,
                 ExecStates, Answers, postVars, workerVars, CallInv, OrderInv, HeadExec
    <2> QED
      BY <2>1, <2>2
  <1> QED
    BY <1>1, <1>2, <1>3, <1>4, <1>5, <1>6, <1>7, <1>8, <1>9 DEF WorkerStep

\* The order and the calls' invariant hold in every reachable state.
THEOREM CallsInvariant == Spec => []CallsInv
  <1>1. Init => OrderInv /\ CallInv
    BY BoundsAssumption DEF Init, OrderInv, CallInv, Ids
  <1>2. CallsInv /\ [Next]_vars => (OrderInv /\ CallInv)'
    <2> SUFFICES ASSUME CallsInv, [Next]_vars PROVE (OrderInv /\ CallInv)'
      OBVIOUS
    <2>1. CASE Next
      BY <2>1, PosterCallsInv, WorkerCallsInv DEF Next
    <2>2. CASE UNCHANGED vars
      BY <2>2 DEF vars, CallsInv, OrderInv, CallInv, HeadExec
    <2> QED
      BY <2>1, <2>2
  <1> QED
    BY <1>1, <1>2, PipeInvariant, PTL DEF Spec, CallsInv

\* Only StartFun enters a task's function, and it is that of the batch's head.
LEMMA OnlyStartFunRuns ==
  ASSUME CallsInv, [Next]_vars, NEW t \in Ids,
         exec[t] = "posted", exec'[t] = "running"
  PROVE  StartFun /\ t = Head(batch) /\ batch # << >>
  <1>1. ASSUME NEW p \in Posters, Poster(p) PROVE FALSE
    BY <1>1 DEF Poster, PosterReturns, WriteRecord, WriteFails, PushTask,
       WaitReady, WaitTimeout, SetWaited, ReturnTimeout, CallsInv, PipeInv,
       TypeOK
  <1>2. StartFun
    <2>1. ~UNCHANGED exec
      OBVIOUS
    <2>2. CASE Next
      BY <1>1, <2>1, <2>2
      DEF Next, WorkerStep, PopPendingTaskList, DiscardExpired, CheckWaited,
          CheckPromise, SkipPromise, SetValue, ReadRecords, FinishFun,
          CallsInv, PipeInv, TypeOK
    <2> QED
      BY <2>1, <2>2 DEF vars
  <1> QED
    BY <1>2 DEF StartFun, CallsInv, PipeInv, TypeOK, WorkerInv

\* Whatever threads post and however the batches are cut, functions are
\* entered in the order of the task ids.
THEOREM PostOrder == Spec => TasksStartInPostOrder
  <1>1. CallsInv /\ [Next]_vars => StartsInOrder
    <2> SUFFICES ASSUME CallsInv, [Next]_vars, NEW t \in Ids,
                        exec[t] = "posted", exec'[t] = "running",
                        NEW u \in 1 .. (t - 1), exec[u] = "posted"
                 PROVE  FALSE
      BY DEF StartsInOrder
    <2>1. batch # << >> /\ t = Head(batch)
      BY OnlyStartFunRuns
    <2>2. u \in Ids /\ u < t
      BY BoundsAssumption DEF Ids
    <2>3. \A i \in 1 .. Len(batch) : ~(batch[i] < t)
      BY <2>1, HeadOfBatch, Entries
    <2>4. \A i \in 1 .. Len(tasks_) : ~(tasks_[i] < t)
      BY <2>1, HeadOfBatch, Entries
    <2> QED
      BY <2>2, <2>3, <2>4 DEF CallsInv, OrderInv
  <1> QED
    BY <1>1, CallsInvariant, PTL DEF Spec, TasksStartInPostOrder

\* A poster's step is a step of TaskCall or changes nothing it can see.
LEMMA PosterRefines ==
  ASSUME CallsInv, NEW p \in Posters, Poster(p)
  PROVE  [Promise!Next]_(Promise!vars)
  <1> USE DEF Promise!Next, Promise!vars, CallsInv, PipeInv, TypeOK, LockInv,
              CallInv, Ids, workerVars, postVars
  <1>1. ASSUME NEW kind \in {"async", "unset"}, WriteRecord(p, kind)
        PROVE  UNCHANGED Promise!vars
    BY <1>1 DEF WriteRecord
  <1>2. CASE WriteFails(p)
    BY <1>2 DEF WriteFails
  <1>3. CASE PushTask(p)
    <2>1. cur[p] \in Ids /\ Promise!Accept(cur[p])
      BY <1>3 DEF PushTask, Promise!Accept, Promise!Move
    <2> QED
      BY <2>1
  <1>4. CASE WaitReady(p)
    <2>1. cur[p] \in Ids /\ Promise!ReturnResult(cur[p])
      BY <1>4 DEF WaitReady, Promise!ReturnResult
    <2> QED
      BY <2>1
  <1>5. CASE WaitTimeout(p)
    BY <1>5 DEF WaitTimeout
  <1>6. CASE SetWaited(p)
    <2>1. cur[p] \in Ids /\ Promise!GiveUp(cur[p])
      BY <1>6 DEF SetWaited, Promise!GiveUp
    <2> QED
      BY <2>1
  <1>7. CASE ReturnTimeout(p)
    <2>1. cur[p] \in Ids /\ Promise!ReturnTimeout(cur[p])
      BY <1>7 DEF ReturnTimeout, Promise!ReturnTimeout
    <2> QED
      BY <2>1
  <1> QED
    BY <1>1, <1>2, <1>3, <1>4, <1>5, <1>6, <1>7 DEF Poster, PosterReturns

\* So is a step of the worker.
LEMMA WorkerRefines ==
  ASSUME CallsInv, WorkerStep \/ FinishFun
  PROVE  [Promise!Next]_(Promise!vars)
  <1> USE DEF Promise!Next, Promise!vars, postVars
  <1>0. /\ wpc \in {"checked", "running"} => batch # << >>
        /\ exec \in [Ids -> ExecStates]
    BY DEF CallsInv, PipeInv, WorkerInv, TypeOK
  <1>1. CASE StartFun
    <2>1. Head(batch) \in Ids /\ exec[Head(batch)] = "posted"
      BY <1>0, <1>1, HeadOfBatch DEF StartFun, HeadExec
    <2>2. Promise!Begin(Head(batch))
      BY <1>1, <2>1 DEF StartFun, Promise!Begin, Promise!Move
    <2> QED
      BY <2>1, <2>2
  <1>2. CASE FinishFun
    <2>1. Head(batch) \in Ids /\ exec[Head(batch)] = "running"
      BY <1>0, <1>2, HeadOfBatch DEF FinishFun, HeadExec
    <2>2. Promise!Finish(Head(batch))
      BY <1>2, <2>1 DEF FinishFun, Promise!Finish, Promise!Move
    <2> QED
      BY <2>1, <2>2
  <1>3. CASE DiscardExpired
    <2>1. Head(batch) \in Ids /\ exec[Head(batch)] = "posted"
      BY <1>3, HeadOfBatch DEF DiscardExpired, HeadExec
    <2>2. Promise!Discard(Head(batch))
      BY <1>3, <2>1 DEF DiscardExpired, Promise!Discard, Promise!Move
    <2> QED
      BY <2>1, <2>2
  <1>4. CASE \/ PopPendingTaskList \/ CheckWaited \/ CheckPromise
             \/ SkipPromise \/ SetValue \/ ReadRecords
    BY <1>4 DEF PopPendingTaskList, CheckWaited, CheckPromise, SkipPromise,
                SetValue, ReadRecords
  <1> QED
    BY <1>1, <1>2, <1>3, <1>4 DEF WorkerStep

\* Every step is a step of TaskCall or leaves it alone.
LEMMA StepRefines ==
  ASSUME CallsInv, [Next]_vars
  PROVE  [Promise!Next]_(Promise!vars)
  <1>1. CASE Next
    BY <1>1, PosterRefines, WorkerRefines DEF Next
  <1>2. CASE UNCHANGED vars
    BY <1>2 DEF vars, Promise!vars
  <1> QED
    BY <1>1, <1>2

\* DelegateTasks implements TaskCall: every accepted task runs at most once,
\* is dropped only when nobody waits for it, and the caller's answer agrees
\* with how far its execution had come.
THEOREM Refinement == Spec => ImplementsTaskCall
  <1>1. Init => Promise!Init
    BY DEF Init, Promise!Init
  <1>2. CallsInv /\ [Next]_vars => [Promise!Next]_(Promise!vars)
    BY StepRefines
  <1> QED
    BY <1>1, <1>2, CallsInvariant, PTL
    DEF Spec, ImplementsTaskCall, Promise!Spec
-----------------------------------------------------------------------------
(* Expired tasks.                                                          *)

\* The worker has tested hasWaited_ of t and not yet stored taskIsRunning.
PastTheTest(t) == wpc = "checked" /\ Head(batch) = t

Expired(t) ==
  hasWaited[t] /\ exec[t] \in {"posted", "discarded"} /\ ~PastTheTest(t)

\* Only CheckWaited brings the worker past the test.
LEMMA TestedInTime ==
  ASSUME CallsInv, [Next]_vars, NEW t \in Ids, hasWaited[t], ~PastTheTest(t)
  PROVE  ~PastTheTest(t)'
  <1>1. CASE UNCHANGED <<wpc, batch>>
    BY <1>1 DEF PastTheTest
  <1>2. CASE CheckWaited
    <2>1. Head(batch) # t /\ batch' = batch
      BY <1>2 DEF CheckWaited
    <2> QED
      BY <2>1 DEF PastTheTest
  <1>3. CASE wpc' # "checked"
    BY <1>3 DEF PastTheTest
  <1>4. ASSUME NEW p \in Posters, Poster(p) PROVE UNCHANGED <<wpc, batch>>
    BY <1>4 DEF Poster, PosterReturns, WriteRecord, WriteFails, PushTask, WaitReady,
                WaitTimeout, SetWaited, ReturnTimeout, workerVars
  <1>5. CASE WorkerStep \/ FinishFun
    <2>1. CheckWaited \/ wpc' # "checked"
      BY <1>5 DEF WorkerStep, PopPendingTaskList, DiscardExpired, StartFun, FinishFun,
                  CheckPromise, SkipPromise, SetValue, ReadRecords
    <2> QED
      BY <1>2, <1>3, <2>1
  <1> QED
    BY <1>1, <1>4, <1>5 DEF Next, vars, workerVars

ExpiryStep == \A t \in Ids : Expired(t) => Expired(t)'

\* A task whose caller stopped waiting before the worker tested hasWaited_ is
\* never executed: what "Expired tasks will be discarded" leaves out is only the
\* task that is between that test and the store of taskIsRunning.
THEOREM ExpiredStaysExpired == Spec => [][ExpiryStep]_vars
  <1>1. CallsInv /\ [Next]_vars => ExpiryStep
    <2> SUFFICES ASSUME CallsInv, [Next]_vars, NEW t \in Ids, Expired(t)
                 PROVE  Expired(t)'
      BY DEF ExpiryStep
    <2>1. ~PastTheTest(t)'
      BY TestedInTime DEF Expired
    <2>2. exec'[t] # "running"
      <3>1. CASE exec[t] = "posted"
        BY <3>1, OnlyStartFunRuns DEF Expired, PastTheTest, StartFun
      <3>2. CASE exec[t] = "discarded"
        BY <3>2, StepRefines
        DEF CallsInv, PipeInv, TypeOK, Promise!Next, Promise!vars, Promise!Accept,
            Promise!Begin, Promise!Finish, Promise!Discard, Promise!Move,
            Promise!ReturnResult, Promise!GiveUp, Promise!ReturnTimeout
      <3> QED
        BY <3>1, <3>2 DEF Expired
    <2>3. exec'[t] \in {"posted", "discarded", "running"} /\ hasWaited'[t]
      BY StepRefines
      DEF Expired, CallsInv, PipeInv, TypeOK, Promise!Next, Promise!vars,
          Promise!Accept, Promise!Begin, Promise!Finish, Promise!Discard,
          Promise!Move, Promise!ReturnResult, Promise!GiveUp, Promise!ReturnTimeout
    <2> QED
      BY <2>1, <2>2, <2>3 DEF Expired
  <1> QED
    BY <1>1, CallsInvariant, PTL DEF Spec
=============================================================================
