---------------------------- MODULE AsyncDbProofs ----------------------------
(***************************************************************************)
(* Proofs about AsyncDb, for every number of calls, tasks, buffers and     *)
(* cancel requests, every set of operations the caller uses and both       *)
(* backends.  IndInv is the inductive invariant: one lemma per conjunct    *)
(* shows that a step preserves it, and theorems read the safety properties *)
(* off it.  The second half adds TxInv, which follows the transactions,    *)
(* and shows that AsyncDb implements TxSession.                            *)
(***************************************************************************)
EXTENDS AsyncDb, DbOpsProofs, TLAPS

-----------------------------------------------------------------------------
(* Which actions change which variables.                                   *)
USE DEF vars, dbVars, callerVars, dataVars, workerVars, cancelVars, histVars,
        Next, CallerStarts, CallerSteps, WorkerSteps, CancelSteps, Wakeups, Halted, CallPrepare,
        CallStatement, CallFetchMore, CallDraining, CallIsFinished, CallDestroy, Invoke, PostDropped,
        PostAccepted, PostWaited, Enqueue, Sleep, NotifyWorker, DrainFirst, DrainLast, Drain,
        ReturnError, PushTask, CommitReadError, CommitReturn, ResetError, EndTransaction, SetStop,
        NotifyStop, Join, TakeJob, WaitForJob, NotifySlot, SkipJob, RunStatement, FetchRows,
        NoteError, RunInternal, FinishJob, NotifyDone, CancelRead, CancelSend, SpuriousWakeup

(* The members of async_db.                                                *)
LEMMA DbFrame ==
  ASSUME [Next]_vars
  PROVE  UNCHANGED dbVars \/ PostAccepted \/ PostWaited \/ PushTask \/ ResetError \/ SetStop
         \/ TakeJob \/ NoteError \/ FinishJob
  <1> HIDE DEF PostAccepted, PostWaited, PushTask, ResetError, SetStop, TakeJob, NoteError, FinishJob
  <1>. QED
    OBVIOUS

(* The worker's own state is written by the worker alone.                  *)
LEMMA WorkerFrame ==
  ASSUME [Next]_vars
  PROVE  UNCHANGED workerVars \/ WorkerSteps
  OBVIOUS

(* The parameter buffers and the rows.                                     *)
LEMMA DataFrame ==
  ASSUME [Next]_vars
  PROVE  UNCHANGED dataVars \/ (\E op \in StmtOps, id \in Ids : CallStatement(op, id))
         \/ RunStatement \/ FetchRows
  <1> HIDE DEF CallStatement, RunStatement, FetchRows
  <1>. QED
    OBVIOUS

(* The canceller's own state is written by cancel() alone.                 *)
LEMMA CancelFrame ==
  ASSUME [Next]_vars
  PROVE  UNCHANGED cancelVars \/ CancelSteps
  OBVIOUS

(* Only execute() consumes a parameter row.                                *)
LEMMA RanWithFrame ==
  ASSUME [Next]_vars
  PROVE  UNCHANGED ranWith \/ RunStatement
  OBVIOUS

(* Failures come from execute() and fetch(), and end with the transaction. *)
LEMMA FailedFrame ==
  ASSUME [Next]_vars
  PROVE  UNCHANGED failed \/ CommitReturn \/ ResetError \/ RunStatement \/ FetchRows
  <1> HIDE DEF CommitReturn, ResetError, RunStatement, FetchRows
  <1>. QED
    OBVIOUS

(* Only commit() and rollback() report an outcome.                         *)
LEMMA OutcomeFrame ==
  ASSUME [Next]_vars
  PROVE  UNCHANGED outcome \/ CommitReturn \/ ResetError
  OBVIOUS

(* Only post_to_worker() fills the queue.                                  *)
LEMMA PostedFrame ==
  ASSUME [Next]_vars
  PROVE  UNCHANGED posted \/ (posted' = posted \cup {call.n} /\ cpc \in {"post", "slot"})
  OBVIOUS

(* Only worker_loop() finishes a job.                                      *)
LEMMA DoneFrame ==
  ASSUME [Next]_vars
  PROVE  UNCHANGED done \/ FinishJob
  OBVIOUS

(* Statements are asked for by calls, and end with the transaction.        *)
LEMMA AskedFrame ==
  ASSUME [Next]_vars
  PROVE  UNCHANGED asked \/ (\E op \in StmtOps, id \in Ids : CallStatement(op, id))
         \/ CommitReturn \/ ResetError
  OBVIOUS

(* told stays a truth value.                                               *)
LEMMA ToldFrame ==
  ASSUME [Next]_vars
  PROVE  UNCHANGED told \/ told' \in BOOLEAN
  OBVIOUS

HIDE DEF vars, dbVars, callerVars, dataVars, workerVars, cancelVars, histVars,
         Next, CallerStarts, CallerSteps, WorkerSteps, CancelSteps, Wakeups, Halted, CallPrepare,
         CallStatement, CallFetchMore, CallDraining, CallIsFinished, CallDestroy, Invoke, PostDropped,
         PostAccepted, PostWaited, Enqueue, Sleep, NotifyWorker, DrainFirst, DrainLast, Drain,
         ReturnError, PushTask, CommitReadError, CommitReturn, ResetError, EndTransaction, SetStop,
         NotifyStop, Join, TakeJob, WaitForJob, NotifySlot, SkipJob, RunStatement, FetchRows,
         NoteError, RunInternal, FinishJob, NotifyDone, CancelRead, CancelSend, SpuriousWakeup

(* The tasks a call or a job may name.                                     *)
LEMMA TasksDomain ==
  ASSUME TypeOK
  PROVE  DOMAIN tasks = 1 .. Len(tasks) /\ DOMAIN tasks \subseteq Ids
  <1>1. tasks \in Seq({"dml", "select", "null"}) /\ Len(tasks) <= MaxTasks
    BY DEF TypeOK, DbType
  <1>2. DOMAIN tasks = 1 .. Len(tasks) /\ Len(tasks) \in Nat
    BY <1>1
  <1>. QED
    BY <1>1, <1>2, AsyncDbAssumption DEF Ids, AsyncDbAssumption

(* The job post_to_worker() puts in the queue.                             *)
LEMMA NewJobShape ==
  ASSUME TypeOK, CallShape, cpc \in {"post", "slot"}
  PROVE  NewJob \in Job /\ JobShape(NewJob) /\ NewJob # NoJob /\ NewJob.n = call.n
  <1>1. /\ JobOp \in JobOps /\ call.n \in CallNos
        /\ JobOp \in TaskOps => JobOp = call.op
    BY DEF CallShape, TypeOK, CallerType, JobOp, JobOps, TaskOps, StmtOps, CallNos
  <1>2. NewJob.op = JobOp /\ NewJob.n = call.n /\ NewJob.id = call.id /\ NewJob.snap = Snapshot
    BY DEF NewJob
  <1>3. call.op \in StmtOps => JobOp = call.op /\ call.id \in DOMAIN tasks /\ param[call.id] = call.n
    BY DEF CallShape, StmtOps, TaskOps, JobOp
  <1>4. JobShape(NewJob)
    BY <1>1, <1>2, <1>3 DEF JobShape, Snapshot, CallShape, JobOps, TaskOps, StmtOps
  <1>5. call.id \in 0 .. MaxTasks /\ Snapshot \in 0 .. MaxCalls
    BY <1>1, <1>3, AsyncDbAssumption DEF Snapshot, TypeOK, CallerType, CallNos, AsyncDbAssumption
  <1>6. NewJob \in Job
    BY <1>1, <1>5 DEF NewJob, Job, CallNos
  <1>7. NewJob # NoJob
    BY <1>1, <1>2 DEF NoJob, CallNos
  <1>. QED
    BY <1>2, <1>4, <1>6, <1>7

-----------------------------------------------------------------------------
(* Type correctness.                                                       *)

(* A step keeps the members of async_db typed.                             *)
LEMMA DbTypeStep ==
  ASSUME TypeOK, CallShape, JobsShape, [Next]_vars
  PROVE  DbType'
  <1> USE DEF DbType, TypeOK
  <1>1. ASSUME PostAccepted \/ PostWaited
        PROVE  DbType'
    <2>1. CASE pending' = NewJob
      <3>1. NewJob \in Job
        BY <1>1, NewJobShape DEF PostAccepted, PostWaited
      <3>. QED
        BY <1>1, <2>1, <3>1 DEF PostAccepted, PostWaited
    <2>2. CASE UNCHANGED pending
      BY <1>1, <2>2 DEF PostAccepted, PostWaited
    <2>. QED
      BY <1>1, <2>1, <2>2 DEF PostAccepted, PostWaited, Enqueue, Sleep
  <1>2. CASE PushTask
    <2>1. call.op = "prepare" /\ Len(tasks) < MaxTasks /\ call.kind \in {"dml", "select"}
      BY <1>2 DEF PushTask, CallShape, CallerType
    <2>2. tasks' \in Seq({"dml", "select", "null"}) /\ Len(tasks') <= MaxTasks
      BY <1>2, <2>1, AsyncDbAssumption DEF PushTask, AsyncDbAssumption
    <2>. QED
      BY <1>2, <2>2 DEF PushTask
  <1>3. CASE ResetError
    BY <1>3, AsyncDbAssumption DEF ResetError, AsyncDbAssumption
  <1>4. CASE SetStop
    BY <1>4 DEF SetStop
  <1>5. CASE TakeJob
    <2>1. pending \in Job /\ NoJob \in Job /\ TaskId(pending) \in 0 .. MaxTasks
      BY AsyncDbAssumption DEF Job, NoJob, TaskId, AsyncDbAssumption
    <2>. QED
      BY <1>5, <2>1 DEF TakeJob
  <1>6. CASE NoteError
    <2>1. job.n \in 0 .. MaxCalls
      BY DEF WorkerType, Job
    <2>. QED
      BY <1>6, <2>1 DEF NoteError, FirstError
  <1>7. CASE FinishJob
    <2>1. busy' \in BOOLEAN
      BY <1>7 DEF FinishJob
    <2>2. runningId' \in 0 .. MaxTasks
      BY <1>7, AsyncDbAssumption DEF FinishJob, AsyncDbAssumption
    <2>. QED
      BY <1>7, <2>1, <2>2 DEF FinishJob
  <1>8. CASE UNCHANGED dbVars
    BY <1>8 DEF dbVars
  <1>. QED
    BY <1>1, <1>2, <1>3, <1>4, <1>5, <1>6, <1>7, <1>8, DbFrame

(* A step keeps the buffers typed.                                         *)
LEMMA DataTypeStep ==
  ASSUME TypeOK, [Next]_vars
  PROVE  DataType'
  <1> USE DEF DataType, TypeOK
  <1>1. ASSUME NEW op \in StmtOps, NEW id \in Ids, CallStatement(op, id)
        PROVE  DataType'
    <2>1. calls + 1 \in 0 .. MaxCalls
      BY <1>1, AsyncDbAssumption DEF CallStatement, Invoke, CallerType, AsyncDbAssumption
    <2>. QED
      BY <1>1, <2>1 DEF CallStatement
  <1>2. CASE RunStatement
    <2>1. RestoredRow(job) \in 0 .. MaxCalls
      BY DEF RestoredRow, WorkerType, Job
    <2>. QED
      BY <1>2, <2>1 DEF RunStatement
  <1>3. CASE FetchRows
    <2>1. cursor' = cursor \/ cursor' = [cursor EXCEPT ![job.id] = FetchedFrom(cursor[job.id])]
      BY <1>3 DEF FetchRows
    <2>2. job.id \in Ids => FetchedFrom(cursor[job.id]) \in 0 .. MaxBuffers
      BY AsyncDbAssumption DEF FetchedFrom, AsyncDbAssumption
    <2>. QED
      BY <1>3, <2>1, <2>2 DEF FetchRows
  <1>4. CASE UNCHANGED dataVars
    BY <1>4 DEF dataVars
  <1>. QED
    BY <1>1, <1>2, <1>3, <1>4, DataFrame

(* A step keeps the worker's state typed.                                  *)
LEMMA WorkerTypeStep ==
  ASSUME TypeOK, JobsShape, [Next]_vars
  PROVE  WorkerType'
  <1> USE DEF WorkerType, TypeOK, Working
  <1>1. CASE TakeJob
    BY <1>1 DEF TakeJob, DbType
  <1>2. CASE WaitForJob
    BY <1>2 DEF WaitForJob
  <1>3. CASE NotifySlot \/ SkipJob \/ NoteError \/ FinishJob
    BY <1>3 DEF NotifySlot, SkipJob, NoteError, FinishJob
  <1>4. CASE RunStatement
    <2>1. job.n \in CallNos
      BY <1>4 DEF RunStatement, JobsShape, JobShape
    <2>2. PICK a \in StatementAnswers(conn, job.n) :
             conn' = a.conn /\ wpc' \in {"note", "fetch", "ran"}
      BY <1>4 DEF RunStatement
    <2>3. conn' \in Connections(CallNos)
      BY <2>1, <2>2, StatementType
    <2>. QED
      BY <1>4, <2>2, <2>3 DEF RunStatement
  <1>5. CASE FetchRows
    BY <1>5 DEF FetchRows
  <1>6. CASE RunInternal
    <2>1. PICK a \in ConnAnswers : conn' = a.conn
      BY <1>6 DEF RunInternal
    <2>2. conn' \in Connections(CallNos)
      <3>1. job.op \in {"prepare", "commit", "rollback"}
        BY <1>6 DEF RunInternal
      <3>2. a \in PrepareAnswers(conn) \/ a \in CommitAnswers(conn) \/ a \in RollbackAnswers(conn)
        BY <2>1, <3>1 DEF ConnAnswers
      <3>. QED
        BY <2>1, <3>2, PrepareType, CommitType, RollbackType
    <2>. QED
      BY <1>6, <2>2 DEF RunInternal
  <1>7. CASE NotifyDone
    BY <1>7, AsyncDbAssumption DEF NotifyDone, Job, NoJob, AsyncDbAssumption
  <1>8. CASE UNCHANGED workerVars
    BY <1>8 DEF workerVars
  <1>. QED
    BY <1>1, <1>2, <1>3, <1>4, <1>5, <1>6, <1>7, <1>8, WorkerFrame DEF WorkerSteps

(* A step keeps the canceller's state typed.                               *)
LEMMA CancelTypeStep ==
  ASSUME TypeOK, [Next]_vars
  PROVE  CancelType'
  <1> USE DEF CancelType, TypeOK
  <1>1. job.n \in 0 .. MaxCalls
    BY DEF WorkerType, Job
  <1>2. CASE CancelRead
    BY <1>1, <1>2, AsyncDbAssumption DEF CancelRead, DbType, AsyncDbAssumption
  <1>3. CASE CancelSend
    BY <1>1, <1>3 DEF CancelSend
  <1>4. CASE UNCHANGED cancelVars
    BY <1>4 DEF cancelVars
  <1>. QED
    BY <1>2, <1>3, <1>4, CancelFrame DEF CancelSteps

(* A call the caller starts is well formed.                                *)
LEMMA InvokeType ==
  ASSUME TypeOK, NEW op \in CallOps, NEW id \in 0 .. MaxTasks, NEW kind \in {"dml", "select"},
         NEW to \in {"post", "drain1", "idle", "crashed"}, Invoke(op, id, kind, to), UNCHANGED asleep
  PROVE  CallerType'
  <1> USE DEF TypeOK, CallerType, Invoke
  <1>1. calls + 1 \in 0 .. MaxCalls /\ 0 \in 0 .. MaxCalls
    BY AsyncDbAssumption DEF AsyncDbAssumption
  <1>2. call' \in [op : CallOps, n : 0 .. MaxCalls, id : 0 .. MaxTasks, kind : {"dml", "select"}]
    BY <1>1
  <1>3. reply' \in BOOLEAN
    OBVIOUS
  <1>. QED
    BY <1>1, <1>2, <1>3

(* A step keeps the caller's state typed.                                  *)
LEMMA CallerTypeStep ==
  ASSUME TypeOK, [Next]_vars
  PROVE  CallerType'
  <1> USE DEF vars, dbVars, callerVars, dataVars, workerVars, cancelVars, histVars,
              CallerType, TypeOK
  <1>1. ASSUME NEW kind \in {"dml", "select"}, CallPrepare(kind)
        PROVE  CallerType'
    <2>1. "prepare" \in CallOps
      BY <1>1 DEF CallOps, JobOps, TaskOps, StmtOps
    <2>2. 0 \in 0 .. MaxTasks
      BY AsyncDbAssumption DEF AsyncDbAssumption
    <2>. QED
      BY <1>1, <2>1, <2>2, InvokeType DEF CallPrepare
  <1>2. ASSUME NEW op \in StmtOps, NEW id \in Ids, CallStatement(op, id)
        PROVE  CallerType'
    <2>1. op \in CallOps
      BY <1>2 DEF CallOps, JobOps, TaskOps, StmtOps
    <2>2. id \in 0 .. MaxTasks
      BY <1>2, AsyncDbAssumption DEF Ids, AsyncDbAssumption
    <2>. QED
      BY <1>2, <2>1, <2>2, InvokeType DEF CallStatement
  <1>3. ASSUME NEW id \in Ids, CallFetchMore(id)
        PROVE  CallerType'
    <2>1. "fetch_more" \in CallOps
      BY <1>3 DEF CallOps, JobOps, TaskOps, StmtOps
    <2>2. id \in 0 .. MaxTasks
      BY <1>3, AsyncDbAssumption DEF Ids, AsyncDbAssumption
    <2>. QED
      BY <1>3, <2>1, <2>2, InvokeType DEF CallFetchMore
  <1>4. ASSUME NEW op \in {"commit", "rollback", "drain"}, CallDraining(op)
        PROVE  CallerType'
    <2>1. op \in CallOps
      BY <1>4 DEF CallOps, JobOps, TaskOps, StmtOps
    <2>2. 0 \in 0 .. MaxTasks
      BY AsyncDbAssumption DEF AsyncDbAssumption
    <2>. QED
      BY <1>4, <2>1, <2>2, InvokeType DEF CallDraining
  <1>5. CASE CallIsFinished
    <2>1. "is_finished" \in CallOps
      BY <1>5 DEF CallOps, JobOps, TaskOps, StmtOps
    <2>2. 0 \in 0 .. MaxTasks
      BY AsyncDbAssumption DEF AsyncDbAssumption
    <2>. QED
      BY <1>5, <2>1, <2>2, InvokeType DEF CallIsFinished
  <1>6. CASE CallDestroy
    <2>1. call' = [op |-> "destroy", n |-> 0, id |-> 0, kind |-> "dml"]
      BY <1>6 DEF CallDestroy, NoCall
    <2>2. 0 \in 0 .. MaxCalls /\ 0 \in 0 .. MaxTasks /\ "destroy" \in CallOps
      BY AsyncDbAssumption DEF AsyncDbAssumption, CallOps
    <2>3. call' \in [op : CallOps, n : 0 .. MaxCalls, id : 0 .. MaxTasks, kind : {"dml", "select"}]
      BY <2>1, <2>2
    <2>. QED
      BY <1>6, <2>3 DEF CallDestroy
  <1>7. CASE PostDropped
    BY <1>7 DEF PostDropped, AfterPost
  <1>8. CASE PostAccepted
    BY <1>8 DEF PostAccepted, SlotFree, Enqueue, Sleep, NewJob, JobOp, Snapshot
  <1>9. CASE PostWaited
    BY <1>9 DEF PostWaited, SlotFree, Enqueue, Sleep, NewJob, JobOp, Snapshot
  <1>10. CASE NotifyWorker
    BY <1>10 DEF NotifyWorker, Notified, AfterPost
  <1>11. CASE DrainFirst
    BY <1>11 DEF DrainFirst, Drain, Drained, AfterDrain1
  <1>12. CASE DrainLast
    BY <1>12 DEF DrainLast, Drain, Drained, AfterDrain2
  <1>13. CASE ReturnError
    BY <1>13 DEF ReturnError
  <1>14. CASE PushTask
    BY <1>14 DEF PushTask
  <1>15. CASE CommitReadError
    BY <1>15 DEF CommitReadError, DbType
  <1>16. CASE CommitReturn
    BY <1>16 DEF CommitReturn, EndTransaction
  <1>17. CASE ResetError
    BY <1>17 DEF ResetError, EndTransaction
  <1>18. CASE SetStop
    BY <1>18 DEF SetStop
  <1>19. CASE NotifyStop
    BY <1>19 DEF NotifyStop, Notified
  <1>20. CASE Join
    BY <1>20 DEF Join
  <1>21. CASE TakeJob
    BY <1>21 DEF TakeJob, TaskId
  <1>22. CASE WaitForJob
    BY <1>22 DEF WaitForJob
  <1>23. CASE NotifySlot
    BY <1>23 DEF NotifySlot, Notified
  <1>24. CASE SkipJob
    BY <1>24 DEF SkipJob
  <1>25. CASE RunStatement
    BY <1>25 DEF RunStatement, RestoredRow
  <1>26. CASE FetchRows
    <2>1. (cursor[job.id] > 0) \in BOOLEAN
      OBVIOUS
    <2>2. reply' = reply \/ reply' = (cursor[job.id] > 0) \/ reply' = FALSE
      BY <1>26 DEF FetchRows
    <2>3. reply' \in BOOLEAN
      BY <2>1, <2>2
    <2>. QED
      BY <1>26, <2>3 DEF FetchRows
  <1>27. CASE NoteError
    BY <1>27 DEF NoteError, FirstError
  <1>28. CASE RunInternal
    <2>1. PICK a \in ConnAnswers : conn' = a.conn /\ reply' = a.ok
      BY <1>28 DEF RunInternal
    <2>2. job.op \in {"prepare", "commit", "rollback"}
      BY <1>28 DEF RunInternal
    <2>3. a \in PrepareAnswers(conn) \/ a \in CommitAnswers(conn) \/ a \in RollbackAnswers(conn)
      BY <2>1, <2>2 DEF ConnAnswers
    <2>4. reply' \in BOOLEAN
      BY <2>1, <2>3, PrepareType, CommitType, RollbackType DEF WorkerType
    <2>. QED
      BY <1>28, <2>4 DEF RunInternal
  <1>29. CASE FinishJob
    BY <1>29 DEF FinishJob
  <1>30. CASE NotifyDone
    BY <1>30 DEF NotifyDone, Notified
  <1>31. CASE CancelRead
    BY <1>31 DEF CancelRead
  <1>32. CASE CancelSend
    BY <1>32 DEF CancelSend
  <1>33. ASSUME NEW t \in {"caller", "worker"}, SpuriousWakeup(t)
        PROVE  CallerType'
    BY <1>33 DEF SpuriousWakeup
  <1>34. CASE UNCHANGED vars
    BY <1>34
  <1>. QED
    BY <1>1, <1>2, <1>3, <1>4, <1>5, <1>6, <1>7, <1>8, <1>9, <1>10, <1>11, <1>12, <1>13,
       <1>14, <1>15, <1>16, <1>17, <1>18, <1>19, <1>20, <1>21, <1>22, <1>23, <1>24, <1>25,
       <1>26, <1>27, <1>28, <1>29, <1>30, <1>31, <1>32, <1>33, <1>34
       DEF Next, CallerStarts, CallerSteps, WorkerSteps, CancelSteps, Wakeups, Halted

(* A step keeps the history typed.                                         *)
LEMMA HistTypeStep ==
  ASSUME TypeOK, CallShape, JobsShape, [Next]_vars
  PROVE  HistType'
  <1> USE DEF HistType, TypeOK
  <1>1. ranWith' \in [CallNos -> 0 .. MaxCalls]
    <2>1. CASE RunStatement
      <3>1. job.id \in Ids
        BY <2>1, TasksDomain DEF RunStatement, JobsShape, JobShape, Working, TaskOps
      <3>2. qparam'[job.id] \in 0 .. MaxCalls
        BY <3>1, DataTypeStep DEF DataType
      <3>. QED
        BY <2>1, <3>2 DEF RunStatement
    <2>. QED
      BY <2>1, RanWithFrame
  <1>2. failed' \subseteq CallNos
    <2>1. CASE CommitReturn \/ ResetError
      BY <2>1 DEF CommitReturn, ResetError, EndTransaction
    <2>2. CASE RunStatement \/ FetchRows
      <3>1. job.n \in CallNos
        BY <2>2 DEF RunStatement, FetchRows, JobsShape, JobShape, Working
      <3>2. failed' \subseteq failed \cup {job.n}
        BY <2>2 DEF RunStatement, FetchRows
      <3>. QED
        BY <3>1, <3>2
    <2>. QED
      BY <2>1, <2>2, FailedFrame
  <1>3. outcome' \in [op : {"none", "commit", "rollback"}, ok : BOOLEAN, err : 0 .. MaxCalls,
                      stmts : SUBSET CallNos]
    <2>1. CASE CommitReturn
      BY <2>1, AsyncDbAssumption
         DEF CommitReturn, EndTransaction, CallShape, CallerType, AsyncDbAssumption
    <2>2. CASE ResetError
      <3>1. (call.op = "rollback" /\ reply) \in BOOLEAN
        OBVIOUS
      <3>. QED
        BY <2>2, <3>1 DEF ResetError, EndTransaction, CallShape, CallerType
    <2>. QED
      BY <2>1, <2>2, OutcomeFrame
  <1>4. posted' \subseteq CallNos
    <2>1. CASE posted' = posted \cup {call.n} /\ cpc \in {"post", "slot"}
      <3>1. call.n \in CallNos
        BY <2>1, NewJobShape DEF JobShape
      <3>. QED
        BY <2>1, <3>1
    <2>2. CASE UNCHANGED posted
      BY <2>2
    <2>. QED
      BY <2>1, <2>2, PostedFrame
  <1>5. done' \subseteq CallNos
    <2>1. CASE FinishJob
      BY <2>1 DEF FinishJob, JobsShape, JobShape, Working
    <2>. QED
      BY <2>1, DoneFrame
  <1>6. asked' \subseteq CallNos
    <2>1. ASSUME NEW op \in StmtOps, NEW id \in Ids, CallStatement(op, id)
          PROVE  asked' \subseteq CallNos
      <3>1. calls + 1 \in CallNos
        BY <2>1, AsyncDbAssumption DEF CallStatement, Invoke, CallerType, CallNos, AsyncDbAssumption
      <3>. QED
        BY <2>1, <3>1 DEF CallStatement
    <2>2. CASE CommitReturn \/ ResetError
      BY <2>2 DEF CommitReturn, ResetError, EndTransaction
    <2>. QED
      BY <2>1, <2>2, AskedFrame
  <1>7. told' \in BOOLEAN
    BY ToldFrame
  <1>. QED
    BY <1>1, <1>2, <1>3, <1>4, <1>5, <1>6, <1>7

(* A step keeps every variable typed.                                      *)
LEMMA TypeStep ==
  ASSUME TypeOK, CallShape, JobsShape, [Next]_vars
  PROVE  TypeOK'
  BY DbTypeStep, CallerTypeStep, DataTypeStep, WorkerTypeStep, CancelTypeStep, HistTypeStep
     DEF TypeOK

-----------------------------------------------------------------------------
(* The calls and the jobs.                                                 *)

(* A step keeps the call in progress well formed.                          *)
LEMMA CallShapeStep ==
  ASSUME TypeOK, CallShape, [Next]_vars
  PROVE  CallShape'
  <1> USE DEF vars, dbVars, callerVars, dataVars, workerVars, cancelVars, histVars, CallShape
  <1>1. ASSUME NEW kind \in {"dml", "select"}, CallPrepare(kind)
        PROVE  CallShape'
    BY <1>1 DEF CallPrepare, Invoke, StmtOps, TaskOps, JobOps, TypeOK, CallerType
  <1>2. ASSUME NEW op \in StmtOps, NEW id \in Ids, CallStatement(op, id)
        PROVE  CallShape'
    <2>1. /\ call' = [op |-> op, n |-> calls + 1, id |-> id, kind |-> "dml"]
          /\ cpc' \in {"post", "crashed"}
          /\ tasks' = tasks /\ id \in DOMAIN tasks
          /\ calls' = calls + 1 /\ calls \in Nat
      BY <1>2 DEF CallStatement, Invoke, TypeOK, CallerType
    <2>2. param'[id] = calls + 1
      BY <1>2 DEF CallStatement, TypeOK, DataType
    <2>. QED
      BY <1>2, <2>1, <2>2 DEF StmtOps, TaskOps, JobOps
  <1>3. ASSUME NEW id \in Ids, CallFetchMore(id)
        PROVE  CallShape'
    BY <1>3 DEF CallFetchMore, Invoke, StmtOps, TaskOps, JobOps, TypeOK, CallerType
  <1>4. ASSUME NEW op \in {"commit", "rollback", "drain"}, CallDraining(op)
        PROVE  CallShape'
    BY <1>4 DEF CallDraining, Invoke, StmtOps, TaskOps, JobOps, TypeOK, CallerType
  <1>5. CASE CallIsFinished
    BY <1>5 DEF CallIsFinished, Invoke, StmtOps, TaskOps, JobOps, TypeOK, CallerType
  <1>6. CASE CallDestroy
    BY <1>6 DEF CallDestroy, NoCall, StmtOps, TaskOps, JobOps, TypeOK, CallerType
  <1>7. CASE PostDropped
    BY <1>7 DEF PostDropped, AfterPost, StmtOps, TaskOps, JobOps, TypeOK, CallerType
  <1>8. CASE PostAccepted
    BY <1>8
       DEF PostAccepted, SlotFree, Enqueue, Sleep, NewJob, JobOp, Snapshot, StmtOps,
           TaskOps, JobOps, TypeOK, CallerType
  <1>9. CASE PostWaited
    BY <1>9
       DEF PostWaited, SlotFree, Enqueue, Sleep, NewJob, JobOp, Snapshot, StmtOps, TaskOps,
           JobOps, TypeOK, CallerType
  <1>10. CASE NotifyWorker
    BY <1>10 DEF NotifyWorker, Notified, AfterPost, StmtOps, TaskOps, JobOps, TypeOK, CallerType
  <1>11. CASE DrainFirst
    BY <1>11
       DEF DrainFirst, Drain, Drained, AfterDrain1, StmtOps, TaskOps, JobOps, TypeOK,
           CallerType
  <1>12. CASE DrainLast
    BY <1>12
       DEF DrainLast, Drain, Drained, AfterDrain2, StmtOps, TaskOps, JobOps, TypeOK,
           CallerType
  <1>13. CASE ReturnError
    BY <1>13 DEF ReturnError, StmtOps, TaskOps, JobOps, TypeOK, CallerType
  <1>14. CASE PushTask
    BY <1>14 DEF PushTask, StmtOps, TaskOps, JobOps, TypeOK, CallerType
  <1>15. CASE CommitReadError
    BY <1>15 DEF CommitReadError, StmtOps, TaskOps, JobOps, TypeOK, CallerType
  <1>16. CASE CommitReturn
    BY <1>16 DEF CommitReturn, EndTransaction
  <1>17. CASE ResetError
    BY <1>17 DEF ResetError, EndTransaction
  <1>18. CASE SetStop
    BY <1>18 DEF SetStop
  <1>19. CASE NotifyStop
    BY <1>19 DEF NotifyStop, Notified
  <1>20. CASE Join
    BY <1>20 DEF Join
  <1>21. CASE TakeJob
    BY <1>21 DEF TakeJob, TaskId
  <1>22. CASE WaitForJob
    BY <1>22 DEF WaitForJob
  <1>23. CASE NotifySlot
    BY <1>23 DEF NotifySlot, Notified
  <1>24. CASE SkipJob
    BY <1>24 DEF SkipJob
  <1>25. CASE RunStatement
    BY <1>25 DEF RunStatement, RestoredRow
  <1>26. CASE FetchRows
    BY <1>26 DEF FetchRows, FetchedFrom
  <1>27. CASE NoteError
    BY <1>27 DEF NoteError, FirstError
  <1>28. CASE RunInternal
    BY <1>28 DEF RunInternal
  <1>29. CASE FinishJob
    BY <1>29 DEF FinishJob
  <1>30. CASE NotifyDone
    BY <1>30 DEF NotifyDone, Notified
  <1>31. CASE CancelRead
    BY <1>31 DEF CancelRead
  <1>32. CASE CancelSend
    BY <1>32 DEF CancelSend
  <1>33. ASSUME NEW t \in {"caller", "worker"}, SpuriousWakeup(t)
        PROVE  CallShape'
    BY <1>33 DEF SpuriousWakeup
  <1>34. CASE UNCHANGED vars
    BY <1>34
  <1>. QED
    BY <1>1, <1>2, <1>3, <1>4, <1>5, <1>6, <1>7, <1>8, <1>9, <1>10, <1>11, <1>12, <1>13,
       <1>14, <1>15, <1>16, <1>17, <1>18, <1>19, <1>20, <1>21, <1>22, <1>23, <1>24, <1>25,
       <1>26, <1>27, <1>28, <1>29, <1>30, <1>31, <1>32, <1>33, <1>34
       DEF Next, CallerStarts, CallerSteps, WorkerSteps, CancelSteps, Wakeups, Halted

(* Posting a job, or waiting for the slot.                                 *)
LEMMA PostJobs ==
  ASSUME TypeOK, CallShape, JobsShape, PostAccepted \/ PostWaited
  PROVE  JobsShape'
  <1>1. UNCHANGED <<tasks, wpc, job>> /\ cpc \in {"post", "slot"}
    BY DEF PostAccepted, PostWaited, workerVars
  <1>2. CASE pending' = NewJob
    BY <1>1, <1>2, NewJobShape DEF JobsShape, JobShape
  <1>3. CASE UNCHANGED pending
    BY <1>1, <1>3 DEF JobsShape, JobShape
  <1>. QED
    BY <1>2, <1>3 DEF PostAccepted, PostWaited, Enqueue, Sleep

(* A step keeps the queued job and the job in hand complete.               *)
LEMMA JobsShapeStep ==
  ASSUME TypeOK, CallShape, JobsShape, [Next]_vars
  PROVE  JobsShape'
  <1> USE DEF vars, dbVars, callerVars, dataVars, workerVars, cancelVars, histVars, JobsShape,
              JobShape
  <1>1. ASSUME NEW kind \in {"dml", "select"}, CallPrepare(kind)
        PROVE  JobsShape'
    BY <1>1 DEF CallPrepare, Invoke
  <1>2. ASSUME NEW op \in StmtOps, NEW id \in Ids, CallStatement(op, id)
        PROVE  JobsShape'
    BY <1>2 DEF CallStatement, Invoke
  <1>3. ASSUME NEW id \in Ids, CallFetchMore(id)
        PROVE  JobsShape'
    BY <1>3 DEF CallFetchMore, Invoke
  <1>4. ASSUME NEW op \in {"commit", "rollback", "drain"}, CallDraining(op)
        PROVE  JobsShape'
    BY <1>4 DEF CallDraining, Invoke
  <1>5. CASE CallIsFinished
    BY <1>5 DEF CallIsFinished, Invoke
  <1>6. CASE CallDestroy
    BY <1>6 DEF CallDestroy, NoCall
  <1>7. CASE PostDropped
    BY <1>7 DEF PostDropped, AfterPost
  <1>8. CASE PostAccepted
    BY <1>8, PostJobs
  <1>9. CASE PostWaited
    BY <1>9, PostJobs
  <1>10. CASE NotifyWorker
    BY <1>10 DEF NotifyWorker, Notified, AfterPost
  <1>11. CASE DrainFirst
    BY <1>11 DEF DrainFirst, Drain, Drained, AfterDrain1
  <1>12. CASE DrainLast
    BY <1>12 DEF DrainLast, Drain, Drained, AfterDrain2
  <1>13. CASE ReturnError
    BY <1>13 DEF ReturnError
  <1>14. CASE PushTask
    <2>1. DOMAIN tasks \subseteq DOMAIN tasks'
      BY <1>14 DEF PushTask, TypeOK, DbType
    <2>. QED
      BY <1>14, <2>1 DEF PushTask
  <1>15. CASE CommitReadError
    BY <1>15 DEF CommitReadError
  <1>16. CASE CommitReturn
    BY <1>16 DEF CommitReturn, EndTransaction
  <1>17. CASE ResetError
    BY <1>17 DEF ResetError, EndTransaction
  <1>18. CASE SetStop
    BY <1>18 DEF SetStop
  <1>19. CASE NotifyStop
    BY <1>19 DEF NotifyStop, Notified
  <1>20. CASE Join
    BY <1>20 DEF Join
  <1>21. CASE TakeJob
    BY <1>21 DEF TakeJob, TaskId, Working, NoJob, StmtOps, TaskOps, TypeOK, WorkerType
  <1>22. CASE WaitForJob
    BY <1>22 DEF WaitForJob, Working, NoJob, StmtOps, TaskOps, TypeOK, WorkerType
  <1>23. CASE NotifySlot
    BY <1>23 DEF NotifySlot, Notified, Working, NoJob, StmtOps, TaskOps, TypeOK, WorkerType
  <1>24. CASE SkipJob
    BY <1>24 DEF SkipJob, Working, NoJob, StmtOps, TaskOps, TypeOK, WorkerType
  <1>25. CASE RunStatement
    BY <1>25 DEF RunStatement, RestoredRow, Working, NoJob, StmtOps, TaskOps, TypeOK, WorkerType
  <1>26. CASE FetchRows
    BY <1>26 DEF FetchRows, FetchedFrom, Working, NoJob, StmtOps, TaskOps, TypeOK, WorkerType
  <1>27. CASE NoteError
    BY <1>27 DEF NoteError, FirstError, Working, NoJob, StmtOps, TaskOps, TypeOK, WorkerType
  <1>28. CASE RunInternal
    BY <1>28 DEF RunInternal, Working, NoJob, StmtOps, TaskOps, TypeOK, WorkerType
  <1>29. CASE FinishJob
    BY <1>29 DEF FinishJob, Working, NoJob, StmtOps, TaskOps, TypeOK, WorkerType
  <1>30. CASE NotifyDone
    BY <1>30 DEF NotifyDone, Notified, Working, NoJob, StmtOps, TaskOps, TypeOK, WorkerType
  <1>31. CASE CancelRead
    BY <1>31 DEF CancelRead
  <1>32. CASE CancelSend
    BY <1>32 DEF CancelSend
  <1>33. ASSUME NEW t \in {"caller", "worker"}, SpuriousWakeup(t)
        PROVE  JobsShape'
    BY <1>33 DEF SpuriousWakeup
  <1>34. CASE UNCHANGED vars
    BY <1>34
  <1>. QED
    BY <1>1, <1>2, <1>3, <1>4, <1>5, <1>6, <1>7, <1>8, <1>9, <1>10, <1>11, <1>12, <1>13,
       <1>14, <1>15, <1>16, <1>17, <1>18, <1>19, <1>20, <1>21, <1>22, <1>23, <1>24, <1>25,
       <1>26, <1>27, <1>28, <1>29, <1>30, <1>31, <1>32, <1>33, <1>34
       DEF Next, CallerStarts, CallerSteps, WorkerSteps, CancelSteps, Wakeups, Halted

-----------------------------------------------------------------------------
(* The hand-over between the two threads.                                  *)

(* A step sets stop_ only in the destructor, and the worker leaves only then. *)
LEMMA StoppingStep ==
  ASSUME CallShape, Stopping, [Next]_vars
  PROVE  Stopping'
  <1> USE DEF vars, dbVars, callerVars, dataVars, workerVars, cancelVars, histVars, CallShape,
              Stopping
  <1>1. ASSUME NEW kind \in {"dml", "select"}, CallPrepare(kind)
        PROVE  Stopping'
    BY <1>1 DEF CallPrepare, Invoke
  <1>2. ASSUME NEW op \in StmtOps, NEW id \in Ids, CallStatement(op, id)
        PROVE  Stopping'
    BY <1>2 DEF CallStatement, Invoke
  <1>3. ASSUME NEW id \in Ids, CallFetchMore(id)
        PROVE  Stopping'
    BY <1>3 DEF CallFetchMore, Invoke
  <1>4. ASSUME NEW op \in {"commit", "rollback", "drain"}, CallDraining(op)
        PROVE  Stopping'
    BY <1>4 DEF CallDraining, Invoke
  <1>5. CASE CallIsFinished
    BY <1>5 DEF CallIsFinished, Invoke
  <1>6. CASE CallDestroy
    BY <1>6 DEF CallDestroy, NoCall
  <1>7. CASE PostDropped
    BY <1>7 DEF PostDropped, AfterPost
  <1>8. CASE PostAccepted
    BY <1>8 DEF PostAccepted, SlotFree, Enqueue, Sleep, NewJob, JobOp, Snapshot
  <1>9. CASE PostWaited
    BY <1>9 DEF PostWaited, SlotFree, Enqueue, Sleep, NewJob, JobOp, Snapshot
  <1>10. CASE NotifyWorker
    BY <1>10 DEF NotifyWorker, Notified, AfterPost
  <1>11. CASE DrainFirst
    BY <1>11 DEF DrainFirst, Drain, Drained, AfterDrain1
  <1>12. CASE DrainLast
    BY <1>12 DEF DrainLast, Drain, Drained, AfterDrain2
  <1>13. CASE ReturnError
    BY <1>13 DEF ReturnError
  <1>14. CASE PushTask
    BY <1>14 DEF PushTask
  <1>15. CASE CommitReadError
    BY <1>15 DEF CommitReadError
  <1>16. CASE CommitReturn
    BY <1>16 DEF CommitReturn, EndTransaction
  <1>17. CASE ResetError
    BY <1>17 DEF ResetError, EndTransaction
  <1>18. CASE SetStop
    BY <1>18 DEF SetStop
  <1>19. CASE NotifyStop
    BY <1>19 DEF NotifyStop, Notified
  <1>20. CASE Join
    BY <1>20 DEF Join
  <1>21. CASE TakeJob
    BY <1>21 DEF TakeJob, TaskId
  <1>22. CASE WaitForJob
    BY <1>22 DEF WaitForJob
  <1>23. CASE NotifySlot
    BY <1>23 DEF NotifySlot, Notified
  <1>24. CASE SkipJob
    BY <1>24 DEF SkipJob
  <1>25. CASE RunStatement
    BY <1>25 DEF RunStatement, RestoredRow
  <1>26. CASE FetchRows
    BY <1>26 DEF FetchRows, FetchedFrom
  <1>27. CASE NoteError
    BY <1>27 DEF NoteError, FirstError
  <1>28. CASE RunInternal
    BY <1>28 DEF RunInternal
  <1>29. CASE FinishJob
    BY <1>29 DEF FinishJob
  <1>30. CASE NotifyDone
    BY <1>30 DEF NotifyDone, Notified
  <1>31. CASE CancelRead
    BY <1>31 DEF CancelRead
  <1>32. CASE CancelSend
    BY <1>32 DEF CancelSend
  <1>33. ASSUME NEW t \in {"caller", "worker"}, SpuriousWakeup(t)
        PROVE  Stopping'
    BY <1>33 DEF SpuriousWakeup
  <1>34. CASE UNCHANGED vars
    BY <1>34
  <1>. QED
    BY <1>1, <1>2, <1>3, <1>4, <1>5, <1>6, <1>7, <1>8, <1>9, <1>10, <1>11, <1>12, <1>13,
       <1>14, <1>15, <1>16, <1>17, <1>18, <1>19, <1>20, <1>21, <1>22, <1>23, <1>24, <1>25,
       <1>26, <1>27, <1>28, <1>29, <1>30, <1>31, <1>32, <1>33, <1>34
       DEF Next, CallerStarts, CallerSteps, WorkerSteps, CancelSteps, Wakeups, Halted

(* A step never lets the worker have work the caller was told is over.     *)
LEMMA QuietStep ==
  ASSUME TypeOK, CallShape, Handover, QuietWhenTold, QuietPlaces, [Next]_vars
  PROVE  (QuietWhenTold /\ QuietPlaces)'
  <1> USE DEF vars, dbVars, callerVars, dataVars, workerVars, cancelVars, histVars,
              QuietWhenTold, QuietPlaces, Drained, InHand, Working, Handover
  <1>1. ASSUME NEW kind \in {"dml", "select"}, CallPrepare(kind)
        PROVE  (QuietWhenTold /\ QuietPlaces)'
    BY <1>1 DEF CallPrepare, Invoke
  <1>2. ASSUME NEW op \in StmtOps, NEW id \in Ids, CallStatement(op, id)
        PROVE  (QuietWhenTold /\ QuietPlaces)'
    BY <1>2 DEF CallStatement, Invoke
  <1>3. ASSUME NEW id \in Ids, CallFetchMore(id)
        PROVE  (QuietWhenTold /\ QuietPlaces)'
    BY <1>3 DEF CallFetchMore, Invoke
  <1>4. ASSUME NEW op \in {"commit", "rollback", "drain"}, CallDraining(op)
        PROVE  (QuietWhenTold /\ QuietPlaces)'
    BY <1>4 DEF CallDraining, Invoke
  <1>5. CASE CallIsFinished
    BY <1>5 DEF CallIsFinished, Invoke
  <1>6. CASE CallDestroy
    BY <1>6 DEF CallDestroy, NoCall
  <1>7. CASE PostDropped
    BY <1>7 DEF PostDropped, AfterPost
  <1>8. CASE PostAccepted
    BY <1>8 DEF PostAccepted, SlotFree, Enqueue, Sleep, NewJob, JobOp, Snapshot
  <1>9. CASE PostWaited
    BY <1>9 DEF PostWaited, SlotFree, Enqueue, Sleep, NewJob, JobOp, Snapshot
  <1>10. CASE NotifyWorker
    BY <1>10 DEF NotifyWorker, Notified, AfterPost
  <1>11. CASE DrainFirst
    BY <1>11 DEF DrainFirst, Drain, Drained, AfterDrain1
  <1>12. CASE DrainLast
    BY <1>12 DEF DrainLast, Drain, Drained, AfterDrain2
  <1>13. CASE ReturnError
    BY <1>13 DEF ReturnError
  <1>14. CASE PushTask
    BY <1>14 DEF PushTask
  <1>15. CASE CommitReadError
    BY <1>15 DEF CommitReadError
  <1>16. CASE CommitReturn
    BY <1>16 DEF CommitReturn, EndTransaction
  <1>17. CASE ResetError
    BY <1>17 DEF ResetError, EndTransaction
  <1>18. CASE SetStop
    BY <1>18 DEF SetStop
  <1>19. CASE NotifyStop
    BY <1>19 DEF NotifyStop, Notified
  <1>20. CASE Join
    BY <1>20 DEF Join
  <1>21. CASE TakeJob
    BY <1>21 DEF TakeJob, TaskId
  <1>22. CASE WaitForJob
    BY <1>22 DEF WaitForJob
  <1>23. CASE NotifySlot
    BY <1>23 DEF NotifySlot, Notified
  <1>24. CASE SkipJob
    BY <1>24 DEF SkipJob
  <1>25. CASE RunStatement
    BY <1>25 DEF RunStatement, RestoredRow
  <1>26. CASE FetchRows
    BY <1>26 DEF FetchRows, FetchedFrom
  <1>27. CASE NoteError
    BY <1>27 DEF NoteError, FirstError
  <1>28. CASE RunInternal
    BY <1>28 DEF RunInternal
  <1>29. CASE FinishJob
    BY <1>29 DEF FinishJob
  <1>30. CASE NotifyDone
    BY <1>30 DEF NotifyDone, Notified
  <1>31. CASE CancelRead
    BY <1>31 DEF CancelRead
  <1>32. CASE CancelSend
    BY <1>32 DEF CancelSend
  <1>33. ASSUME NEW t \in {"caller", "worker"}, SpuriousWakeup(t)
        PROVE  (QuietWhenTold /\ QuietPlaces)'
    BY <1>33 DEF SpuriousWakeup
  <1>34. CASE UNCHANGED vars
    BY <1>34
  <1>. QED
    BY <1>1, <1>2, <1>3, <1>4, <1>5, <1>6, <1>7, <1>8, <1>9, <1>10, <1>11, <1>12, <1>13,
       <1>14, <1>15, <1>16, <1>17, <1>18, <1>19, <1>20, <1>21, <1>22, <1>23, <1>24, <1>25,
       <1>26, <1>27, <1>28, <1>29, <1>30, <1>31, <1>32, <1>33, <1>34
       DEF Next, CallerStarts, CallerSteps, WorkerSteps, CancelSteps, Wakeups, Halted

(* A step loses no wakeup.                                                 *)
LEMMA WakeupStep ==
  ASSUME TypeOK, Handover, Stopping, NoLostWakeup, [Next]_vars
  PROVE  NoLostWakeup'
  <1> USE DEF vars, dbVars, callerVars, dataVars, workerVars, cancelVars, histVars, TypeOK,
              CallerType, WorkerType, DbType, NoLostWakeup, Drained, Working, Handover
  <1>1. ASSUME NEW kind \in {"dml", "select"}, CallPrepare(kind)
        PROVE  NoLostWakeup'
    BY <1>1 DEF CallPrepare, Invoke
  <1>2. ASSUME NEW op \in StmtOps, NEW id \in Ids, CallStatement(op, id)
        PROVE  NoLostWakeup'
    BY <1>2 DEF CallStatement, Invoke
  <1>3. ASSUME NEW id \in Ids, CallFetchMore(id)
        PROVE  NoLostWakeup'
    BY <1>3 DEF CallFetchMore, Invoke
  <1>4. ASSUME NEW op \in {"commit", "rollback", "drain"}, CallDraining(op)
        PROVE  NoLostWakeup'
    BY <1>4 DEF CallDraining, Invoke
  <1>5. CASE CallIsFinished
    BY <1>5 DEF CallIsFinished, Invoke
  <1>6. CASE CallDestroy
    BY <1>6 DEF CallDestroy, NoCall
  <1>7. CASE PostDropped
    BY <1>7 DEF PostDropped, AfterPost
  <1>8. CASE PostAccepted
    BY <1>8 DEF PostAccepted, SlotFree, Enqueue, Sleep, NewJob, JobOp, Snapshot
  <1>9. CASE PostWaited
    BY <1>9 DEF PostWaited, SlotFree, Enqueue, Sleep, NewJob, JobOp, Snapshot
  <1>10. CASE NotifyWorker
    BY <1>10 DEF NotifyWorker, Notified, AfterPost
  <1>11. CASE DrainFirst
    BY <1>11 DEF DrainFirst, Drain, Drained, AfterDrain1
  <1>12. CASE DrainLast
    BY <1>12 DEF DrainLast, Drain, Drained, AfterDrain2
  <1>13. CASE ReturnError
    BY <1>13 DEF ReturnError
  <1>14. CASE PushTask
    BY <1>14 DEF PushTask
  <1>15. CASE CommitReadError
    BY <1>15 DEF CommitReadError
  <1>16. CASE CommitReturn
    BY <1>16 DEF CommitReturn, EndTransaction
  <1>17. CASE ResetError
    BY <1>17 DEF ResetError, EndTransaction
  <1>18. CASE SetStop
    BY <1>18 DEF SetStop
  <1>19. CASE NotifyStop
    BY <1>19 DEF NotifyStop, Notified
  <1>20. CASE Join
    BY <1>20 DEF Join
  <1>21. CASE TakeJob
    BY <1>21 DEF TakeJob, TaskId
  <1>22. CASE WaitForJob
    BY <1>22 DEF WaitForJob
  <1>23. CASE NotifySlot
    BY <1>23 DEF NotifySlot, Notified
  <1>24. CASE SkipJob
    BY <1>24 DEF SkipJob
  <1>25. CASE RunStatement
    BY <1>25 DEF RunStatement, RestoredRow
  <1>26. CASE FetchRows
    BY <1>26 DEF FetchRows, FetchedFrom
  <1>27. CASE NoteError
    BY <1>27 DEF NoteError, FirstError
  <1>28. CASE RunInternal
    BY <1>28 DEF RunInternal
  <1>29. CASE FinishJob
    BY <1>29 DEF FinishJob
  <1>30. CASE NotifyDone
    BY <1>30 DEF NotifyDone, Notified
  <1>31. CASE CancelRead
    BY <1>31 DEF CancelRead
  <1>32. CASE CancelSend
    BY <1>32 DEF CancelSend
  <1>33. ASSUME NEW t \in {"caller", "worker"}, SpuriousWakeup(t)
        PROVE  NoLostWakeup'
    BY <1>33 DEF SpuriousWakeup
  <1>34. CASE UNCHANGED vars
    BY <1>34
  <1>. QED
    BY <1>1, <1>2, <1>3, <1>4, <1>5, <1>6, <1>7, <1>8, <1>9, <1>10, <1>11, <1>12, <1>13,
       <1>14, <1>15, <1>16, <1>17, <1>18, <1>19, <1>20, <1>21, <1>22, <1>23, <1>24, <1>25,
       <1>26, <1>27, <1>28, <1>29, <1>30, <1>31, <1>32, <1>33, <1>34
       DEF Next, CallerStarts, CallerSteps, WorkerSteps, CancelSteps, Wakeups, Halted

(* A job that is put in the free slot comes after every earlier one.       *)
LEMMA EnqueuedInOrder ==
  ASSUME TypeOK, CallShape, Handover, Fifo, cpc \in {"post", "slot"}, pending = NoJob, Enqueue,
         UNCHANGED <<busy, calls, call, done, wpc, job>>
  PROVE  (Handover /\ Fifo)'
  <1>1. /\ call.n \in CallNos /\ call.n = calls /\ call.n \notin posted
        /\ \A m \in posted : m < call.n
    BY DEF CallShape, Handover, TypeOK, CallerType, CallNos
  <1>2. pending'.n = call.n /\ pending' # NoJob
    BY NewJobShape DEF Enqueue
  <1>3. Queued = {} /\ Queued' = {call.n} /\ InHand' = InHand
    BY <1>2 DEF Queued, InHand
  <1>4. posted' = posted \cup {call.n} /\ cpc' = "notify"
    BY DEF Enqueue
  <1>5. Fifo'
    BY <1>1, <1>3, <1>4 DEF Fifo
  <1>6. Handover'
    <2>1. posted' \subseteq 1 .. calls'
      <3>1. posted \subseteq 1 .. calls /\ calls' = calls /\ calls \in 1 .. MaxCalls
        BY <1>1 DEF Handover, CallNos
      <3>. QED
        BY <1>1, <1>4, <3>1
    <2>2. (busy <=> wpc \in Working)'
      BY DEF Handover
    <2>. QED
      BY <2>1, <2>2, <1>4 DEF Handover
  <1>. QED
    BY <1>5, <1>6

(* A new call is younger than everything that was posted.                  *)
LEMMA StartedInOrder ==
  ASSUME TypeOK, Handover, Fifo, NEW op, NEW id, NEW kind, NEW to, Invoke(op, id, kind, to),
         UNCHANGED <<busy, posted, done, wpc, job, pending>>
  PROVE  (Handover /\ Fifo)'
  <1>0. calls' = calls + 1 /\ call'.n = calls + 1
    BY DEF Invoke
  <1>1. posted' \subseteq 1 .. calls' /\ call'.n \notin posted'
    BY <1>0 DEF Handover, TypeOK, CallerType
  <1>2. Handover'
    BY <1>1 DEF Handover
  <1>3. Fifo'
    BY DEF Fifo, InHand, Queued
  <1>. QED
    BY <1>2, <1>3

(* A step keeps the hand-over and the order of the jobs.                   *)
LEMMA HandoverStep ==
  ASSUME TypeOK, CallShape, JobsShape, Handover, Fifo, [Next]_vars
  PROVE  (Handover /\ Fifo)'
  <1> USE DEF vars, dbVars, callerVars, dataVars, workerVars, cancelVars, histVars
  <1>1. ASSUME NEW kind \in {"dml", "select"}, CallPrepare(kind)
        PROVE  (Handover /\ Fifo)'
    BY <1>1, StartedInOrder DEF CallPrepare
  <1>2. ASSUME NEW op \in StmtOps, NEW id \in Ids, CallStatement(op, id)
        PROVE  (Handover /\ Fifo)'
    BY <1>2, StartedInOrder DEF CallStatement
  <1>3. ASSUME NEW id \in Ids, CallFetchMore(id)
        PROVE  (Handover /\ Fifo)'
    BY <1>3, StartedInOrder DEF CallFetchMore
  <1>4. ASSUME NEW op \in {"commit", "rollback", "drain"}, CallDraining(op)
        PROVE  (Handover /\ Fifo)'
    BY <1>4, StartedInOrder DEF CallDraining
  <1>5. CASE CallIsFinished
    BY <1>5, StartedInOrder DEF CallIsFinished
  <1>6. CASE CallDestroy
    BY <1>6 DEF CallDestroy, NoCall, Handover, Fifo, InHand, Queued, Working, CallShape
  <1>7. CASE PostDropped
    BY <1>7 DEF PostDropped, AfterPost, Handover, Fifo, InHand, Queued, Working, CallShape
  <1>8. CASE PostAccepted
    <2>1. CASE SlotFree /\ Enqueue
      BY <1>8, <2>1, EnqueuedInOrder DEF PostAccepted, SlotFree
    <2>2. CASE Sleep("caller", "slot")
      BY <1>8, <2>2 DEF PostAccepted, Sleep, Handover, Fifo, InHand, Queued
    <2>. QED
      BY <1>8, <2>1, <2>2 DEF PostAccepted
  <1>9. CASE PostWaited
    <2>1. CASE SlotFree /\ Enqueue
      BY <1>9, <2>1, EnqueuedInOrder DEF PostWaited, SlotFree
    <2>2. CASE Sleep("caller", "slot")
      BY <1>9, <2>2 DEF PostWaited, Sleep, Handover, Fifo, InHand, Queued
    <2>. QED
      BY <1>9, <2>1, <2>2 DEF PostWaited
  <1>10. CASE NotifyWorker
    BY <1>10
       DEF NotifyWorker, Notified, AfterPost, Handover, Fifo, InHand, Queued, Working,
           CallShape
  <1>11. CASE DrainFirst
    BY <1>11
       DEF DrainFirst, Drain, Drained, AfterDrain1, Handover, Fifo, InHand, Queued, Working,
           CallShape
  <1>12. CASE DrainLast
    BY <1>12
       DEF DrainLast, Drain, Drained, AfterDrain2, Handover, Fifo, InHand, Queued, Working,
           CallShape
  <1>13. CASE ReturnError
    BY <1>13 DEF ReturnError, Handover, Fifo, InHand, Queued, Working, CallShape
  <1>14. CASE PushTask
    BY <1>14 DEF PushTask, Handover, Fifo, InHand, Queued, Working, CallShape
  <1>15. CASE CommitReadError
    BY <1>15 DEF CommitReadError, Handover, Fifo, InHand, Queued, Working, CallShape
  <1>16. CASE CommitReturn
    BY <1>16 DEF CommitReturn, EndTransaction, Handover, Fifo, InHand, Queued, Working, CallShape
  <1>17. CASE ResetError
    BY <1>17 DEF ResetError, EndTransaction, Handover, Fifo, InHand, Queued, Working, CallShape
  <1>18. CASE SetStop
    BY <1>18 DEF SetStop, Handover, Fifo, InHand, Queued, Working, CallShape
  <1>19. CASE NotifyStop
    BY <1>19 DEF NotifyStop, Notified, Handover, Fifo, InHand, Queued, Working, CallShape
  <1>20. CASE Join
    BY <1>20 DEF Join, Handover, Fifo, InHand, Queued, Working, CallShape
  <1>21. CASE TakeJob
    BY <1>21 DEF TakeJob, TaskId, Handover, Fifo, InHand, Queued, Working, CallShape
  <1>22. CASE WaitForJob
    BY <1>22 DEF WaitForJob, Handover, Fifo, InHand, Queued, Working, CallShape
  <1>23. CASE NotifySlot
    BY <1>23 DEF NotifySlot, Notified, Handover, Fifo, InHand, Queued, Working, CallShape
  <1>24. CASE SkipJob
    BY <1>24 DEF SkipJob, Handover, Fifo, InHand, Queued, Working, CallShape
  <1>25. CASE RunStatement
    BY <1>25 DEF RunStatement, RestoredRow, Handover, Fifo, InHand, Queued, Working, CallShape
  <1>26. CASE FetchRows
    BY <1>26 DEF FetchRows, FetchedFrom, Handover, Fifo, InHand, Queued, Working, CallShape
  <1>27. CASE NoteError
    BY <1>27 DEF NoteError, FirstError, Handover, Fifo, InHand, Queued, Working, CallShape
  <1>28. CASE RunInternal
    BY <1>28 DEF RunInternal, Handover, Fifo, InHand, Queued, Working, CallShape
  <1>29. CASE FinishJob
    BY <1>29 DEF FinishJob, Handover, Fifo, InHand, Queued, Working, CallShape
  <1>30. CASE NotifyDone
    BY <1>30 DEF NotifyDone, Notified, Handover, Fifo, InHand, Queued, Working, CallShape
  <1>31. CASE CancelRead
    BY <1>31 DEF CancelRead, Handover, Fifo, InHand, Queued, Working, CallShape
  <1>32. CASE CancelSend
    BY <1>32 DEF CancelSend, Handover, Fifo, InHand, Queued, Working, CallShape
  <1>33. ASSUME NEW t \in {"caller", "worker"}, SpuriousWakeup(t)
        PROVE  (Handover /\ Fifo)'
    BY <1>33 DEF SpuriousWakeup, Handover, Fifo, InHand, Queued, Working, CallShape
  <1>34. CASE UNCHANGED vars
    BY <1>34 DEF Handover, Fifo, InHand, Queued, Working
  <1>. QED
    BY <1>1, <1>2, <1>3, <1>4, <1>5, <1>6, <1>7, <1>8, <1>9, <1>10, <1>11, <1>12, <1>13,
       <1>14, <1>15, <1>16, <1>17, <1>18, <1>19, <1>20, <1>21, <1>22, <1>23, <1>24, <1>25,
       <1>26, <1>27, <1>28, <1>29, <1>30, <1>31, <1>32, <1>33, <1>34
       DEF Next, CallerStarts, CallerSteps, WorkerSteps, CancelSteps, Wakeups, Halted

-----------------------------------------------------------------------------
(* COMMIT is the only job while commit() waits for it.                     *)

(* A step keeps every other job away from COMMIT.                          *)
LEMMA CommitAloneStep ==
  ASSUME TypeOK, CallShape, JobsShape, QuietWhenTold, QuietPlaces, CommitAlone, [Next]_vars
  PROVE  CommitAlone'
  <1> USE DEF vars, dbVars, callerVars, dataVars, workerVars, cancelVars, histVars,
              CommitAlone, Working
  <1>1. ASSUME NEW kind \in {"dml", "select"}, CallPrepare(kind)
        PROVE  CommitAlone'
    BY <1>1 DEF CallPrepare, Invoke, TaskOps, StmtOps, JobsShape
  <1>2. ASSUME NEW op \in StmtOps, NEW id \in Ids, CallStatement(op, id)
        PROVE  CommitAlone'
    BY <1>2 DEF CallStatement, Invoke, TaskOps, StmtOps, JobsShape
  <1>3. ASSUME NEW id \in Ids, CallFetchMore(id)
        PROVE  CommitAlone'
    BY <1>3 DEF CallFetchMore, Invoke, TaskOps, StmtOps, JobsShape
  <1>4. ASSUME NEW op \in {"commit", "rollback", "drain"}, CallDraining(op)
        PROVE  CommitAlone'
    BY <1>4 DEF CallDraining, Invoke, TaskOps, StmtOps, JobsShape
  <1>5. CASE CallIsFinished
    BY <1>5 DEF CallIsFinished, Invoke, TaskOps, StmtOps, JobsShape
  <1>6. CASE CallDestroy
    BY <1>6 DEF CallDestroy, NoCall, TaskOps, StmtOps, JobsShape
  <1>7. CASE PostDropped
    BY <1>7 DEF PostDropped, AfterPost, TaskOps, StmtOps, JobsShape
  <1>8. CASE PostAccepted
    BY <1>8
       DEF PostAccepted, SlotFree, Enqueue, Sleep, NewJob, JobOp, Snapshot, TaskOps,
           StmtOps, JobsShape
  <1>9. CASE PostWaited
    BY <1>9
       DEF PostWaited, SlotFree, Enqueue, Sleep, NewJob, JobOp, Snapshot, TaskOps, StmtOps,
           JobsShape
  <1>10. CASE NotifyWorker
    BY <1>10 DEF NotifyWorker, Notified, AfterPost, TaskOps, StmtOps, JobsShape
  <1>11. CASE DrainFirst
    BY <1>11 DEF DrainFirst, Drain, Drained, AfterDrain1, TaskOps, StmtOps, JobsShape
  <1>12. CASE DrainLast
    BY <1>12 DEF DrainLast, Drain, Drained, AfterDrain2, TaskOps, StmtOps, JobsShape
  <1>13. CASE ReturnError
    BY <1>13 DEF ReturnError, TaskOps, StmtOps, JobsShape
  <1>14. CASE PushTask
    BY <1>14 DEF PushTask, TaskOps, StmtOps, JobsShape
  <1>15. CASE CommitReadError
    BY <1>15 DEF CommitReadError, QuietPlaces, QuietWhenTold, Drained, InHand
  <1>16. CASE CommitReturn
    BY <1>16 DEF CommitReturn, EndTransaction, TaskOps, StmtOps, JobsShape
  <1>17. CASE ResetError
    BY <1>17 DEF ResetError, EndTransaction, TaskOps, StmtOps, JobsShape
  <1>18. CASE SetStop
    BY <1>18 DEF SetStop, TaskOps, StmtOps, JobsShape
  <1>19. CASE NotifyStop
    BY <1>19 DEF NotifyStop, Notified, TaskOps, StmtOps, JobsShape
  <1>20. CASE Join
    BY <1>20 DEF Join, TaskOps, StmtOps, JobsShape
  <1>21. CASE TakeJob
    BY <1>21 DEF TakeJob, TaskId, TaskOps, StmtOps, JobsShape
  <1>22. CASE WaitForJob
    BY <1>22 DEF WaitForJob, TaskOps, StmtOps, JobsShape
  <1>23. CASE NotifySlot
    BY <1>23 DEF NotifySlot, Notified, TaskOps, StmtOps, JobsShape
  <1>24. CASE SkipJob
    BY <1>24 DEF SkipJob, TaskOps, StmtOps, JobsShape
  <1>25. CASE RunStatement
    BY <1>25 DEF RunStatement, RestoredRow, TaskOps, StmtOps, JobsShape
  <1>26. CASE FetchRows
    BY <1>26 DEF FetchRows, FetchedFrom, TaskOps, StmtOps, JobsShape
  <1>27. CASE NoteError
    BY <1>27 DEF NoteError, FirstError, TaskOps, StmtOps, JobsShape
  <1>28. CASE RunInternal
    BY <1>28 DEF RunInternal, TaskOps, StmtOps, JobsShape
  <1>29. CASE FinishJob
    BY <1>29 DEF FinishJob, TaskOps, StmtOps, JobsShape
  <1>30. CASE NotifyDone
    BY <1>30 DEF NotifyDone, Notified, TaskOps, StmtOps, JobsShape
  <1>31. CASE CancelRead
    BY <1>31 DEF CancelRead, TaskOps, StmtOps, JobsShape
  <1>32. CASE CancelSend
    BY <1>32 DEF CancelSend, TaskOps, StmtOps, JobsShape
  <1>33. ASSUME NEW t \in {"caller", "worker"}, SpuriousWakeup(t)
        PROVE  CommitAlone'
    BY <1>33 DEF SpuriousWakeup, TaskOps, StmtOps, JobsShape
  <1>34. CASE UNCHANGED vars
    BY <1>34
  <1>. QED
    BY <1>1, <1>2, <1>3, <1>4, <1>5, <1>6, <1>7, <1>8, <1>9, <1>10, <1>11, <1>12, <1>13,
       <1>14, <1>15, <1>16, <1>17, <1>18, <1>19, <1>20, <1>21, <1>22, <1>23, <1>24, <1>25,
       <1>26, <1>27, <1>28, <1>29, <1>30, <1>31, <1>32, <1>33, <1>34
       DEF Next, CallerStarts, CallerSteps, WorkerSteps, CancelSteps, Wakeups, Halted

-----------------------------------------------------------------------------
(* The rows the statements run with.                                       *)

(* A step runs a statement with no row but its own.                        *)
LEMMA SnapshotStep ==
  ASSUME TypeOK, JobsShape, SnapshotIsolated, [Next]_vars
  PROVE  SnapshotIsolated'
  <1>1. CASE RunStatement
    <2>1. job.n \in CallNos /\ job.snap = job.n /\ job.id \in DOMAIN tasks
      BY <1>1 DEF RunStatement, JobsShape, JobShape, Working, TaskOps
    <2>2. job.id \in Ids
      BY <2>1, TasksDomain
    <2>3. qparam'[job.id] = job.n
      BY <1>1, <2>1, <2>2 DEF RunStatement, RestoredRow, TypeOK, DataType
    <2>4. ranWith' = [ranWith EXCEPT ![job.n] = job.n]
      BY <1>1, <2>3 DEF RunStatement
    <2>. QED
      BY <2>1, <2>4 DEF SnapshotIsolated, TypeOK, HistType
  <1>2. CASE UNCHANGED ranWith
    BY <1>2 DEF SnapshotIsolated
  <1>. QED
    BY <1>1, <1>2, RanWithFrame

-----------------------------------------------------------------------------
(* The sticky error.                                                       *)

(* A statement or a fetch that fails is the youngest failure there is.     *)
LEMMA RunErrors ==
  ASSUME TypeOK, JobsShape, Handover, Fifo, FailuresRan, FirstErrorWins,
         wpc \in {"run", "fetch"}, UNCHANGED <<error, job, done>>,
         \/ failed' = failed /\ wpc' \in {"fetch", "ran"}
         \/ failed' = failed \cup {job.n} /\ wpc' = "note"
  PROVE  (FailuresRan /\ FirstErrorWins)'
  <1>1. InHand = {job.n} /\ InHand' = {job.n} /\ job.n \in CallNos
    BY DEF InHand, Working, JobsShape, JobShape
  <1>2. \A m \in failed : m <= job.n
    <2>1. done \subseteq CallNos
      BY DEF TypeOK, HistType
    <2>. QED
      BY <1>1, <2>1 DEF FailuresRan, Fifo, CallNos
  <1>3. FailuresRan'
    BY <1>1 DEF FailuresRan
  <1>4. FirstErrorWins'
    BY <1>1, <1>2 DEF FirstErrorWins, TypeOK, DbType, HistType, CallNos
  <1>. QED
    BY <1>3, <1>4

(* A step keeps the sticky error the first failure.                        *)
LEMMA ErrorsStep ==
  ASSUME TypeOK, JobsShape, Handover, Fifo, QuietWhenTold, QuietPlaces,
         CallShape, CommitAlone, FailuresRan, FirstErrorWins, [Next]_vars
  PROVE  (FailuresRan /\ FirstErrorWins)'
  <1> USE DEF vars, dbVars, callerVars, dataVars, workerVars, cancelVars, histVars
  <1>1. ASSUME NEW kind \in {"dml", "select"}, CallPrepare(kind)
        PROVE  (FailuresRan /\ FirstErrorWins)'
    BY <1>1 DEF CallPrepare, Invoke, FailuresRan, FirstErrorWins, InHand, Working
  <1>2. ASSUME NEW op \in StmtOps, NEW id \in Ids, CallStatement(op, id)
        PROVE  (FailuresRan /\ FirstErrorWins)'
    BY <1>2 DEF CallStatement, Invoke, FailuresRan, FirstErrorWins, InHand, Working
  <1>3. ASSUME NEW id \in Ids, CallFetchMore(id)
        PROVE  (FailuresRan /\ FirstErrorWins)'
    BY <1>3 DEF CallFetchMore, Invoke, FailuresRan, FirstErrorWins, InHand, Working
  <1>4. ASSUME NEW op \in {"commit", "rollback", "drain"}, CallDraining(op)
        PROVE  (FailuresRan /\ FirstErrorWins)'
    BY <1>4 DEF CallDraining, Invoke, FailuresRan, FirstErrorWins, InHand, Working
  <1>5. CASE CallIsFinished
    BY <1>5 DEF CallIsFinished, Invoke, FailuresRan, FirstErrorWins, InHand, Working
  <1>6. CASE CallDestroy
    BY <1>6 DEF CallDestroy, NoCall, FailuresRan, FirstErrorWins, InHand, Working
  <1>7. CASE PostDropped
    BY <1>7 DEF PostDropped, AfterPost, FailuresRan, FirstErrorWins, InHand, Working
  <1>8. CASE PostAccepted
    BY <1>8
       DEF PostAccepted, SlotFree, Enqueue, Sleep, NewJob, JobOp, Snapshot, FailuresRan,
           FirstErrorWins, InHand, Working
  <1>9. CASE PostWaited
    BY <1>9
       DEF PostWaited, SlotFree, Enqueue, Sleep, NewJob, JobOp, Snapshot, FailuresRan,
           FirstErrorWins, InHand, Working
  <1>10. CASE NotifyWorker
    BY <1>10 DEF NotifyWorker, Notified, AfterPost, FailuresRan, FirstErrorWins, InHand, Working
  <1>11. CASE DrainFirst
    BY <1>11
       DEF DrainFirst, Drain, Drained, AfterDrain1, FailuresRan, FirstErrorWins, InHand,
           Working
  <1>12. CASE DrainLast
    BY <1>12
       DEF DrainLast, Drain, Drained, AfterDrain2, FailuresRan, FirstErrorWins, InHand,
           Working
  <1>13. CASE ReturnError
    BY <1>13 DEF ReturnError, FailuresRan, FirstErrorWins, InHand, Working
  <1>14. CASE PushTask
    BY <1>14 DEF PushTask, FailuresRan, FirstErrorWins, InHand, Working
  <1>15. CASE CommitReadError
    BY <1>15 DEF CommitReadError, FailuresRan, FirstErrorWins, InHand, Working
  <1>16. CASE CommitReturn
    <2>1. InHand = {} /\ wpc # "note" /\ error = 0
      BY <1>16 DEF CommitReturn, QuietPlaces, QuietWhenTold, CallShape, CommitAlone, InHand, Working
    <2>2. failed' = {} /\ error' = 0 /\ UNCHANGED <<wpc, job, done>>
      BY <1>16, <2>1 DEF CommitReturn, EndTransaction
    <2>. QED
      BY <2>1, <2>2 DEF FailuresRan, FirstErrorWins
  <1>17. CASE ResetError
    <2>1. InHand = {} /\ wpc # "note"
      BY <1>17 DEF ResetError, QuietPlaces, QuietWhenTold, InHand, Working
    <2>2. failed' = {} /\ error' = 0 /\ UNCHANGED <<wpc, job, done>>
      BY <1>17, <2>1 DEF ResetError, EndTransaction
    <2>. QED
      BY <2>1, <2>2 DEF FailuresRan, FirstErrorWins
  <1>18. CASE SetStop
    BY <1>18 DEF SetStop, FailuresRan, FirstErrorWins, InHand, Working
  <1>19. CASE NotifyStop
    BY <1>19 DEF NotifyStop, Notified, FailuresRan, FirstErrorWins, InHand, Working
  <1>20. CASE Join
    BY <1>20 DEF Join, FailuresRan, FirstErrorWins, InHand, Working
  <1>21. CASE TakeJob
    BY <1>21 DEF TakeJob, TaskId, FailuresRan, FirstErrorWins, InHand, Working
  <1>22. CASE WaitForJob
    BY <1>22 DEF WaitForJob, FailuresRan, FirstErrorWins, InHand, Working
  <1>23. CASE NotifySlot
    BY <1>23 DEF NotifySlot, Notified, FailuresRan, FirstErrorWins, InHand, Working
  <1>24. CASE SkipJob
    BY <1>24 DEF SkipJob, FailuresRan, FirstErrorWins, InHand, Working
  <1>25. CASE RunStatement
    <2>1. /\ wpc = "run" /\ UNCHANGED <<error, job, done>>
          /\ \/ failed' = failed /\ wpc' \in {"fetch", "ran"}
             \/ failed' = failed \cup {job.n} /\ wpc' = "note"
      BY <1>25 DEF RunStatement
    <2>. QED
      BY <2>1, RunErrors
  <1>26. CASE FetchRows
    <2>1. /\ wpc \in {"run", "fetch"} /\ UNCHANGED <<error, job, done>>
          /\ \/ failed' = failed /\ wpc' \in {"fetch", "ran"}
             \/ failed' = failed \cup {job.n} /\ wpc' = "note"
      BY <1>26 DEF FetchRows
    <2>. QED
      BY <2>1, RunErrors
  <1>27. CASE NoteError
    <2>1. /\ InHand = {job.n} /\ InHand' = {job.n} /\ job.n \in CallNos
          /\ UNCHANGED <<failed, done>> /\ wpc' = "ran" /\ job.n \in failed
      BY <1>27 DEF NoteError, InHand, Working, JobsShape, JobShape, FailuresRan
    <2>2. FailuresRan'
      BY <2>1 DEF FailuresRan
    <2>3. \A m \in failed : error = 0 => m = job.n
      BY <1>27 DEF FirstErrorWins, NoteError
    <2>4. error' # 0 /\ (error = 0 => error' = job.n) /\ (error # 0 => error' = error)
      BY <1>27, <2>1 DEF NoteError, FirstError, CallNos
    <2>5. FirstErrorWins'
      BY <2>1, <2>3, <2>4 DEF FirstErrorWins, CallNos
    <2>. QED
      BY <2>2, <2>5
  <1>28. CASE RunInternal
    BY <1>28 DEF RunInternal, FailuresRan, FirstErrorWins, InHand, Working
  <1>29. CASE FinishJob
    BY <1>29 DEF FinishJob, FailuresRan, FirstErrorWins, InHand, Working
  <1>30. CASE NotifyDone
    BY <1>30 DEF NotifyDone, Notified, FailuresRan, FirstErrorWins, InHand, Working
  <1>31. CASE CancelRead
    BY <1>31 DEF CancelRead, FailuresRan, FirstErrorWins, InHand, Working
  <1>32. CASE CancelSend
    BY <1>32 DEF CancelSend, FailuresRan, FirstErrorWins, InHand, Working
  <1>33. ASSUME NEW t \in {"caller", "worker"}, SpuriousWakeup(t)
        PROVE  (FailuresRan /\ FirstErrorWins)'
    BY <1>33 DEF SpuriousWakeup, FailuresRan, FirstErrorWins, InHand, Working
  <1>34. CASE UNCHANGED vars
    BY <1>34 DEF FailuresRan, FirstErrorWins, InHand, Working
  <1>. QED
    BY <1>1, <1>2, <1>3, <1>4, <1>5, <1>6, <1>7, <1>8, <1>9, <1>10, <1>11, <1>12, <1>13,
       <1>14, <1>15, <1>16, <1>17, <1>18, <1>19, <1>20, <1>21, <1>22, <1>23, <1>24, <1>25,
       <1>26, <1>27, <1>28, <1>29, <1>30, <1>31, <1>32, <1>33, <1>34
       DEF Next, CallerStarts, CallerSteps, WorkerSteps, CancelSteps, Wakeups, Halted

-----------------------------------------------------------------------------
(* The theorems.                                                           *)

(* The inductive invariant holds in the initial state.                     *)
LEMMA InitIndInv ==
  ASSUME Init
  PROVE  IndInv
  <1> USE DEF Init
  <1>0. 0 \in 0 .. MaxCalls /\ 0 \in 0 .. MaxTasks /\ 0 \in 0 .. MaxBuffers /\ 0 \in 0 .. MaxCancels
    BY AsyncDbAssumption DEF AsyncDbAssumption
  <1>1. DbType
    <2>1. tasks \in Seq({"dml", "select", "null"}) /\ Len(tasks) <= MaxTasks
      BY <1>0
    <2>2. pending \in Job
      BY <1>0 DEF Job, NoJob
    <2>. QED
      BY <1>0, <2>1, <2>2 DEF DbType
  <1>2. CallerType
    BY <1>0 DEF CallerType, NoCall, CallOps
  <1>3. DataType /\ CancelType
    BY <1>0 DEF DataType, CancelType
  <1>4. WorkerType
    BY <1>0 DEF WorkerType, Working, Job, NoJob, Connected, Connections, TxStates
  <1>5. HistType
    BY <1>0 DEF HistType
  <1>6. CallShape /\ JobsShape /\ Handover /\ Fifo
    BY DEF CallShape, JobsShape, Handover, Fifo, InHand, Queued, Working
  <1>7. NoLostWakeup /\ QuietWhenTold /\ QuietPlaces /\ CommitAlone /\ Stopping
    BY DEF NoLostWakeup, QuietWhenTold, QuietPlaces, CommitAlone, Stopping, Drained, InHand, Working
  <1>8. SnapshotIsolated /\ FailuresRan /\ FirstErrorWins
    BY DEF SnapshotIsolated, FailuresRan, FirstErrorWins
  <1>. QED
    BY <1>1, <1>2, <1>3, <1>4, <1>5, <1>6, <1>7, <1>8 DEF IndInv, TypeOK

(* A step keeps the inductive invariant.                                   *)
LEMMA IndInvStep == ASSUME IndInv, [Next]_vars PROVE IndInv'
  BY TypeStep, CallShapeStep, JobsShapeStep, HandoverStep, WakeupStep, QuietStep, CommitAloneStep,
     StoppingStep, SnapshotStep, ErrorsStep
     DEF IndInv

(* Every state the class can be in satisfies the inductive invariant.      *)
THEOREM InductiveInvariant == Spec => []IndInv
  <1>1. Init => IndInv
    BY InitIndInv
  <1>2. IndInv /\ [Next]_vars => IndInv'
    BY IndInvStep
  <1>. QED
    BY <1>1, <1>2, PTL DEF Spec

(* Every variable stays in its type: no index, counter or buffer of        *)
(* async_db leaves its range.                                              *)
THEOREM TypeCorrect == Spec => []TypeOK
  <1>1. IndInv => TypeOK
    BY DEF IndInv
  <1>. QED
    BY <1>1, InductiveInvariant, PTL

(* The notifies of post_to_worker(), worker_loop() and ~async_db(), all    *)
(* made after the unlock, lose no wakeup.                                  *)
THEOREM LostWakeupFree == Spec => []NoLostWakeup
  <1>1. IndInv => NoLostWakeup
    BY DEF IndInv
  <1>. QED
    BY <1>1, InductiveInvariant, PTL

(* The waits of post_to_worker(), drain() and worker_loop() never hold     *)
(* both threads at once.                                                   *)
THEOREM DeadlockFree == Spec => []NoDeadlock
  <1>1. IndInv => NoDeadlock
    BY DEF IndInv, NoLostWakeup, NoDeadlock, Handover, Drained, Working
  <1>. QED
    BY <1>1, InductiveInvariant, PTL

(* The queue of post_to_worker() loses no job, runs none twice and keeps   *)
(* the order of the calls.                                                 *)
THEOREM FifoOrder == Spec => []Fifo
  <1>1. IndInv => Fifo
    BY DEF IndInv
  <1>. QED
    BY <1>1, InductiveInvariant, PTL

(* restore_params() gives every statement the row of its own call.         *)
THEOREM SnapshotCorrect == Spec => []SnapshotIsolated
  <1>1. IndInv => SnapshotIsolated
    BY DEF IndInv
  <1>. QED
    BY <1>1, InductiveInvariant, PTL

(* When drain(), a waiting call or is_finished() has said so, the worker   *)
(* has nothing in hand.                                                    *)
THEOREM QuietCorrect == Spec => []QuietWhenTold
  <1>1. IndInv => QuietWhenTold
    BY DEF IndInv
  <1>. QED
    BY <1>1, InductiveInvariant, PTL

(* note_error() keeps the first failure of the transaction and forgets     *)
(* none; commit() and rollback() start the next one without it.            *)
THEOREM FirstErrorCorrect == Spec => []FirstErrorWins
  <1>1. IndInv => FirstErrorWins
    BY DEF IndInv
  <1>. QED
    BY <1>1, InductiveInvariant, PTL

(* ~async_db() leaves no job behind.                                       *)
THEOREM ShutdownCorrect == Spec => []ShutdownDrains
  <1>1. IndInv => ShutdownDrains
    <2>1. SUFFICES ASSUME IndInv, wpc = "exit" \/ cpc = "ended"
                   PROVE  pending = NoJob /\ posted = done /\ wpc = "exit"
      BY DEF ShutdownDrains
    <2>2. wpc = "exit" /\ told
      BY <2>1 DEF IndInv, Stopping, QuietPlaces
    <2>3. pending = NoJob /\ InHand = {} /\ Queued = {}
      BY <2>1, <2>2 DEF IndInv, QuietWhenTold, Drained, Queued
    <2>. QED
      BY <2>1, <2>2, <2>3 DEF IndInv, Fifo
  <1>. QED
    BY <1>1, InductiveInvariant, PTL

-----------------------------------------------------------------------------
(* The transactions of the caller.                                         *)

(* What the job of a call is: the queue and the worker hold the job that   *)
(* the call in progress posted, as it posted it.                           *)
CallJobs ==
  /\ pending # NoJob /\ pending.n = call.n => pending.op = JobOp
  /\ wpc \in Working /\ job.n = call.n => job.op = JobOp

(* commit() or rollback() is the last call, has the worker to itself from  *)
(* its first drain() on, and its job is posted before its second one; no   *)
(* other call posts a COMMIT or a ROLLBACK.                                *)
Ending == call.op \in {"commit", "rollback"}

EndJobs ==
  /\ Ending =>
       /\ call.n = calls /\ calls \in CallNos
       /\ cpc \in {"drain1", "sticky", "post", "slot", "notify", "drain2", "status", "reset", "idle"}
       /\ cpc \in {"sticky", "post", "slot", "status", "reset", "idle"} => told
       /\ cpc \in {"notify", "drain2", "status", "reset", "idle"} => call.n \in posted
       /\ cpc \in {"notify", "drain2"} /\ pending # NoJob => pending.n = call.n
       /\ cpc \in {"notify", "drain2"} /\ wpc \in Working => job.n = call.n
       /\ cpc = "reset" => call.op = "rollback" \/ cerr # 0
       /\ cpc = "idle" => asked = {}
  /\ pending # NoJob /\ pending.op \in EvenAfterError => Ending /\ pending.n = call.n
  /\ wpc \in Working /\ job.op \in EvenAfterError => Ending /\ job.n = call.n

(* A statement in the queue or in hand belongs to this transaction.        *)
AskedJobs ==
  /\ asked \subseteq 1 .. calls
  /\ pending # NoJob /\ pending.op \in StmtOps => pending.n \in asked
  /\ wpc \in Working /\ job.op \in StmtOps => job.n \in asked
  /\ cpc \in {"post", "slot"} /\ call.op \in StmtOps => call.n \in asked

(* The numbers of the jobs.                                                *)
LEMMA JobNos ==
  ASSUME IndInv
  PROVE  /\ calls \in Nat /\ MaxCalls \in Nat /\ calls <= MaxCalls
         /\ \A n \in posted : n \in Nat /\ n <= calls /\ n # 0 /\ n # calls + 1
         /\ pending # NoJob => pending.n \in posted /\ pending.n \notin done
         /\ wpc \in Working => job.n \in posted /\ job.n \notin done
         /\ pending # NoJob /\ wpc \in Working => job.n < pending.n
         /\ done \subseteq posted
  <1>1. calls \in 0 .. MaxCalls /\ MaxCalls \in Nat /\ posted \subseteq 1 .. calls
    BY AsyncDbAssumption DEF IndInv, TypeOK, CallerType, Handover
  <1>2. pending # NoJob => Queued = {pending.n}
    BY DEF Queued
  <1>3. wpc \in Working => InHand = {job.n}
    BY DEF InHand
  <1>4. /\ posted = done \cup InHand \cup Queued
        /\ \A d \in done : \A m \in InHand \cup Queued : d < m
        /\ \A m \in InHand : \A q \in Queued : m < q
    BY DEF IndInv, Fifo
  <1>. QED
    BY <1>1, <1>2, <1>3, <1>4

(* A step keeps the job of the call.                                       *)
LEMMA CallJobsStep ==
  ASSUME IndInv, EndJobs, CallJobs, [Next]_vars
  PROVE  CallJobs'
  <1>0. NewJob.op = JobOp /\ NewJob.n = call.n /\ NoJob.n = 0
    BY DEF NewJob, NoJob
  <1>00. cpc = "sticky" => pending = NoJob /\ wpc \notin Working
    BY DEF IndInv, QuietPlaces, QuietWhenTold, Drained, InHand
  <1> USE DEF vars, dbVars, callerVars, dataVars, workerVars, cancelVars, histVars
  <1>1. ASSUME NEW kind \in {"dml", "select"}, CallPrepare(kind)
        PROVE  CallJobs'
    BY <1>1, JobNos DEF CallPrepare, Invoke, CallJobs, JobOp, Working
  <1>2. ASSUME NEW op \in StmtOps, NEW id \in Ids, CallStatement(op, id)
        PROVE  CallJobs'
    BY <1>2, JobNos DEF CallStatement, Invoke, CallJobs, JobOp, Working
  <1>3. ASSUME NEW id \in Ids, CallFetchMore(id)
        PROVE  CallJobs'
    BY <1>3, JobNos DEF CallFetchMore, Invoke, CallJobs, JobOp, Working
  <1>4. ASSUME NEW op \in {"commit", "rollback", "drain"}, CallDraining(op)
        PROVE  CallJobs'
    BY <1>4, JobNos DEF CallDraining, Invoke, CallJobs, JobOp, Working
  <1>5. CASE CallIsFinished
    BY <1>5, JobNos DEF CallIsFinished, Invoke, CallJobs, JobOp, Working
  <1>6. CASE CallDestroy
    BY <1>6, JobNos DEF CallDestroy, NoCall, CallJobs, JobOp, Working
  <1>7. CASE PostDropped
    BY <1>7 DEF PostDropped, AfterPost, CallJobs, JobOp, Working
  <1>8. CASE PostAccepted
    BY <1>8, <1>0 DEF PostAccepted, SlotFree, Enqueue, Sleep, CallJobs, JobOp, Working
  <1>9. CASE PostWaited
    BY <1>9, <1>0 DEF PostWaited, SlotFree, Enqueue, Sleep, CallJobs, JobOp, Working
  <1>10. CASE NotifyWorker
    BY <1>10 DEF NotifyWorker, AfterPost, CallJobs, JobOp, Working
  <1>11. CASE DrainFirst
    BY <1>11 DEF DrainFirst, Drain, Drained, AfterDrain1, CallJobs, JobOp, Working
  <1>12. CASE DrainLast
    BY <1>12 DEF DrainLast, Drain, Drained, AfterDrain2, CallJobs, JobOp, Working
  <1>13. CASE ReturnError
    BY <1>13 DEF ReturnError, CallJobs, JobOp, Working
  <1>14. CASE PushTask
    BY <1>14 DEF PushTask, CallJobs, JobOp, Working
  <1>15. CASE CommitReadError
    BY <1>15, <1>00 DEF CommitReadError, CallJobs, JobOp, Working
  <1>16. CASE CommitReturn
    BY <1>16 DEF CommitReturn, EndTransaction, CallJobs, JobOp, Working
  <1>17. CASE ResetError
    BY <1>17 DEF ResetError, EndTransaction, CallJobs, JobOp, Working
  <1>18. CASE SetStop
    BY <1>18 DEF SetStop, CallJobs, JobOp, Working
  <1>19. CASE NotifyStop
    BY <1>19 DEF NotifyStop, CallJobs, JobOp, Working
  <1>20. CASE Join
    BY <1>20 DEF Join, CallJobs, JobOp, Working
  <1>21. CASE TakeJob
    BY <1>21, <1>0 DEF TakeJob, CallJobs, JobOp, Working
  <1>22. CASE WaitForJob
    BY <1>22 DEF WaitForJob, CallJobs, JobOp, Working
  <1>23. CASE NotifySlot
    BY <1>23 DEF NotifySlot, CallJobs, JobOp, Working
  <1>24. CASE SkipJob
    BY <1>24 DEF SkipJob, CallJobs, JobOp, Working
  <1>25. CASE RunStatement
    BY <1>25 DEF RunStatement, CallJobs, JobOp, Working
  <1>26. CASE FetchRows
    BY <1>26 DEF FetchRows, CallJobs, JobOp, Working
  <1>27. CASE NoteError
    BY <1>27 DEF NoteError, CallJobs, JobOp, Working
  <1>28. CASE RunInternal
    BY <1>28 DEF RunInternal, CallJobs, JobOp, Working
  <1>29. CASE FinishJob
    BY <1>29 DEF FinishJob, CallJobs, JobOp, Working
  <1>30. CASE NotifyDone
    BY <1>30 DEF NotifyDone, CallJobs, JobOp, Working
  <1>31. CASE CancelRead
    BY <1>31 DEF CancelRead, CallJobs, JobOp, Working
  <1>32. CASE CancelSend
    BY <1>32 DEF CancelSend, CallJobs, JobOp, Working
  <1>33. ASSUME NEW t \in {"caller", "worker"}, SpuriousWakeup(t)
        PROVE  CallJobs'
    BY <1>33 DEF SpuriousWakeup, CallJobs, JobOp, Working
  <1>34. CASE UNCHANGED vars
    BY <1>34 DEF CallJobs, JobOp, Working
  <1>. QED
    BY <1>1, <1>2, <1>3, <1>4, <1>5, <1>6, <1>7, <1>8, <1>9, <1>10, <1>11, <1>12, <1>13, <1>14,
       <1>15, <1>16, <1>17, <1>18, <1>19, <1>20, <1>21, <1>22, <1>23, <1>24, <1>25, <1>26, <1>27,
       <1>28, <1>29, <1>30, <1>31, <1>32, <1>33, <1>34
       DEF Next, CallerStarts, CallerSteps, WorkerSteps, CancelSteps, Wakeups, Halted

(* A step keeps the order of the calls that end a transaction.             *)
LEMMA EndJobsStep ==
  ASSUME IndInv, CallJobs, EndJobs, [Next]_vars
  PROVE  EndJobs'
  <1>0. /\ NewJob.op = JobOp /\ NewJob.n = call.n /\ NoJob.n = 0
        /\ JobOp \in EvenAfterError <=> Ending
    BY DEF NewJob, NoJob, JobOp, EvenAfterError, Ending
  <1>00. /\ told => pending = NoJob /\ wpc \notin Working
         /\ busy <=> wpc \in Working
    BY DEF IndInv, QuietWhenTold, Drained, InHand, Handover
  <1>01. /\ calls \in Nat /\ calls \in 0 .. MaxCalls
         /\ calls < MaxCalls => calls + 1 \in CallNos
    BY AsyncDbAssumption DEF IndInv, TypeOK, CallerType, CallNos
  <1> USE DEF vars, dbVars, callerVars, dataVars, workerVars, cancelVars, histVars
  <1>1. ASSUME NEW kind \in {"dml", "select"}, CallPrepare(kind)
        PROVE  EndJobs'
    BY <1>1, JobNos, <1>00, <1>01
       DEF CallPrepare, Invoke, EndJobs, Ending, Working, EvenAfterError, StmtOps
  <1>2. ASSUME NEW op \in StmtOps, NEW id \in Ids, CallStatement(op, id)
        PROVE  EndJobs'
    BY <1>2, JobNos, <1>00, <1>01
       DEF CallStatement, Invoke, EndJobs, Ending, Working, EvenAfterError, StmtOps
  <1>3. ASSUME NEW id \in Ids, CallFetchMore(id)
        PROVE  EndJobs'
    BY <1>3, JobNos, <1>00, <1>01
       DEF CallFetchMore, Invoke, EndJobs, Ending, Working, EvenAfterError, StmtOps
  <1>4. ASSUME NEW op \in {"commit", "rollback", "drain"}, CallDraining(op)
        PROVE  EndJobs'
    BY <1>4, JobNos, <1>00, <1>01
       DEF CallDraining, Invoke, EndJobs, Ending, Working, EvenAfterError, StmtOps
  <1>5. CASE CallIsFinished
    BY <1>5, JobNos, <1>00, <1>01
       DEF CallIsFinished, Invoke, EndJobs, Ending, Working, EvenAfterError, StmtOps
  <1>6. CASE CallDestroy
    BY <1>6, JobNos, <1>00, <1>01
       DEF CallDestroy, NoCall, EndJobs, Ending, Working, EvenAfterError, StmtOps
  <1>7. CASE PostDropped
    BY <1>7, <1>0, <1>00, <1>01
       DEF PostDropped, AfterPost, EndJobs, Ending, Working, EvenAfterError, StmtOps
  <1>8. CASE PostAccepted
    BY <1>8, <1>0, <1>00, <1>01
       DEF PostAccepted, SlotFree, Enqueue, Sleep, EndJobs, Ending, Working, EvenAfterError, StmtOps
  <1>9. CASE PostWaited
    BY <1>9, <1>0, <1>00, <1>01
       DEF PostWaited, SlotFree, Enqueue, Sleep, EndJobs, Ending, Working, EvenAfterError, StmtOps
  <1>10. CASE NotifyWorker
    BY <1>10 DEF NotifyWorker, AfterPost, EndJobs, Ending, Working, EvenAfterError, StmtOps
  <1>11. CASE DrainFirst
    BY <1>11, <1>0, <1>00, <1>01
       DEF DrainFirst, Drain, Drained, AfterDrain1, EndJobs, Ending, Working, EvenAfterError,
           StmtOps
  <1>12. CASE DrainLast
    BY <1>12, <1>0, <1>00, <1>01
       DEF DrainLast, Drain, Drained, AfterDrain2, EndJobs, Ending, Working, EvenAfterError, StmtOps
  <1>13. CASE ReturnError
    BY <1>13 DEF ReturnError, EndJobs, Ending, Working, EvenAfterError, StmtOps
  <1>14. CASE PushTask
    BY <1>14 DEF PushTask, EndJobs, Ending, Working, EvenAfterError, StmtOps
  <1>15. CASE CommitReadError
    BY <1>15, <1>0, <1>00, <1>01
       DEF CommitReadError, EndJobs, Ending, Working, EvenAfterError, StmtOps
  <1>16. CASE CommitReturn
    BY <1>16 DEF CommitReturn, EndTransaction, EndJobs, Ending, Working, EvenAfterError, StmtOps
  <1>17. CASE ResetError
    BY <1>17 DEF ResetError, EndTransaction, EndJobs, Ending, Working, EvenAfterError, StmtOps
  <1>18. CASE SetStop
    BY <1>18 DEF SetStop, EndJobs, Ending, Working, EvenAfterError, StmtOps
  <1>19. CASE NotifyStop
    BY <1>19 DEF NotifyStop, EndJobs, Ending, Working, EvenAfterError, StmtOps
  <1>20. CASE Join
    BY <1>20 DEF Join, EndJobs, Ending, Working, EvenAfterError, StmtOps
  <1>21. CASE TakeJob
    BY <1>21, <1>0, <1>00, <1>01 DEF TakeJob, EndJobs, Ending, Working, EvenAfterError, StmtOps
  <1>22. CASE WaitForJob
    BY <1>22 DEF WaitForJob, EndJobs, Ending, Working, EvenAfterError, StmtOps
  <1>23. CASE NotifySlot
    BY <1>23 DEF NotifySlot, EndJobs, Ending, Working, EvenAfterError, StmtOps
  <1>24. CASE SkipJob
    BY <1>24 DEF SkipJob, EndJobs, Ending, Working, EvenAfterError, StmtOps
  <1>25. CASE RunStatement
    BY <1>25 DEF RunStatement, EndJobs, Ending, Working, EvenAfterError, StmtOps
  <1>26. CASE FetchRows
    BY <1>26 DEF FetchRows, EndJobs, Ending, Working, EvenAfterError, StmtOps
  <1>27. CASE NoteError
    BY <1>27 DEF NoteError, EndJobs, Ending, Working, EvenAfterError, StmtOps
  <1>28. CASE RunInternal
    BY <1>28 DEF RunInternal, EndJobs, Ending, Working, EvenAfterError, StmtOps
  <1>29. CASE FinishJob
    BY <1>29 DEF FinishJob, EndJobs, Ending, Working, EvenAfterError, StmtOps
  <1>30. CASE NotifyDone
    BY <1>30 DEF NotifyDone, EndJobs, Ending, Working, EvenAfterError, StmtOps
  <1>31. CASE CancelRead
    BY <1>31 DEF CancelRead, EndJobs, Ending, Working, EvenAfterError, StmtOps
  <1>32. CASE CancelSend
    BY <1>32 DEF CancelSend, EndJobs, Ending, Working, EvenAfterError, StmtOps
  <1>33. ASSUME NEW t \in {"caller", "worker"}, SpuriousWakeup(t)
        PROVE  EndJobs'
    BY <1>33 DEF SpuriousWakeup, EndJobs, Ending, Working, EvenAfterError, StmtOps
  <1>34. CASE UNCHANGED vars
    BY <1>34 DEF EndJobs, Ending, Working, EvenAfterError, StmtOps
  <1>. QED
    BY <1>1, <1>2, <1>3, <1>4, <1>5, <1>6, <1>7, <1>8, <1>9, <1>10, <1>11, <1>12, <1>13, <1>14,
       <1>15, <1>16, <1>17, <1>18, <1>19, <1>20, <1>21, <1>22, <1>23, <1>24, <1>25, <1>26, <1>27,
       <1>28, <1>29, <1>30, <1>31, <1>32, <1>33, <1>34
       DEF Next, CallerStarts, CallerSteps, WorkerSteps, CancelSteps, Wakeups, Halted

(* A step keeps the statements of the transaction together.                *)
LEMMA AskedJobsStep ==
  ASSUME IndInv, EndJobs, AskedJobs, [Next]_vars
  PROVE  AskedJobs'
  <1>0. /\ NewJob.op = JobOp /\ NewJob.n = call.n
        /\ JobOp \in StmtOps => call.op \in StmtOps
    BY DEF NewJob, JobOp, StmtOps
  <1>00. cpc \in {"status", "reset"} => pending = NoJob /\ wpc \notin Working
    BY DEF IndInv, QuietWhenTold, QuietPlaces, Drained, InHand
  <1>01. calls \in Nat
    BY DEF IndInv, TypeOK, CallerType
  <1> USE DEF vars, dbVars, callerVars, dataVars, workerVars, cancelVars, histVars
  <1>1. ASSUME NEW kind \in {"dml", "select"}, CallPrepare(kind)
        PROVE  AskedJobs'
    BY <1>1, JobNos, <1>01 DEF CallPrepare, Invoke, AskedJobs, Working, StmtOps
  <1>2. ASSUME NEW op \in StmtOps, NEW id \in Ids, CallStatement(op, id)
        PROVE  AskedJobs'
    BY <1>2, JobNos, <1>01 DEF CallStatement, Invoke, AskedJobs, Working, StmtOps
  <1>3. ASSUME NEW id \in Ids, CallFetchMore(id)
        PROVE  AskedJobs'
    BY <1>3, JobNos, <1>01 DEF CallFetchMore, Invoke, AskedJobs, Working, StmtOps
  <1>4. ASSUME NEW op \in {"commit", "rollback", "drain"}, CallDraining(op)
        PROVE  AskedJobs'
    BY <1>4, JobNos, <1>01 DEF CallDraining, Invoke, AskedJobs, Working, StmtOps
  <1>5. CASE CallIsFinished
    BY <1>5, JobNos, <1>01 DEF CallIsFinished, Invoke, AskedJobs, Working, StmtOps
  <1>6. CASE CallDestroy
    BY <1>6, JobNos, <1>01 DEF CallDestroy, NoCall, AskedJobs, Working, StmtOps
  <1>7. CASE PostDropped
    BY <1>7 DEF PostDropped, AfterPost, AskedJobs, Working, StmtOps
  <1>8. CASE PostAccepted
    BY <1>8, <1>0 DEF PostAccepted, SlotFree, Enqueue, Sleep, AskedJobs, Working, StmtOps
  <1>9. CASE PostWaited
    BY <1>9, <1>0 DEF PostWaited, SlotFree, Enqueue, Sleep, AskedJobs, Working, StmtOps
  <1>10. CASE NotifyWorker
    BY <1>10 DEF NotifyWorker, AfterPost, AskedJobs, Working, StmtOps
  <1>11. CASE DrainFirst
    BY <1>11 DEF DrainFirst, Drain, Drained, AfterDrain1, AskedJobs, Working, StmtOps
  <1>12. CASE DrainLast
    BY <1>12 DEF DrainLast, Drain, Drained, AfterDrain2, AskedJobs, Working, StmtOps
  <1>13. CASE ReturnError
    BY <1>13 DEF ReturnError, AskedJobs, Working, StmtOps
  <1>14. CASE PushTask
    BY <1>14 DEF PushTask, AskedJobs, Working, StmtOps
  <1>15. CASE CommitReadError
    BY <1>15 DEF CommitReadError, IndInv, CallShape, AskedJobs, Working, StmtOps
  <1>16. CASE CommitReturn
    BY <1>16, <1>00, <1>01 DEF CommitReturn, EndTransaction, AskedJobs, Working, StmtOps
  <1>17. CASE ResetError
    BY <1>17, <1>00, <1>01 DEF ResetError, EndTransaction, AskedJobs, Working, StmtOps
  <1>18. CASE SetStop
    BY <1>18 DEF SetStop, AskedJobs, Working, StmtOps
  <1>19. CASE NotifyStop
    BY <1>19 DEF NotifyStop, AskedJobs, Working, StmtOps
  <1>20. CASE Join
    BY <1>20 DEF Join, AskedJobs, Working, StmtOps
  <1>21. CASE TakeJob
    BY <1>21, <1>0 DEF TakeJob, AskedJobs, Working, StmtOps
  <1>22. CASE WaitForJob
    BY <1>22 DEF WaitForJob, AskedJobs, Working, StmtOps
  <1>23. CASE NotifySlot
    BY <1>23 DEF NotifySlot, AskedJobs, Working, StmtOps
  <1>24. CASE SkipJob
    BY <1>24 DEF SkipJob, AskedJobs, Working, StmtOps
  <1>25. CASE RunStatement
    BY <1>25 DEF RunStatement, AskedJobs, Working, StmtOps
  <1>26. CASE FetchRows
    BY <1>26 DEF FetchRows, AskedJobs, Working, StmtOps
  <1>27. CASE NoteError
    BY <1>27 DEF NoteError, AskedJobs, Working, StmtOps
  <1>28. CASE RunInternal
    BY <1>28 DEF RunInternal, AskedJobs, Working, StmtOps
  <1>29. CASE FinishJob
    BY <1>29 DEF FinishJob, AskedJobs, Working, StmtOps
  <1>30. CASE NotifyDone
    BY <1>30 DEF NotifyDone, AskedJobs, Working, StmtOps
  <1>31. CASE CancelRead
    BY <1>31 DEF CancelRead, AskedJobs, Working, StmtOps
  <1>32. CASE CancelSend
    BY <1>32 DEF CancelSend, AskedJobs, Working, StmtOps
  <1>33. ASSUME NEW t \in {"caller", "worker"}, SpuriousWakeup(t)
        PROVE  AskedJobs'
    BY <1>33 DEF SpuriousWakeup, AskedJobs, Working, StmtOps
  <1>34. CASE UNCHANGED vars
    BY <1>34 DEF AskedJobs, Working, StmtOps
  <1>. QED
    BY <1>1, <1>2, <1>3, <1>4, <1>5, <1>6, <1>7, <1>8, <1>9, <1>10, <1>11, <1>12, <1>13, <1>14,
       <1>15, <1>16, <1>17, <1>18, <1>19, <1>20, <1>21, <1>22, <1>23, <1>24, <1>25, <1>26, <1>27,
       <1>28, <1>29, <1>30, <1>31, <1>32, <1>33, <1>34
       DEF Next, CallerStarts, CallerSteps, WorkerSteps, CancelSteps, Wakeups, Halted

-----------------------------------------------------------------------------
(* When a transaction is decided.                                          *)

(* The statements asked for that have yet to reach the server.             *)
Awaiting ==
  {m \in CallNos :
    \/ pending # NoJob /\ pending.op \in StmtOps /\ pending.n = m
    \/ wpc \in {"took", "run"} /\ job.op \in StmtOps /\ job.n = m
    \/ cpc \in {"post", "slot", "crashed"} /\ call.op \in StmtOps /\ call.n = m}

(* The decision is to undo.                                                *)
Undoing == call.op = "rollback" \/ cerr # 0

TxJobs == IndInv /\ CallJobs /\ EndJobs /\ AskedJobs

(* A transaction is decided by the job of its own call alone, and nothing  *)
(* else is in hand then.                                                   *)
LEMMA DecidedAlone ==
  ASSUME TxJobs, Decided, wpc \in Working
  PROVE  wpc = "ran" /\ job.n = call.n /\ job.op \in EvenAfterError
  <1>1. Ending /\ call.n = calls
    BY DEF TxJobs, Decided, EndJobs, Ending
  <1>2. job.n \in posted /\ job.n \notin done /\ job.n <= calls /\ calls \in Nat /\ job.n \in Nat
    BY JobNos DEF TxJobs
  <1>3. call.n \notin done
    BY <1>1, <1>2 DEF TxJobs, IndInv, Fifo, InHand
  <1>4. wpc = "ran" /\ job.n = call.n
    BY <1>3 DEF Decided
  <1>5. job.op = JobOp
    BY <1>4 DEF TxJobs, CallJobs
  <1>. QED
    BY <1>1, <1>4, <1>5 DEF JobOp, EvenAfterError, Ending

(* A new call starts a new transaction when the last one is decided.       *)
LEMMA StartStep ==
  ASSUME TxJobs, CallerStarts
  PROVE  /\ cpc = "idle" /\ UNCHANGED <<conn, failed, outcome, pending, job, wpc, done>>
         /\ ~Decided' /\ (Decided => asked = {})
         /\ calls' \in {calls, calls + 1} /\ calls \in Nat
         /\ \/ asked' = asked
            \/ /\ asked' = asked \cup {calls + 1} /\ calls' = calls + 1 /\ calls + 1 \in CallNos
               /\ cpc' \in {"post", "crashed"} /\ call'.op \in StmtOps /\ call'.n = calls + 1
  <1> USE DEF dbVars, callerVars, dataVars, workerVars, cancelVars, histVars
  <1>1. cpc = "idle" /\ UNCHANGED <<conn, failed, outcome, pending, job, wpc, done>>
    BY DEF CallerStarts, CallPrepare, CallStatement, CallFetchMore, CallDraining, CallIsFinished, CallDestroy,
           Invoke
  <1>2. Decided => asked = {}
    BY <1>1 DEF TxJobs, EndJobs, Decided, Ending
  <1>3. calls \in Nat /\ calls + 1 \notin posted /\ done \subseteq posted
    BY JobNos DEF TxJobs
  <1>4. wpc = "ran" => job.n # calls + 1
    BY JobNos DEF TxJobs, Working
  <1>5. ASSUME NEW op, NEW id, NEW kind, NEW to, Invoke(op, id, kind, to)
        PROVE  ~Decided' /\ calls' = calls + 1 /\ call'.n = calls + 1 /\ call'.op = op /\ cpc' = to
    BY <1>1, <1>3, <1>4, <1>5 DEF Invoke, Decided
  <1>6. ASSUME NEW op, NEW id, CallStatement(op, id)
        PROVE  /\ ~Decided' /\ asked' = asked \cup {calls + 1} /\ calls' = calls + 1 /\ calls + 1 \in CallNos
               /\ cpc' \in {"post", "crashed"} /\ call'.op \in StmtOps /\ call'.n = calls + 1
    <2>1. PICK to \in {"post", "crashed"} : Invoke(op, id, "dml", to)
      BY <1>6 DEF CallStatement
    <2>2. calls + 1 \in CallNos
      BY <2>1, <1>3, AsyncDbAssumption DEF Invoke, CallNos
    <2>. QED
      BY <1>5, <1>6, <2>1, <2>2 DEF CallStatement
  <1>7. CASE CallDestroy
    <2>1. ~Decided'
      BY <1>7 DEF CallDestroy, NoCall, Decided
    <2>. QED
      BY <1>1, <1>2, <1>3, <1>7, <2>1 DEF CallDestroy
  <1>8. CASE \E op, id, kind, to : Invoke(op, id, kind, to) /\ asked' = asked
    BY <1>1, <1>2, <1>3, <1>5, <1>8
  <1>. QED
    <2>1. CASE \E kind \in {"dml", "select"} : CallPrepare(kind)
      BY <1>8, <2>1 DEF CallPrepare
    <2>2. CASE \E id \in Ids : CallFetchMore(id)
      BY <1>8, <2>2 DEF CallFetchMore
    <2>3. CASE \E op \in {"commit", "rollback", "drain"} : CallDraining(op)
      BY <1>8, <2>3 DEF CallDraining
    <2>4. CASE CallIsFinished
      BY <1>8, <2>4 DEF CallIsFinished
    <2>5. CASE \E op \in StmtOps, id \in Ids : CallStatement(op, id)
      BY <1>1, <1>2, <1>3, <1>6, <2>5
    <2>. QED
      BY <1>7, <2>1, <2>2, <2>3, <2>4, <2>5 DEF CallerStarts

(* The transaction is left as it is, and no statement goes missing on its  *)
(* way, unless an earlier one has failed.                                  *)
Passing ==
  /\ UNCHANGED <<conn, asked, failed, outcome, call, calls, reply>>
  /\ Decided' <=> Decided
  /\ Decided => cerr' = cerr
  /\ failed = {} => Awaiting \subseteq Awaiting'

(* So do all steps that neither start a call, nor run anything on the      *)
(* server, nor end a transaction.                                          *)
LEMMA PassingStep ==
  ASSUME TxJobs, [Next]_vars, ~CallerStarts, ~RunStatement, ~FetchRows, ~RunInternal,
         ~CommitReturn, ~ResetError
  PROVE  Passing
  <1>0. (NewJob.op = JobOp /\ NewJob.n = call.n /\ NewJob # NoJob) \/ cpc \notin {"post", "slot"}
    BY NewJobShape DEF TxJobs, IndInv, NewJob
  <1>01. failed = {} => error = 0
    BY DEF TxJobs, IndInv, FirstErrorWins
  <1>02. call.op \in StmtOps => JobOp = call.op
    BY DEF JobOp, StmtOps
  <1>03. cpc = "sticky" => ~Decided
    <2>1. cpc = "sticky" => call.n \notin posted /\ wpc \notin Working
      BY DEF TxJobs, IndInv, Handover, QuietPlaces, QuietWhenTold, InHand
    <2>. QED
      BY <2>1, JobNos DEF Decided, TxJobs, Working
  <1>04. wpc \in {"took", "run", "fetch", "note"} => ~Decided
    BY DecidedAlone DEF Working
  <1>05. /\ wpc \in {"run", "note"} /\ Ending /\ job.n = call.n => job.op \in EvenAfterError
         /\ wpc = "note" => job.op \in TaskOps
    BY DEF TxJobs, CallJobs, JobOp, EvenAfterError, Working, Ending, IndInv, JobsShape
  <1> USE DEF vars, dbVars, callerVars, dataVars, workerVars, cancelVars, histVars
  <1>1. ASSUME NEW kind \in {"dml", "select"}, CallPrepare(kind)
        PROVE  Passing
    BY <1>1 DEF CallerStarts
  <1>2. ASSUME NEW op \in StmtOps, NEW id \in Ids, CallStatement(op, id)
        PROVE  Passing
    BY <1>2 DEF CallerStarts
  <1>3. ASSUME NEW id \in Ids, CallFetchMore(id)
        PROVE  Passing
    BY <1>3 DEF CallerStarts
  <1>4. ASSUME NEW op \in {"commit", "rollback", "drain"}, CallDraining(op)
        PROVE  Passing
    BY <1>4 DEF CallerStarts
  <1>5. CASE CallIsFinished
    BY <1>5 DEF CallerStarts
  <1>6. CASE CallDestroy
    BY <1>6 DEF CallerStarts
  <1>7. CASE PostDropped
    BY <1>7, <1>01 DEF PostDropped, AfterPost, Passing, Awaiting, Decided
  <1>8. CASE PostAccepted
    BY <1>8, <1>0, <1>02 DEF PostAccepted, SlotFree, Enqueue, Sleep, Passing, Awaiting, Decided
  <1>9. CASE PostWaited
    BY <1>9, <1>0, <1>02 DEF PostWaited, SlotFree, Enqueue, Sleep, Passing, Awaiting, Decided
  <1>10. CASE NotifyWorker
    BY <1>10 DEF NotifyWorker, AfterPost, Passing, Awaiting, Decided
  <1>11. CASE DrainFirst
    BY <1>11 DEF DrainFirst, Drain, Drained, AfterDrain1, Passing, Awaiting, Decided
  <1>12. CASE DrainLast
    BY <1>12 DEF DrainLast, Drain, Drained, AfterDrain2, Passing, Awaiting, Decided
  <1>13. CASE ReturnError
    BY <1>13 DEF ReturnError, Passing, Awaiting, Decided
  <1>14. CASE PushTask
    BY <1>14 DEF PushTask, Passing, Awaiting, Decided
  <1>15. CASE CommitReadError
    BY <1>15, <1>03 DEF CommitReadError, Passing, Awaiting, Decided
  <1>16. CASE CommitReturn
    BY <1>16
  <1>17. CASE ResetError
    BY <1>17
  <1>18. CASE SetStop
    BY <1>18 DEF SetStop, Passing, Awaiting, Decided
  <1>19. CASE NotifyStop
    BY <1>19 DEF NotifyStop, Passing, Awaiting, Decided
  <1>20. CASE Join
    BY <1>20 DEF Join, Passing, Awaiting, Decided
  <1>21. CASE TakeJob
    BY <1>21 DEF TakeJob, Passing, Awaiting, Decided
  <1>22. CASE WaitForJob
    BY <1>22 DEF WaitForJob, Passing, Awaiting, Decided
  <1>23. CASE NotifySlot
    BY <1>23, <1>04 DEF NotifySlot, Passing, Awaiting, Decided
  <1>24. CASE SkipJob
    BY <1>24, <1>01, <1>04, <1>05
       DEF SkipJob, EvenAfterError, Ending, TaskOps, StmtOps, Passing, Awaiting, Decided
  <1>25. CASE RunStatement
    BY <1>25
  <1>26. CASE FetchRows
    BY <1>26
  <1>27. CASE NoteError
    BY <1>27, <1>01, <1>04, <1>05
       DEF NoteError, EvenAfterError, Ending, TaskOps, StmtOps, Passing, Awaiting, Decided
  <1>28. CASE RunInternal
    BY <1>28
  <1>29. CASE FinishJob
    BY <1>29 DEF FinishJob, Passing, Awaiting, Decided
  <1>30. CASE NotifyDone
    BY <1>30 DEF NotifyDone, Passing, Awaiting, Decided
  <1>31. CASE CancelRead
    BY <1>31 DEF CancelRead, Passing, Awaiting, Decided
  <1>32. CASE CancelSend
    BY <1>32 DEF CancelSend, Passing, Awaiting, Decided
  <1>33. ASSUME NEW t \in {"caller", "worker"}, SpuriousWakeup(t)
        PROVE  Passing
    BY <1>33 DEF SpuriousWakeup, Passing, Awaiting, Decided
  <1>34. CASE UNCHANGED vars
    BY <1>34 DEF Passing, Awaiting, Decided
  <1>. QED
    BY <1>1, <1>2, <1>3, <1>4, <1>5, <1>6, <1>7, <1>8, <1>9, <1>10, <1>11, <1>12, <1>13, <1>14,
       <1>15, <1>16, <1>17, <1>18, <1>19, <1>20, <1>21, <1>22, <1>23, <1>24, <1>25, <1>26, <1>27,
       <1>28, <1>29, <1>30, <1>31, <1>32, <1>33, <1>34
       DEF Next, CallerStarts, CallerSteps, WorkerSteps, CancelSteps, Wakeups, Halted

-----------------------------------------------------------------------------
(* What the server holds of the transaction.                               *)

(* The open transaction holds statements of this one alone, and a decided  *)
(* one holds nothing.                                                      *)
TxHeld ==
  /\ Sound(conn)
  /\ conn.durable \subseteq 1 .. calls
  /\ conn.work \subseteq asked
  /\ Decided => conn.work = {} /\ conn.tx # "aborted"
  /\ outcome.stmts \subseteq 1 .. calls /\ outcome.stmts \cap asked = {}

(* A transaction is aborted only after a failed statement; without one,    *)
(* every statement asked for has its effect or is on its way, and a commit *)
(* that succeeded has made them durable.                                   *)
TxKept ==
  /\ conn.tx = "aborted" => failed # {}
  /\ ~Decided /\ failed = {} /\ conn.tx \in {"open", "none"} =>
        asked \subseteq conn.work \cup conn.durable \cup Awaiting
  /\ Decided /\ ~Undoing /\ reply => asked \subseteq conn.durable
  /\ CommitHonest

(* Nothing of a transaction is durable before the decision, nor after one  *)
(* to undo it.                                                             *)
TxUndone ==
  /\ conn.tx # "none"
  /\ ~Decided \/ Undoing => asked \cap conn.durable = {}
  /\ FailedTxUndone

(* A statement is run while the transaction is undecided.                  *)
LEMMA RunningStatement ==
  ASSUME TxJobs, RunStatement
  PROVE  /\ UNCHANGED <<asked, outcome, call, calls, cerr, reply, pending, cpc, job, error>> /\ ~Decided /\ ~Decided'
         /\ wpc = "run" /\ wpc' \in {"note", "fetch", "ran"} /\ job.n \in asked /\ job.op \in StmtOps
         /\ job.n \in CallNos
         /\ conn \in Connections(CallNos)
         /\ \E a \in StatementAnswers(conn, job.n) :
              conn' = a.conn /\ failed' = IF a.ok THEN failed ELSE failed \cup {job.n}
  <1>1. /\ UNCHANGED <<asked, outcome, call, calls, cerr, reply, pending, cpc, job, error, done>>
        /\ wpc = "run" /\ wpc' \in {"note", "fetch", "ran"} /\ job.op \in StmtOps
        /\ \E a \in StatementAnswers(conn, job.n) :
              conn' = a.conn /\ failed' = IF a.ok THEN failed ELSE failed \cup {job.n}
    BY DEF RunStatement, dbVars, callerVars, cancelVars
  <1>2. job.n \in asked /\ job.n \in CallNos /\ conn \in Connections(CallNos)
    BY <1>1 DEF TxJobs, AskedJobs, Working, IndInv, JobsShape, JobShape, TypeOK, WorkerType
  <1>3. ~Decided
    BY <1>1, DecidedAlone DEF Working
  <1>4. job.n = call.n => job.op = JobOp
    BY <1>1 DEF TxJobs, CallJobs, Working
  <1>5. ~Decided'
    BY <1>1, <1>3, <1>4 DEF Decided, JobOp, StmtOps
  <1>. QED
    BY <1>1, <1>2, <1>3, <1>5

(* prepare() on the worker decides nothing.                                *)
LEMMA RunningPrepare ==
  ASSUME TxJobs, RunInternal, job.op = "prepare"
  PROVE  /\ UNCHANGED <<asked, failed, outcome, call, calls, cerr, pending, cpc, job>> /\ ~Decided /\ ~Decided'
         /\ wpc = "run" /\ wpc' = "ran" /\ conn \in Connections(CallNos)
         /\ \E a \in PrepareAnswers(conn) : conn' = a.conn
  <1>1. /\ UNCHANGED <<asked, failed, outcome, call, calls, cerr, pending, cpc, job, done>>
        /\ wpc = "run" /\ wpc' = "ran"
        /\ \E a \in PrepareAnswers(conn) : conn' = a.conn
    BY DEF RunInternal, ConnAnswers, dbVars, callerVars, histVars
  <1>2. conn \in Connections(CallNos)
    BY DEF TxJobs, IndInv, TypeOK, WorkerType
  <1>3. ~Decided
    BY <1>1, DecidedAlone DEF Working
  <1>4. job.n = call.n => job.op = JobOp
    BY <1>1 DEF TxJobs, CallJobs, Working
  <1>5. ~Decided'
    BY <1>1, <1>3, <1>4 DEF Decided, JobOp
  <1>. QED
    BY <1>1, <1>2, <1>3, <1>5

(* COMMIT or ROLLBACK on the worker decides the transaction, with every    *)
(* statement of it run before; COMMIT is sent only when none has failed.   *)
LEMMA RunningEnd ==
  ASSUME TxJobs, RunInternal, job.op # "prepare"
  PROVE  /\ UNCHANGED <<asked, failed, outcome, call, calls, cerr>> /\ ~Decided /\ Decided'
         /\ Awaiting = {} /\ conn \in Connections(CallNos)
         /\ \/ Undoing /\ job.op = "rollback" /\ \E a \in RollbackAnswers(conn) : conn' = a.conn /\ reply' = a.ok
            \/ /\ ~Undoing /\ job.op = "commit" /\ failed = {}
               /\ \E a \in CommitAnswers(conn) : conn' = a.conn /\ reply' = a.ok
  <1>1. /\ UNCHANGED <<asked, failed, outcome, call, calls, cerr, job>>
        /\ wpc = "run" /\ wpc' = "ran" /\ job.op \in {"commit", "rollback"}
        /\ \E a \in ConnAnswers : conn' = a.conn /\ reply' = a.ok
    BY DEF RunInternal, dbVars, callerVars, histVars
  <1>2. conn \in Connections(CallNos)
    BY DEF TxJobs, IndInv, TypeOK, WorkerType
  <1>3. ~Decided
    BY <1>1, DecidedAlone DEF Working
  <1>4. Ending /\ job.n = call.n /\ job.op = JobOp
    BY <1>1 DEF TxJobs, EndJobs, CallJobs, EvenAfterError, Working
  <1>5. Decided'
    BY <1>1, <1>4 DEF Decided, Ending
  <1>6. ~told
    BY <1>1 DEF TxJobs, IndInv, QuietWhenTold, InHand, Working
  <1>7. call.n \in posted
    BY <1>1, <1>4, JobNos DEF TxJobs, Working
  <1>8. cpc \in {"notify", "drain2"}
    <2>1. cpc # "drain1"
      BY <1>4, <1>7 DEF TxJobs, IndInv, Handover, Ending
    <2>. QED
      BY <1>4, <1>6, <2>1 DEF TxJobs, EndJobs
  <1>9. pending = NoJob
    BY <1>1, <1>4, <1>8, JobNos DEF TxJobs, EndJobs, Working
  <1>10. Awaiting = {}
    BY <1>1, <1>8, <1>9 DEF Awaiting, StmtOps
  <1>11. CASE Undoing
    <2>1. job.op = "rollback"
      BY <1>4, <1>11 DEF Undoing, JobOp, Ending
    <2>. QED
      BY <1>1, <1>2, <1>3, <1>5, <1>10, <1>11, <2>1 DEF ConnAnswers
  <1>12. CASE ~Undoing
    <2>1. job.op = "commit" /\ call.op = "commit" /\ cerr = 0
      BY <1>4, <1>12 DEF Undoing, JobOp, Ending
    <2>2. error = 0
      BY <1>8, <2>1 DEF TxJobs, IndInv, CommitAlone
    <2>3. failed = {}
      BY <1>1, <2>2 DEF TxJobs, IndInv, FirstErrorWins
    <2>. QED
      BY <1>1, <1>2, <1>3, <1>5, <1>10, <1>12, <2>1, <2>3 DEF ConnAnswers
  <1>. QED
    BY <1>11, <1>12

(* A fetch decides nothing and has no effect on the server.                *)
LEMMA FetchingRows ==
  ASSUME TxJobs, FetchRows
  PROVE  /\ UNCHANGED <<conn, asked, outcome, call, calls, cerr, pending, cpc, job>> /\ ~Decided /\ ~Decided'
         /\ (failed' = failed \/ failed' = failed \cup {job.n}) /\ Awaiting \subseteq Awaiting'
  <1>1. /\ UNCHANGED <<conn, asked, outcome, call, calls, cerr, pending, cpc, job, done>>
        /\ wpc \in {"fetch", "run"} /\ wpc' \in {"ran", "note"} /\ (failed' = failed \/ failed' = failed \cup {job.n})
        /\ wpc = "run" => job.op = "fetch_more"
    BY DEF FetchRows, dbVars, callerVars, cancelVars
  <1>2. job.op \in TaskOps
    BY <1>1 DEF TxJobs, IndInv, JobsShape, TaskOps
  <1>3. ~Decided
    BY <1>1, DecidedAlone DEF Working
  <1>4. job.n = call.n => job.op = JobOp
    BY <1>1 DEF TxJobs, CallJobs, Working
  <1>5. ~Decided'
    BY <1>1, <1>2, <1>3, <1>4 DEF Decided, JobOp, TaskOps, StmtOps
  <1>6. Awaiting \subseteq Awaiting'
    BY <1>1 DEF Awaiting, StmtOps
  <1>. QED
    BY <1>1, <1>3, <1>5, <1>6

(* commit() and rollback() report a decided transaction.                   *)
LEMMA Reporting ==
  ASSUME TxJobs, CommitReturn \/ ResetError
  PROVE  /\ UNCHANGED <<conn, call, calls, cerr, reply>> /\ Decided /\ Decided'
         /\ asked' = {} /\ failed' = {} /\ outcome'.stmts = asked /\ outcome'.op = call.op
         /\ \/ call.op = "commit" /\ cerr = 0 /\ outcome'.ok = reply /\ outcome'.err = 0 /\ ~Undoing
            \/ /\ Undoing /\ outcome'.err = cerr /\ (call.op = "commit" => ~outcome'.ok)
  <1>1. /\ UNCHANGED <<conn, call, calls, cerr, reply, posted, done, wpc, job>> /\ cpc \in {"status", "reset"}
        /\ asked' = {} /\ failed' = {} /\ outcome'.stmts = asked /\ outcome'.op = call.op
        /\ cpc = "status" => outcome'.ok = reply /\ outcome'.err = 0
        /\ cpc = "reset" => outcome'.err = cerr /\ (call.op = "commit" => ~outcome'.ok)
    <2>1. CASE CommitReturn
      <3>1. outcome' = [op |-> call.op, ok |-> reply, err |-> 0, stmts |-> asked]
        BY <2>1 DEF CommitReturn, EndTransaction
      <3>2. outcome'.op = call.op /\ outcome'.ok = reply /\ outcome'.err = 0 /\ outcome'.stmts = asked
        BY <3>1
      <3>. QED
        BY <2>1, <3>2 DEF CommitReturn, EndTransaction, dbVars, dataVars, workerVars, cancelVars
    <2>2. CASE ResetError
      <3>1. outcome' = [op |-> call.op, ok |-> call.op = "rollback" /\ reply, err |-> cerr, stmts |-> asked]
        BY <2>2 DEF ResetError, EndTransaction
      <3>2. outcome'.op = call.op /\ outcome'.err = cerr /\ outcome'.stmts = asked
        BY <3>1
      <3>3. call.op = "commit" => ~(call.op = "rollback" /\ reply)
        OBVIOUS
      <3>4. outcome'.ok = (call.op = "rollback" /\ reply)
        BY <3>1, Zenon
      <3>5. call.op = "commit" => ~outcome'.ok
        BY <3>3, <3>4
      <3>. QED
        BY <2>2, <3>2, <3>5 DEF ResetError, EndTransaction, dbVars, dataVars, workerVars, cancelVars
    <2>. QED
      BY <2>1, <2>2
  <1>2. Ending /\ call.n \in posted /\ told
    BY <1>1 DEF TxJobs, IndInv, CallShape, EndJobs, Ending, QuietPlaces
  <1>3. posted = done /\ wpc \notin Working
    BY <1>2 DEF TxJobs, IndInv, QuietWhenTold, Drained, Fifo, Queued, InHand
  <1>4. Decided /\ Decided'
    BY <1>1, <1>2, <1>3 DEF Decided, Ending
  <1>5. cpc = "status" => call.op = "commit" /\ cerr = 0
    BY DEF TxJobs, IndInv, CallShape, CommitAlone
  <1>6. cpc = "reset" => Undoing
    BY <1>2 DEF TxJobs, EndJobs, Undoing
  <1>. QED
    BY <1>1, <1>4, <1>5, <1>6 DEF Undoing

(* A step keeps what the server holds.                                     *)
LEMMA TxHeldStep ==
  ASSUME TxJobs, TxHeld, [Next]_vars
  PROVE  TxHeld'
  <1>0. calls \in Nat /\ asked \subseteq 1 .. calls
    BY JobNos DEF TxJobs, AskedJobs
  <1>1. CASE CallerStarts
    <2>1. /\ UNCHANGED <<conn, outcome>> /\ ~Decided' /\ calls' \in {calls, calls + 1}
          /\ (asked' = asked \/ (asked' = asked \cup {calls + 1} /\ calls' = calls + 1))
      BY <1>1, StartStep
    <2>2. 1 .. calls \subseteq 1 .. calls' /\ calls + 1 \notin 1 .. calls
      BY <1>0, <2>1
    <2>. QED
      BY <2>1, <2>2 DEF TxHeld
  <1>2. CASE RunStatement
    <2>1. PICK a \in StatementAnswers(conn, job.n) : conn' = a.conn
      BY <1>2, RunningStatement
    <2>2. /\ UNCHANGED <<asked, outcome, calls>> /\ ~Decided' /\ job.n \in asked /\ conn \in Connections(CallNos)
      BY <1>2, RunningStatement
    <2>3. \/ Is(conn', "open", conn.work \cup {job.n}, conn.durable)
          \/ conn.tx = "none" /\ Is(conn', "none", conn.work, conn.durable \cup {job.n})
          \/ Backend = "psql" /\ Is(conn', "aborted", conn.work, conn.durable)
          \/ Is(conn', conn.tx, conn.work, conn.durable)
          \/ Is(conn', "lost", {}, conn.durable)
      BY <2>1, <2>2, StatementOutcome
    <2>. QED
      BY <1>0, <2>2, <2>3, DbTxAssumption DEF TxHeld, Sound, Is
  <1>3. CASE RunInternal /\ job.op = "prepare"
    <2>1. PICK a \in PrepareAnswers(conn) : conn' = a.conn
      BY <1>3, RunningPrepare
    <2>2. /\ UNCHANGED <<asked, outcome, calls>> /\ ~Decided' /\ conn \in Connections(CallNos)
      BY <1>3, RunningPrepare
    <2>3. \/ Backend = "psql" /\ Is(conn', "aborted", conn.work, conn.durable)
          \/ Is(conn', conn.tx, conn.work, conn.durable)
          \/ Is(conn', "lost", {}, conn.durable)
      BY <2>1, <2>2, PrepareOutcome
    <2>. QED
      BY <2>2, <2>3, DbTxAssumption DEF TxHeld, Sound, Is
  <1>4. CASE RunInternal /\ job.op # "prepare"
    <2>1. /\ UNCHANGED <<asked, outcome, calls>> /\ conn \in Connections(CallNos)
          /\ (\E a \in RollbackAnswers(conn) : conn' = a.conn) \/ \E a \in CommitAnswers(conn) : conn' = a.conn
      BY <1>4, RunningEnd
    <2>2. Sound(conn)
      BY DEF TxHeld
    <2>3. \E tx \in {"open", "none", "lost"}, d \in {conn.durable, conn.durable \cup conn.work} :
            Is(conn', tx, {}, d) /\ (tx = "none" => Backend = "psql")
      <3>1. ASSUME NEW a \in RollbackAnswers(conn), conn' = a.conn
            PROVE  \E tx \in {"open", "lost"} : Is(conn', tx, {}, conn.durable)
        BY <2>1, <2>2, <3>1, RollbackOutcome
      <3>2. ASSUME NEW a \in CommitAnswers(conn), conn' = a.conn
            PROVE  \E tx \in {"open", "none", "lost"}, d \in {conn.durable, conn.durable \cup conn.work} :
                     Is(conn', tx, {}, d) /\ (tx = "none" => Backend = "psql")
        <4>1. \/ Is(conn', "open", {}, conn.durable \cup conn.work)
              \/ Is(conn', "open", {}, conn.durable)
              \/ Is(conn', IF Backend = "psql" THEN "none" ELSE "open", {}, conn.durable)
              \/ Is(conn', "lost", {}, conn.durable)
              \/ Is(conn', "lost", {}, conn.durable \cup conn.work)
          BY <2>1, <2>2, <3>2, CommitOutcome
        <4>. QED
          BY <4>1
      <3>. QED
        BY <2>1, <3>1, <3>2
    <2>. QED
      BY <1>0, <2>1, <2>3, DbTxAssumption DEF TxHeld, Sound, Is
  <1>5. CASE FetchRows
    BY <1>5, FetchingRows DEF TxHeld
  <1>6. CASE CommitReturn \/ ResetError
    <2>1. /\ UNCHANGED <<conn, calls>> /\ Decided /\ asked' = {} /\ outcome'.stmts = asked
      BY <1>6, Reporting
    <2>. QED
      BY <1>0, <2>1 DEF TxHeld
  <1>7. CASE /\ ~CallerStarts /\ ~RunStatement /\ ~FetchRows /\ ~RunInternal
             /\ ~CommitReturn /\ ~ResetError
    BY <1>7, PassingStep DEF Passing, TxHeld
  <1>. QED
    BY <1>1, <1>2, <1>3, <1>4, <1>5, <1>6, <1>7

(* A step keeps the statements of a transaction, where a failed prepare()  *)
(* does not abort it.                                                      *)
LEMMA TxKeptStep ==
  ASSUME Backend = "psql" => ~PrepareMayFail, TxJobs, TxHeld, TxKept, [Next]_vars
  PROVE  TxKept'
  <1>0. CommitHonest /\ \A m \in Awaiting : m \in CallNos
    BY DEF TxKept, Awaiting
  <1>1. CASE CallerStarts
    <2>1. /\ UNCHANGED <<conn, failed, outcome, pending, job, wpc>> /\ ~Decided' /\ cpc = "idle" /\ (Decided => asked = {})
          /\ \/ asked' = asked
             \/ /\ asked' = asked \cup {calls + 1} /\ calls + 1 \in CallNos
                /\ cpc' \in {"post", "crashed"} /\ call'.op \in StmtOps /\ call'.n = calls + 1
      BY <1>1, StartStep
    <2>2. Awaiting \subseteq Awaiting' /\ asked' \subseteq asked \cup Awaiting'
      BY <2>1 DEF Awaiting
    <2>. QED
      BY <2>1, <2>2 DEF TxKept, CommitHonest
  <1>2. CASE RunStatement
    <2>1. PICK a \in StatementAnswers(conn, job.n) :
            conn' = a.conn /\ failed' = IF a.ok THEN failed ELSE failed \cup {job.n}
      BY <1>2, RunningStatement
    <2>2. /\ UNCHANGED <<asked, outcome, pending, cpc, call, job>> /\ ~Decided /\ ~Decided' /\ conn \in Connections(CallNos)
          /\ wpc = "run" /\ wpc' \in {"note", "fetch", "ran"}
      BY <1>2, RunningStatement
    <2>3. Awaiting \subseteq Awaiting' \cup {job.n}
      BY <2>2 DEF Awaiting
    <2>4. CASE a.ok
      <3>1. \/ conn.tx = "open" /\ Is(conn', "open", conn.work \cup {job.n}, conn.durable)
            \/ conn.tx = "none" /\ Is(conn', "none", conn.work, conn.durable \cup {job.n})
        BY <2>1, <2>2, <2>4, StatementOutcome
      <3>. QED
        BY <1>0, <2>1, <2>2, <2>3, <2>4, <3>1 DEF TxKept, CommitHonest, Is
    <2>5. CASE ~a.ok
      <3>1. failed' # {}
        BY <2>1, <2>5
      <3>2. conn'.durable = conn.durable
        BY <2>1, <2>2, <2>5, StatementOutcome DEF Is
      <3>. QED
        BY <1>0, <2>2, <3>1, <3>2 DEF TxKept, CommitHonest
    <2>. QED
      BY <2>4, <2>5
  <1>3. CASE RunInternal /\ job.op = "prepare"
    <2>1. PICK a \in PrepareAnswers(conn) : conn' = a.conn
      BY <1>3, RunningPrepare
    <2>2. /\ UNCHANGED <<asked, failed, outcome, pending, cpc, call, job>> /\ ~Decided /\ ~Decided'
          /\ wpc = "run" /\ wpc' = "ran" /\ conn \in Connections(CallNos)
      BY <1>3, RunningPrepare
    <2>3. Awaiting \subseteq Awaiting'
      BY <1>3, <2>2 DEF Awaiting, StmtOps
    <2>4. Is(conn', conn.tx, conn.work, conn.durable) \/ Is(conn', "lost", {}, conn.durable)
      BY <2>1, <2>2, PrepareOutcome
    <2>. QED
      BY <1>0, <2>2, <2>3, <2>4 DEF TxKept, CommitHonest, Is
  <1>4. CASE RunInternal /\ job.op # "prepare"
    <2>1. /\ UNCHANGED <<asked, failed, outcome, call, cerr>> /\ ~Decided /\ Decided' /\ Awaiting = {}
          /\ conn \in Connections(CallNos) /\ (Undoing' <=> Undoing)
      BY <1>4, RunningEnd DEF Undoing
    <2>2. Sound(conn)
      BY DEF TxHeld
    <2>3. CASE Undoing
      <3>1. PICK a \in RollbackAnswers(conn) : conn' = a.conn
        BY <1>4, <2>3, RunningEnd
      <3>2. conn'.tx # "aborted" /\ conn'.durable = conn.durable
        BY <2>1, <2>2, <3>1, RollbackOutcome DEF Is
      <3>. QED
        BY <1>0, <2>1, <2>3, <3>2 DEF TxKept, CommitHonest
    <2>4. CASE ~Undoing
      <3>1. failed = {} /\ \E a \in CommitAnswers(conn) : conn' = a.conn /\ reply' = a.ok
        BY <1>4, <2>4, RunningEnd
      <3>2. PICK a \in CommitAnswers(conn) : conn' = a.conn /\ reply' = a.ok
        BY <3>1
      <3>3. conn.tx # "aborted"
        BY <3>1 DEF TxKept
      <3>4. conn.durable \subseteq conn'.durable /\ conn'.tx # "aborted"
        BY <2>1, <2>2, <3>2, CommitOutcome DEF Is
      <3>5. ASSUME a.ok PROVE asked \subseteq conn'.durable
        <4>1. \/ conn.tx = "open" /\ Is(conn', "open", {}, conn.durable \cup conn.work)
              \/ conn.tx = "none" /\ Is(conn', "open", {}, conn.durable)
          BY <2>1, <2>2, <3>2, <3>3, <3>5, CommitOutcome
        <4>2. asked \subseteq conn.work \cup conn.durable
          BY <2>1, <3>1, <4>1 DEF TxKept
        <4>3. conn.tx = "none" => conn.work = {}
          BY <2>2 DEF Sound
        <4>. QED
          BY <4>1, <4>2, <4>3 DEF Is
      <3>6. reply' => asked \subseteq conn'.durable
        BY <3>2, <3>5
      <3>. QED
        BY <1>0, <2>1, <3>4, <3>6 DEF TxKept, CommitHonest
    <2>. QED
      BY <2>3, <2>4
  <1>5. CASE FetchRows
    <2>1. /\ UNCHANGED <<conn, asked, outcome>> /\ ~Decided /\ ~Decided'
          /\ (failed' = failed \/ failed' = failed \cup {job.n}) /\ Awaiting \subseteq Awaiting'
      BY <1>5, FetchingRows
    <2>. QED
      BY <2>1 DEF TxKept, CommitHonest
  <1>6. CASE CommitReturn \/ ResetError
    <2>1. /\ UNCHANGED conn /\ Decided /\ Decided' /\ asked' = {} /\ outcome'.stmts = asked /\ outcome'.op = call.op
          /\ \/ call.op = "commit" /\ cerr = 0 /\ outcome'.ok = reply /\ ~Undoing
             \/ Undoing /\ (call.op = "commit" => ~outcome'.ok)
      BY <1>6, Reporting
    <2>2. conn.tx # "aborted"
      BY <2>1 DEF TxHeld
    <2>3. CommitHonest'
      BY <2>1 DEF TxKept, CommitHonest
    <2>. QED
      BY <2>1, <2>2, <2>3 DEF TxKept
  <1>7. CASE /\ ~CallerStarts /\ ~RunStatement /\ ~FetchRows /\ ~RunInternal
             /\ ~CommitReturn /\ ~ResetError
    <2>1. /\ UNCHANGED <<conn, asked, failed, outcome, call, reply>> /\ (Decided' <=> Decided)
          /\ (Decided => cerr' = cerr) /\ (failed = {} => Awaiting \subseteq Awaiting')
      BY <1>7, PassingStep DEF Passing
    <2>2. Decided => (Undoing' <=> Undoing)
      BY <2>1 DEF Undoing
    <2>. QED
      BY <2>1, <2>2 DEF TxKept, CommitHonest
  <1>. QED
    BY <1>1, <1>2, <1>3, <1>4, <1>5, <1>6, <1>7

(* A step makes nothing durable of a transaction that is undone, where a   *)
(* refused COMMIT does not end PostgreSQL's transaction block.             *)
LEMMA TxUndoneStep ==
  ASSUME Backend = "psql" => ~CommitMayFail, TxJobs, TxHeld, TxUndone, [Next]_vars
  PROVE  TxUndone'
  <1>0. calls \in Nat /\ FailedTxUndone
    BY JobNos DEF TxJobs, TxUndone
  <1>1. CASE CallerStarts
    <2>1. /\ UNCHANGED <<conn, outcome>> /\ (Decided => asked = {})
          /\ (asked' = asked \/ asked' = asked \cup {calls + 1})
      BY <1>1, StartStep
    <2>2. calls + 1 \notin conn.durable
      BY <1>0 DEF TxHeld
    <2>. QED
      BY <2>1, <2>2 DEF TxUndone, FailedTxUndone
  <1>2. CASE RunStatement
    <2>1. PICK a \in StatementAnswers(conn, job.n) : conn' = a.conn
      BY <1>2, RunningStatement
    <2>2. UNCHANGED <<asked, outcome>> /\ ~Decided /\ conn \in Connections(CallNos)
      BY <1>2, RunningStatement
    <2>3. conn'.tx # "none" /\ conn'.durable = conn.durable
      BY <2>1, <2>2, StatementOutcome DEF TxUndone, Is
    <2>. QED
      BY <2>2, <2>3 DEF TxUndone, FailedTxUndone
  <1>3. CASE RunInternal /\ job.op = "prepare"
    <2>1. PICK a \in PrepareAnswers(conn) : conn' = a.conn
      BY <1>3, RunningPrepare
    <2>2. UNCHANGED <<asked, outcome>> /\ ~Decided /\ conn \in Connections(CallNos)
      BY <1>3, RunningPrepare
    <2>3. conn'.tx # "none" /\ conn'.durable = conn.durable
      BY <2>1, <2>2, PrepareOutcome DEF TxUndone, Is
    <2>. QED
      BY <2>2, <2>3 DEF TxUndone, FailedTxUndone
  <1>4. CASE RunInternal /\ job.op # "prepare"
    <2>1. /\ UNCHANGED <<asked, outcome>> /\ ~Decided /\ Decided'
          /\ conn \in Connections(CallNos) /\ (Undoing' <=> Undoing)
      BY <1>4, RunningEnd DEF Undoing
    <2>2. Sound(conn) /\ conn.work \subseteq asked /\ outcome.stmts \cap asked = {}
      BY DEF TxHeld
    <2>3. CASE Undoing
      <3>1. PICK a \in RollbackAnswers(conn) : conn' = a.conn
        BY <1>4, <2>3, RunningEnd
      <3>2. conn'.tx # "none" /\ conn'.durable = conn.durable
        BY <2>1, <2>2, <3>1, RollbackOutcome DEF Is
      <3>. QED
        BY <2>1, <3>2 DEF TxUndone, FailedTxUndone
    <2>4. CASE ~Undoing
      <3>1. PICK a \in CommitAnswers(conn) : conn' = a.conn
        BY <1>4, <2>4, RunningEnd
      <3>2. conn'.tx # "none" /\ conn'.durable \subseteq conn.durable \cup conn.work
        BY <2>1, <2>2, <3>1, CommitOutcome DEF Is
      <3>3. conn'.durable \subseteq conn.durable \cup asked
        BY <2>2, <3>2
      <3>. QED
        BY <2>1, <2>2, <2>4, <3>2, <3>3 DEF TxUndone, FailedTxUndone
    <2>. QED
      BY <2>3, <2>4
  <1>5. CASE FetchRows
    <2>1. UNCHANGED <<conn, asked, outcome>> /\ ~Decided /\ ~Decided'
      BY <1>5, FetchingRows
    <2>. QED
      BY <2>1 DEF TxUndone, FailedTxUndone
  <1>6. CASE CommitReturn \/ ResetError
    <2>1. /\ UNCHANGED conn /\ asked' = {} /\ outcome'.stmts = asked /\ outcome'.op = call.op
          /\ \/ call.op = "commit" /\ outcome'.err = 0
             \/ Undoing
      BY <1>6, Reporting
    <2>2. FailedTxUndone'
      BY <2>1 DEF TxUndone, FailedTxUndone
    <2>. QED
      BY <2>1, <2>2 DEF TxUndone
  <1>7. CASE /\ ~CallerStarts /\ ~RunStatement /\ ~FetchRows /\ ~RunInternal
             /\ ~CommitReturn /\ ~ResetError
    <2>1. UNCHANGED <<conn, asked, outcome, call>> /\ (Decided' <=> Decided) /\ (Decided => cerr' = cerr)
      BY <1>7, PassingStep DEF Passing
    <2>2. Decided => (Undoing' <=> Undoing)
      BY <2>1 DEF Undoing
    <2>. QED
      BY <2>1, <2>2 DEF TxUndone, FailedTxUndone
  <1>. QED
    BY <1>1, <1>2, <1>3, <1>4, <1>5, <1>6, <1>7

(* Where no transaction has begun, nothing is held.                        *)
LEMMA TxInit ==
  ASSUME Init
  PROVE  TxJobs /\ TxHeld /\ TxKept /\ TxUndone
  <1> USE DEF Init
  <1>1. IndInv
    BY InitIndInv
  <1>2. CallJobs /\ EndJobs /\ AskedJobs
    BY DEF CallJobs, EndJobs, AskedJobs, Ending, NoCall, Working, StmtOps
  <1>3. conn.tx = "open" /\ conn.work = {} /\ conn.durable = {}
    BY DEF Connected
  <1>4. outcome.stmts = {} /\ outcome.op = "none"
    OBVIOUS
  <1>5. ~Decided
    BY DEF Decided, NoCall
  <1>. QED
    BY <1>1, <1>2, <1>3, <1>4, <1>5 DEF TxJobs, TxHeld, TxKept, TxUndone, Sound, CommitHonest, FailedTxUndone

(* The calls, their jobs and what the server holds of them stay together.  *)
LEMMA TxJobsStep == ASSUME TxJobs, [Next]_vars PROVE TxJobs'
  BY IndInvStep, CallJobsStep, EndJobsStep, AskedJobsStep DEF TxJobs

-----------------------------------------------------------------------------
(* execute_sync()                                                          *)

(* execute_sync() posts its job unless an error is set, waits for it, and  *)
(* without an error the job has run the statement.                         *)
SyncJobs ==
  call.op = "execute_sync" =>
    /\ cpc \in {"notify", "drain2", "error"} /\ error = 0 => call.n \in posted
    /\ cpc = "error" => told
    /\ error = 0 /\ (call.n \in done \/ (wpc \in {"fetch", "ran"} /\ job.n = call.n)) => ranWith[call.n] = call.n

(* execute() gets the row of its own call.                                 *)
LEMMA OwnRow ==
  ASSUME TypeOK, JobsShape, RunStatement
  PROVE  job.n \in CallNos /\ ranWith' = [ranWith EXCEPT ![job.n] = job.n]
  <1>1. job.n \in CallNos /\ job.snap = job.n /\ job.id \in DOMAIN tasks
    BY DEF RunStatement, JobsShape, JobShape, Working, TaskOps
  <1>2. job.id \in Ids
    BY <1>1, TasksDomain
  <1>3. qparam'[job.id] = job.n
    BY <1>1, <1>2 DEF RunStatement, RestoredRow, TypeOK, DataType
  <1>. QED
    BY <1>1, <1>3 DEF RunStatement

(* A step keeps execute_sync() to its word.                                *)
LEMMA SyncJobsStep ==
  ASSUME IndInv, CallJobs, SyncJobs, [Next]_vars
  PROVE  SyncJobs'
  <1>0. /\ calls + 1 \notin posted /\ done \subseteq posted
        /\ wpc \in Working => job.n \in posted
    BY JobNos
  <1>01. wpc \in Working /\ job.n = call.n /\ call.op = "execute_sync" => job.op = "execute_sync"
    BY DEF CallJobs, JobOp
  <1>02. call.op = "execute_sync" => cpc # "reset" /\ JobOp = "execute_sync"
    BY DEF IndInv, CallShape, JobOp
  <1> USE DEF vars, dbVars, callerVars, dataVars, workerVars, cancelVars, histVars
  <1>1. ASSUME NEW kind \in {"dml", "select"}, CallPrepare(kind)
        PROVE  SyncJobs'
    BY <1>1, <1>0 DEF CallPrepare, Invoke, Working, SyncJobs
  <1>2. ASSUME NEW op \in StmtOps, NEW id \in Ids, CallStatement(op, id)
        PROVE  SyncJobs'
    BY <1>2, <1>0 DEF CallStatement, Invoke, Working, SyncJobs
  <1>3. ASSUME NEW id \in Ids, CallFetchMore(id)
        PROVE  SyncJobs'
    BY <1>3, <1>0 DEF CallFetchMore, Invoke, Working, SyncJobs
  <1>4. ASSUME NEW op \in {"commit", "rollback", "drain"}, CallDraining(op)
        PROVE  SyncJobs'
    BY <1>4, <1>0 DEF CallDraining, Invoke, Working, SyncJobs
  <1>5. CASE CallIsFinished
    BY <1>5, <1>0 DEF CallIsFinished, Invoke, Working, SyncJobs
  <1>6. CASE CallDestroy
    BY <1>6, <1>0 DEF CallDestroy, NoCall, Working, SyncJobs
  <1>7. CASE PostDropped
    BY <1>7, <1>02 DEF PostDropped, AfterPost, EvenAfterError, SyncJobs
  <1>8. CASE PostAccepted
    BY <1>8 DEF PostAccepted, SlotFree, Enqueue, Sleep, SyncJobs
  <1>9. CASE PostWaited
    BY <1>9 DEF PostWaited, SlotFree, Enqueue, Sleep, SyncJobs
  <1>10. CASE NotifyWorker
    BY <1>10 DEF NotifyWorker, AfterPost, SyncJobs
  <1>11. CASE DrainFirst
    BY <1>11 DEF DrainFirst, Drain, Drained, AfterDrain1, SyncJobs
  <1>12. CASE DrainLast
    BY <1>12 DEF DrainLast, Drain, Drained, AfterDrain2, SyncJobs
  <1>13. CASE ReturnError
    BY <1>13 DEF ReturnError, SyncJobs
  <1>14. CASE PushTask
    BY <1>14 DEF PushTask, SyncJobs
  <1>15. CASE CommitReadError
    BY <1>15 DEF CommitReadError, SyncJobs
  <1>16. CASE CommitReturn
    BY <1>16 DEF CommitReturn, EndTransaction, SyncJobs
  <1>17. CASE ResetError
    BY <1>17, <1>02 DEF ResetError, EndTransaction, EvenAfterError, SyncJobs
  <1>18. CASE SetStop
    BY <1>18 DEF SetStop, SyncJobs
  <1>19. CASE NotifyStop
    BY <1>19 DEF NotifyStop, SyncJobs
  <1>20. CASE Join
    BY <1>20 DEF Join, SyncJobs
  <1>21. CASE TakeJob
    BY <1>21, <1>01 DEF TakeJob, Working, SyncJobs
  <1>22. CASE WaitForJob
    BY <1>22 DEF WaitForJob, SyncJobs
  <1>23. CASE NotifySlot
    BY <1>23 DEF NotifySlot, SyncJobs
  <1>24. CASE SkipJob
    BY <1>24, <1>01 DEF SkipJob, Working, SyncJobs
  <1>25. CASE RunStatement
    <2>1. job.n \in CallNos /\ ranWith' = [ranWith EXCEPT ![job.n] = job.n]
      BY <1>25, OwnRow DEF IndInv
    <2>2. ranWith \in [CallNos -> 0 .. MaxCalls]
      BY DEF IndInv, TypeOK, HistType
    <2>3. ranWith'[job.n] = job.n /\ \A n : n # job.n => ranWith'[n] = ranWith[n]
      BY <2>1, <2>2
    <2>4. UNCHANGED <<call, cpc, error, posted, told, done, job>>
      BY <1>25 DEF RunStatement
    <2>. QED
      BY <2>3, <2>4 DEF SyncJobs
  <1>26. CASE FetchRows
    BY <1>26, <1>01 DEF FetchRows, Working, SyncJobs
  <1>27. CASE NoteError
    <2>1. error' # 0
      BY <1>27 DEF NoteError, FirstError, IndInv, JobsShape, JobShape, Working, CallNos
    <2>2. UNCHANGED <<call, cpc, posted, told>>
      BY <1>27 DEF NoteError
    <2>. QED
      BY <2>1, <2>2 DEF SyncJobs
  <1>28. CASE RunInternal
    BY <1>28, <1>01 DEF RunInternal, Working, SyncJobs
  <1>29. CASE FinishJob
    BY <1>29, <1>01 DEF FinishJob, Working, SyncJobs
  <1>30. CASE NotifyDone
    BY <1>30 DEF NotifyDone, SyncJobs
  <1>31. CASE CancelRead
    BY <1>31 DEF CancelRead, SyncJobs
  <1>32. CASE CancelSend
    BY <1>32 DEF CancelSend, SyncJobs
  <1>33. ASSUME NEW t \in {"caller", "worker"}, SpuriousWakeup(t)
        PROVE  SyncJobs'
    BY <1>33 DEF SpuriousWakeup, SyncJobs
  <1>34. CASE UNCHANGED vars
    BY <1>34 DEF SyncJobs
  <1>. QED
    BY <1>1, <1>2, <1>3, <1>4, <1>5, <1>6, <1>7, <1>8, <1>9, <1>10, <1>11, <1>12, <1>13, <1>14,
       <1>15, <1>16, <1>17, <1>18, <1>19, <1>20, <1>21, <1>22, <1>23, <1>24, <1>25, <1>26, <1>27,
       <1>28, <1>29, <1>30, <1>31, <1>32, <1>33, <1>34
       DEF Next, CallerStarts, CallerSteps, WorkerSteps, CancelSteps, Wakeups, Halted

-----------------------------------------------------------------------------
(* cancel()                                                                *)

(* A job that names a task names one that was prepared: a call through a   *)
(* null pointer has ended the program before it could post one.            *)
Live(id) == id \in DOMAIN tasks /\ tasks[id] # "null"

CancelJobs ==
  /\ cpc \in {"post", "slot"} /\ call.op \in TaskOps => Live(call.id)
  /\ pending # NoJob /\ pending.op \in TaskOps => Live(pending.id)
  /\ wpc \in Working /\ job.op \in TaskOps => Live(job.id)
  /\ runningId # 0 => wpc \in Working /\ job.op \in TaskOps /\ runningId = job.id
  /\ kpc = "send" => Live(kid)

(* tasks_ only grows.                                                      *)
LEMMA LiveStays ==
  ASSUME TypeOK, [Next]_vars, NEW id, Live(id)
  PROVE  Live(id)'
  <1>0. tasks \in Seq({"dml", "select", "null"}) /\ DOMAIN tasks = 1 .. Len(tasks) /\ Len(tasks) \in Nat
    BY DEF TypeOK, DbType
  <1>1. CASE PushTask
    <2>1. tasks' = tasks \/ \E k \in {"dml", "select", "null"} : tasks' = Append(tasks, k)
      BY <1>1 DEF PushTask, TypeOK, CallerType
    <2>2. \A i \in DOMAIN tasks : i \in DOMAIN tasks' /\ tasks'[i] = tasks[i]
      BY <1>0, <2>1
    <2>. QED
      BY <2>2 DEF Live
  <1>2. CASE tasks' = tasks
    BY <1>2 DEF Live
  <1>3. PushTask \/ tasks' = tasks
    BY DbFrame DEF PostAccepted, PostWaited, ResetError, SetStop, TakeJob, NoteError, FinishJob, dbVars
  <1>. QED
    BY <1>1, <1>2, <1>3

(* A step keeps the tasks of the jobs alive.                               *)
LEMMA CancelJobsStep ==
  ASSUME IndInv, CancelJobs, [Next]_vars
  PROVE  CancelJobs'
  <1>0. TypeOK
    BY DEF IndInv
  <1>01. \A id : id \in DOMAIN tasks /\ tasks[id] # "null" => id \in DOMAIN tasks' /\ tasks'[id] # "null"
    BY <1>0, LiveStays DEF Live
  <1>02. /\ NewJob.op = JobOp /\ NewJob.id = call.id
         /\ JobOp \in TaskOps => call.op \in TaskOps
    BY DEF NewJob, JobOp, TaskOps, StmtOps
  <1> USE DEF vars, dbVars, callerVars, dataVars, workerVars, cancelVars, histVars
  <1>1. ASSUME NEW kind \in {"dml", "select"}, CallPrepare(kind)
        PROVE  CancelJobs'
    BY <1>1, <1>01 DEF CallPrepare, Invoke, TaskOps, StmtOps, CancelJobs, Live, Working
  <1>2. ASSUME NEW op \in StmtOps, NEW id \in Ids, CallStatement(op, id)
        PROVE  CancelJobs'
    BY <1>2, <1>01 DEF CallStatement, Invoke, TaskOps, StmtOps, CancelJobs, Live, Working
  <1>3. ASSUME NEW id \in Ids, CallFetchMore(id)
        PROVE  CancelJobs'
    BY <1>3, <1>01 DEF CallFetchMore, Invoke, TaskOps, StmtOps, CancelJobs, Live, Working
  <1>4. ASSUME NEW op \in {"commit", "rollback", "drain"}, CallDraining(op)
        PROVE  CancelJobs'
    BY <1>4, <1>01 DEF CallDraining, Invoke, TaskOps, StmtOps, CancelJobs, Live, Working
  <1>5. CASE CallIsFinished
    BY <1>5, <1>01 DEF CallIsFinished, Invoke, TaskOps, StmtOps, CancelJobs, Live, Working
  <1>6. CASE CallDestroy
    BY <1>6, <1>01 DEF CallDestroy, NoCall, TaskOps, StmtOps, CancelJobs, Live, Working
  <1>7. CASE PostDropped
    BY <1>7, <1>01 DEF PostDropped, AfterPost, CancelJobs, Live, Working
  <1>8. CASE PostAccepted
    BY <1>8, <1>01, <1>02 DEF PostAccepted, SlotFree, Enqueue, Sleep, CancelJobs, Live, Working
  <1>9. CASE PostWaited
    BY <1>9, <1>01, <1>02 DEF PostWaited, SlotFree, Enqueue, Sleep, CancelJobs, Live, Working
  <1>10. CASE NotifyWorker
    BY <1>10, <1>01 DEF NotifyWorker, AfterPost, CancelJobs, Live, Working
  <1>11. CASE DrainFirst
    BY <1>11, <1>01
       DEF DrainFirst, Drain, Drained, AfterDrain1, IndInv, CallShape, TaskOps, StmtOps, CancelJobs,
           Live, Working
  <1>12. CASE DrainLast
    BY <1>12, <1>01 DEF DrainLast, Drain, Drained, AfterDrain2, CancelJobs, Live, Working
  <1>13. CASE ReturnError
    BY <1>13, <1>01 DEF ReturnError, CancelJobs, Live, Working
  <1>14. CASE PushTask
    BY <1>14, <1>01 DEF PushTask, CancelJobs, Live, Working
  <1>15. CASE CommitReadError
    BY <1>15, <1>01
       DEF CommitReadError, IndInv, CallShape, TaskOps, StmtOps, CancelJobs, Live, Working
  <1>16. CASE CommitReturn
    BY <1>16, <1>01 DEF CommitReturn, EndTransaction, CancelJobs, Live, Working
  <1>17. CASE ResetError
    BY <1>17, <1>01 DEF ResetError, EndTransaction, CancelJobs, Live, Working
  <1>18. CASE SetStop
    BY <1>18, <1>01 DEF SetStop, CancelJobs, Live, Working
  <1>19. CASE NotifyStop
    BY <1>19, <1>01 DEF NotifyStop, CancelJobs, Live, Working
  <1>20. CASE Join
    BY <1>20, <1>01 DEF Join, CancelJobs, Live, Working
  <1>21. CASE TakeJob
    BY <1>21, <1>01 DEF TakeJob, TaskId, CancelJobs, Live, Working
  <1>22. CASE WaitForJob
    BY <1>22, <1>01 DEF WaitForJob, CancelJobs, Live, Working
  <1>23. CASE NotifySlot
    BY <1>23, <1>01 DEF NotifySlot, CancelJobs, Live, Working
  <1>24. CASE SkipJob
    BY <1>24, <1>01 DEF SkipJob, CancelJobs, Live, Working
  <1>25. CASE RunStatement
    BY <1>25, <1>01 DEF RunStatement, CancelJobs, Live, Working
  <1>26. CASE FetchRows
    BY <1>26, <1>01 DEF FetchRows, CancelJobs, Live, Working
  <1>27. CASE NoteError
    BY <1>27, <1>01 DEF NoteError, CancelJobs, Live, Working
  <1>28. CASE RunInternal
    BY <1>28, <1>01 DEF RunInternal, CancelJobs, Live, Working
  <1>29. CASE FinishJob
    BY <1>29, <1>01 DEF FinishJob, CancelJobs, Live, Working
  <1>30. CASE NotifyDone
    BY <1>30, <1>01 DEF NotifyDone, CancelJobs, Live, Working
  <1>31. CASE CancelRead
    BY <1>31, <1>01 DEF CancelRead, CancelJobs, Live, Working
  <1>32. CASE CancelSend
    BY <1>32, <1>01 DEF CancelSend, CancelJobs, Live, Working
  <1>33. ASSUME NEW t \in {"caller", "worker"}, SpuriousWakeup(t)
        PROVE  CancelJobs'
    BY <1>33, <1>01 DEF SpuriousWakeup, CancelJobs, Live, Working
  <1>34. CASE UNCHANGED vars
    BY <1>34, <1>01 DEF CancelJobs, Live, Working
  <1>. QED
    BY <1>1, <1>2, <1>3, <1>4, <1>5, <1>6, <1>7, <1>8, <1>9, <1>10, <1>11, <1>12, <1>13, <1>14,
       <1>15, <1>16, <1>17, <1>18, <1>19, <1>20, <1>21, <1>22, <1>23, <1>24, <1>25, <1>26, <1>27,
       <1>28, <1>29, <1>30, <1>31, <1>32, <1>33, <1>34
       DEF Next, CallerStarts, CallerSteps, WorkerSteps, CancelSteps, Wakeups, Halted

-----------------------------------------------------------------------------
(* The theorems about transactions.                                        *)

(* The calls of the caller, their jobs and the server's transaction, as    *)
(* far as neither backend nor failures matter.                             *)
LEMMA TxInvariant == Spec => [](TxJobs /\ TxHeld)
  <1>1. Init => TxJobs /\ TxHeld
    BY TxInit
  <1>2. TxJobs /\ TxHeld /\ [Next]_vars => (TxJobs /\ TxHeld)'
    BY TxJobsStep, TxHeldStep
  <1>. QED
    BY <1>1, <1>2, PTL DEF Spec

(* "a commit that reported success after a failed insert would be the      *)
(* worst possible outcome here": commit() that reports success has made    *)
(* every statement of the transaction durable, for any interleaving of the *)
(* caller and the worker.  On PostgreSQL it must be given that no PREPARE  *)
(* is refused: one that is aborts the transaction and sets no sticky error *)
(* (TLC shows the counterexample).                                         *)
THEOREM CommitHonestThm ==
  ASSUME Backend = "psql" => ~PrepareMayFail
  PROVE  Spec => []CommitHonest
  <1>1. Init => TxJobs /\ TxHeld /\ TxKept
    BY TxInit
  <1>2. TxJobs /\ TxHeld /\ TxKept /\ [Next]_vars => (TxJobs /\ TxHeld /\ TxKept)'
    BY TxJobsStep, TxHeldStep, TxKeptStep
  <1>3. TxKept => CommitHonest
    BY DEF TxKept
  <1>. QED
    BY <1>1, <1>2, <1>3, PTL DEF Spec

(* When commit() reports the failure of a statement, or rollback() reports *)
(* success, nothing of the transaction is durable, then or later.  On      *)
(* PostgreSQL it must be given that no COMMIT is refused: after one that   *)
(* is, commit() has not sent BEGIN and statements commit on their own.     *)
THEOREM FailedTxUndoneThm ==
  ASSUME Backend = "psql" => ~CommitMayFail
  PROVE  Spec => []FailedTxUndone
  <1>1. Init => TxJobs /\ TxHeld /\ TxUndone
    BY TxInit
  <1>2. TxJobs /\ TxHeld /\ TxUndone /\ [Next]_vars => (TxJobs /\ TxHeld /\ TxUndone)'
    BY TxJobsStep, TxHeldStep, TxUndoneStep
  <1>3. TxUndone => FailedTxUndone
    BY DEF TxUndone
  <1>. QED
    BY <1>1, <1>2, <1>3, PTL DEF Spec

(* execute_sync() that finds error() empty has run its statement, with its *)
(* own row, and the statement did not fail.                                *)
THEOREM SyncIsTruthfulThm == Spec => SyncIsTruthful
  <1>1. Init => IndInv /\ CallJobs /\ EndJobs /\ SyncJobs
    BY TxInit DEF TxJobs, Init, SyncJobs, NoCall
  <1>2. IndInv /\ CallJobs /\ EndJobs /\ SyncJobs /\ [Next]_vars => (IndInv /\ CallJobs /\ EndJobs /\ SyncJobs)'
    BY IndInvStep, CallJobsStep, EndJobsStep, SyncJobsStep
  <1>3. ASSUME IndInv, SyncJobs, cpc = "error", call.op = "execute_sync", error = 0
        PROVE  call.n \in done /\ ranWith[call.n] = call.n /\ call.n \notin failed
    <2>1. call.n \in posted /\ told
      BY <1>3 DEF SyncJobs
    <2>2. posted = done /\ wpc \notin Working
      BY <1>3, <2>1 DEF IndInv, QuietWhenTold, Drained, Fifo, Queued, InHand
    <2>3. failed = {}
      BY <1>3, <2>2 DEF IndInv, FirstErrorWins, Working
    <2>. QED
      BY <1>3, <2>1, <2>2, <2>3 DEF SyncJobs
  <1>4. IndInv /\ SyncJobs /\ [Next]_vars =>
          [cpc = "error" /\ cpc' = "idle" /\ call.op = "execute_sync" /\ error = 0
             => call.n \in done /\ ranWith[call.n] = call.n /\ call.n \notin failed]_vars
    BY <1>3
  <1>. QED
    BY <1>1, <1>2, <1>4, PTL DEF Spec, SyncIsTruthful

(* cancel() is noexcept and indexes tasks_ without the lock: the id it     *)
(* holds names a live task, whatever has become of the job since.          *)
THEOREM CancelSafeThm == Spec => []CancelSafe
  <1>1. Init => IndInv /\ CancelJobs
    BY InitIndInv DEF Init, CancelJobs, NoCall, NoJob, Working, TaskOps, StmtOps
  <1>2. IndInv /\ CancelJobs /\ [Next]_vars => (IndInv /\ CancelJobs)'
    BY IndInvStep, CancelJobsStep
  <1>3. CancelJobs => CancelSafe
    BY DEF CancelJobs, CancelSafe, Live
  <1>. QED
    BY <1>1, <1>2, <1>3, PTL DEF Spec

-----------------------------------------------------------------------------
(* The refinement of TxSession.                                            *)

TxInv == TxJobs /\ TxHeld /\ TxKept /\ TxUndone

(* The session begins with nothing asked for.                              *)
LEMMA SessionInit == ASSUME Init PROVE Session!Init
  <1>1. conn.durable = {} /\ asked = {} /\ ~Decided
    BY DEF Init, Connected, Decided, NoCall
  <1>. QED
    BY <1>1 DEF Session!Init

(* Every step of the three threads is a step of the session, or none.      *)
LEMMA SessionStep ==
  ASSUME Backend = "psql" => ~PrepareMayFail /\ ~CommitMayFail, TxInv, [Next]_vars
  PROVE  [Session!Next]_(<<IF Decided THEN {} ELSE asked, conn.durable,
                           IF ~Decided THEN "none"
                           ELSE IF call.op = "rollback" \/ cerr # 0 THEN "failed"
                           ELSE IF reply THEN "committed" ELSE "unknown">>)
  <1>0. TxJobs /\ TxHeld /\ TxKept /\ TxUndone /\ calls \in Nat
    BY JobNos DEF TxInv, TxJobs
  <1>1. CASE CallerStarts
    <2>1. /\ UNCHANGED conn /\ ~Decided' /\ (Decided => asked = {})
          /\ \/ asked' = asked
             \/ asked' = asked \cup {calls + 1} /\ calls + 1 \in CallNos
      BY <1>0, <1>1, StartStep
    <2>2. CASE asked' = asked
      BY <2>1, <2>2 DEF Session!Next, Session!Reported
    <2>3. CASE asked' = asked \cup {calls + 1} /\ calls + 1 \in CallNos
      <3>1. calls + 1 \notin asked \cup conn.durable
        BY <1>0 DEF TxHeld, TxJobs, AskedJobs
      <3>2. Session!Ask(calls + 1)
        BY <2>1, <2>3, <3>1 DEF Session!Ask
      <3>. QED
        BY <2>3, <3>2 DEF Session!Next
    <2>. QED
      BY <2>1, <2>2, <2>3
  <1>2. CASE RunStatement
    <2>1. PICK a \in StatementAnswers(conn, job.n) : conn' = a.conn
      BY <1>0, <1>2, RunningStatement
    <2>2. UNCHANGED asked /\ ~Decided /\ ~Decided' /\ conn \in Connections(CallNos)
      BY <1>0, <1>2, RunningStatement
    <2>3. conn'.durable = conn.durable
      BY <1>0, <2>1, <2>2, StatementOutcome DEF TxUndone, Is
    <2>. QED
      BY <2>2, <2>3
  <1>3. CASE RunInternal /\ job.op = "prepare"
    <2>1. PICK a \in PrepareAnswers(conn) : conn' = a.conn
      BY <1>0, <1>3, RunningPrepare
    <2>2. UNCHANGED asked /\ ~Decided /\ ~Decided' /\ conn \in Connections(CallNos)
      BY <1>0, <1>3, RunningPrepare
    <2>3. conn'.durable = conn.durable
      BY <2>1, <2>2, PrepareOutcome DEF Is
    <2>. QED
      BY <2>2, <2>3
  <1>4. CASE RunInternal /\ job.op # "prepare"
    <2>1. /\ UNCHANGED <<asked, failed, call, cerr>> /\ ~Decided /\ Decided' /\ Awaiting = {}
          /\ conn \in Connections(CallNos)
      BY <1>0, <1>4, RunningEnd
    <2>2. Sound(conn) /\ conn.work \subseteq asked
      BY <1>0 DEF TxHeld
    <2>3. CASE Undoing
      <3>1. PICK a \in RollbackAnswers(conn) : conn' = a.conn
        BY <1>0, <1>4, <2>3, RunningEnd
      <3>2. conn'.durable = conn.durable
        BY <2>1, <2>2, <3>1, RollbackOutcome DEF Is
      <3>3. Session!Undo
        BY <2>1, <2>3, <3>2 DEF Session!Undo, Undoing
      <3>. QED
        BY <3>3 DEF Session!Next
    <2>4. CASE ~Undoing
      <3>1. failed = {} /\ \E a \in CommitAnswers(conn) : conn' = a.conn /\ reply' = a.ok
        BY <1>0, <1>4, <2>4, RunningEnd
      <3>2. PICK a \in CommitAnswers(conn) : conn' = a.conn /\ reply' = a.ok
        BY <3>1
      <3>3. conn.tx \notin {"aborted", "none"}
        BY <1>0, <3>1 DEF TxKept, TxUndone
      <3>4. conn.tx = "open" => conn.work = asked
        BY <1>0, <2>1, <2>2, <3>1 DEF TxKept, TxUndone
      <3>5. CASE a.ok
        <4>1. conn'.durable = conn.durable \cup asked
          BY <2>1, <2>2, <3>2, <3>3, <3>4, <3>5, CommitOutcome DEF Is
        <4>2. Session!Commit
          BY <2>1, <2>4, <3>2, <3>5, <4>1 DEF Session!Commit, Undoing
        <4>. QED
          BY <4>2 DEF Session!Next
      <3>6. CASE ~a.ok
        <4>1. conn'.durable \in {conn.durable, conn.durable \cup asked}
          BY <2>1, <2>2, <3>2, <3>3, <3>4, <3>6, CommitOutcome DEF Is
        <4>2. Session!Unknown
          BY <2>1, <2>4, <3>2, <3>6, <4>1 DEF Session!Unknown, Undoing
        <4>. QED
          BY <4>2 DEF Session!Next
      <3>. QED
        BY <3>5, <3>6
    <2>. QED
      BY <2>3, <2>4
  <1>5. CASE FetchRows
    <2>1. UNCHANGED <<conn, asked>> /\ ~Decided /\ ~Decided'
      BY <1>0, <1>5, FetchingRows
    <2>. QED
      BY <2>1
  <1>6. CASE CommitReturn \/ ResetError
    <2>1. UNCHANGED <<conn, call, cerr, reply>> /\ Decided /\ Decided'
      BY <1>0, <1>6, Reporting
    <2>. QED
      BY <2>1
  <1>7. CASE /\ ~CallerStarts /\ ~RunStatement /\ ~FetchRows /\ ~RunInternal
             /\ ~CommitReturn /\ ~ResetError
    <2>1. /\ UNCHANGED <<conn, asked, call, reply>> /\ (Decided' <=> Decided)
          /\ (Decided => cerr' = cerr)
      BY <1>0, <1>7, PassingStep DEF Passing
    <2>. QED
      BY <2>1
  <1>. QED
    BY <1>1, <1>2, <1>3, <1>4, <1>5, <1>6, <1>7

(* async_db implements TxSession: whatever the caller, the worker and      *)
(* cancel() interleave to, transactions happen as a whole or not at all.   *)
(* On PostgreSQL no PREPARE and no COMMIT may be refused, as above.        *)
THEOREM TransactionsAtomicThm ==
  ASSUME Backend = "psql" => ~PrepareMayFail /\ ~CommitMayFail
  PROVE  Spec => TransactionsAtomic
  <1>1. Init => TxInv
    BY TxInit DEF TxInv
  <1>2. TxInv /\ [Next]_vars => TxInv'
    BY TxJobsStep, TxHeldStep, TxKeptStep, TxUndoneStep DEF TxInv
  <1>3. Init => Session!Init
    BY SessionInit
  <1>4. TxInv /\ [Next]_vars =>
          [Session!Next]_(<<IF Decided THEN {} ELSE asked, conn.durable,
                            IF ~Decided THEN "none"
                            ELSE IF call.op = "rollback" \/ cerr # 0 THEN "failed"
                            ELSE IF reply THEN "committed" ELSE "unknown">>)
    BY SessionStep
  <1>. QED
    BY <1>1, <1>2, <1>3, <1>4, PTL DEF Spec, TransactionsAtomic, Session!Spec
=============================================================================
