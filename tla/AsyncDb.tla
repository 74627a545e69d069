------------------------------- MODULE AsyncDb -------------------------------
(***************************************************************************)
(* rtl::async_db (rtl/async_db.hpp, rtl/async_db.cpp): a facade that runs  *)
(* the statements of one connection on a worker thread behind a queue that *)
(* is one job deep.                                                        *)
(*                                                                         *)
(* Three threads: the caller, who owns the object and makes one call at a  *)
(* time; the worker, who alone touches the connection; and a canceller,    *)
(* any other thread that calls cancel().                                   *)
(*                                                                         *)
(* Grain.  A critical section of mtx_ is one step, and everything a thread *)
(* does between two critical sections is one step unless another thread    *)
(* can observe it: a notify comes after the unlock and is a step of its    *)
(* own, the database round trip of a job is a step of its own.  A thread   *)
(* blocked in condition_variable::wait() is a member of asleep; it leaves  *)
(* when it is notified (or spuriously) and then evaluates its predicate    *)
(* again under the lock.  The caller waits on from_worker_ only and the    *)
(* worker on to_worker_ only, so one set serves both variables.            *)
(*                                                                         *)
(* Data.  A call is its number n: 1, 2, ... in the order the caller makes  *)
(* them.  The row of parameter values the caller fills in before call n is *)
(* the number n, an error is the number of the call whose job failed, and  *)
(* a task is the kind of its statement.                                    *)
(***************************************************************************)
EXTENDS DbTx, Integers, Sequences, FiniteSets

CONSTANTS Ops,         \* the operations of the API this instance's caller uses
          MaxCalls,    \* bound on the calls the caller makes
          MaxTasks,    \* bound on the prepare() calls that return a handle
          MaxBuffers,  \* bound on the buffers of rows one execute() yields
          MaxCancels   \* bound on the cancel() calls that find a job running

ASSUME AsyncDbAssumption ==
  /\ Ops \subseteq {"prepare", "submit", "exec", "execute_sync", "fetch_more",
                    "drain", "is_finished", "commit", "rollback"}
  /\ MaxCalls \in Nat
  /\ MaxTasks \in Nat
  /\ MaxBuffers \in Nat
  /\ MaxCancels \in Nat

VARIABLES
  \* the members of async_db
  tasks,      \* tasks_: "dml" or "select" per prepared task, "null" for a null pointer
  pending,    \* pending_
  busy,       \* busy_
  stop,       \* stop_
  error,      \* error_, 0 when empty
  runningId,  \* running_task_id_, 0 when empty
  asleep,     \* the threads blocked in from_worker_.wait() or to_worker_.wait()
  \* the caller thread
  cpc,        \* where it is
  call,       \* the call it is making
  calls,      \* how many calls it has made
  cerr,       \* commit()'s local copy of error_
  reply,      \* the local that the job of a waiting call writes to: no error, success, fetched
  \* the buffers of every task
  param,      \* the caller's own parameter buffer, per task
  qparam,     \* the query's parameter buffer, per task
  cursor,     \* buffers of rows the last execute() left to fetch, per task
  \* the worker thread
  wpc,        \* where it is
  job,        \* qj, the job in hand
  conn,       \* the connection (DbTx)
  \* the canceller
  kpc, kid,   \* where it is, and its copy of running_task_id_
  cancels,    \* how many cancel() calls got as far as a running job
  \* history, read by the properties only
  posted,     \* the jobs ever put in the queue
  done,       \* the jobs the worker has finished
  ranWith,    \* the parameter row each statement ran with, 0 if it did not run
  asked,      \* the statements the caller asked for in this transaction
  failed,     \* those of them whose execute() or fetch() failed
  told,       \* the API has told the caller that nothing is pending or running
  outcome,    \* the last commit() or rollback(): what it answered, and for which statements
  kwanted,    \* the job that was running when cancel() read running_task_id_
  hit         \* the last cancel request: the job it was meant for, and the job it reached

dbVars     == <<tasks, pending, busy, stop, error, runningId>>
callerVars == <<cpc, call, calls, cerr>>
dataVars   == <<param, qparam, cursor>>
workerVars == <<wpc, job, conn>>
cancelVars == <<kpc, kid, cancels, kwanted, hit>>
histVars   == <<posted, done, ranWith, asked, failed, told, outcome>>
vars == <<tasks, pending, busy, stop, error, runningId, asleep, cpc, call, calls, cerr, reply,
          param, qparam, cursor, wpc, job, conn, kpc, kid, cancels, posted, done, ranWith,
          asked, failed, told, outcome, kwanted, hit>>

-----------------------------------------------------------------------------
CallNos == 1 .. MaxCalls
Ids     == 1 .. MaxTasks

StmtOps == {"submit", "exec", "execute_sync"}          \* carry a parameter row
TaskOps == StmtOps \cup {"fetch_more"}                 \* name a task: task_id is set
JobOps  == TaskOps \cup {"prepare", "commit", "rollback"}
CallOps == JobOps \cup {"drain", "is_finished", "destroy", "none"}

NoJob == [op |-> "none", n |-> 0, id |-> 0, snap |-> 0]
NoCall == [op |-> "none", n |-> 0, id |-> 0, kind |-> "dml"]

(* queued_job: the closure (its operation, call, task and the snapshot it  *)
(* captured) and the task_id cancel() may use.                             *)
Job == [op : JobOps \cup {"none"}, n : 0 .. MaxCalls, id : 0 .. MaxTasks, snap : 0 .. MaxCalls]

(* COMMIT and ROLLBACK are posted with even_after_error = true.            *)
EvenAfterError == {"commit", "rollback"}

(* What the call in progress posts: commit() posts a rollback when it      *)
(* found the sticky error set.                                             *)
FaultyJobOp == call.op
JobOp == IF call.op = "commit" /\ cerr # 0 THEN "rollback" ELSE call.op

(* The snapshot submit(), exec() and execute_sync() take on the caller's   *)
(* thread before they queue the job.                                       *)
Snapshot == IF call.op \in StmtOps THEN param[call.id] ELSE 0

(* restore_params(): the row the worker copies into the query's buffer.    *)
FaultyRestoredRow(j) == param[j.id]
RestoredRow(j) == j.snap

NewJob == [op |-> JobOp, n |-> call.n, id |-> call.id, snap |-> Snapshot]

(* task_id: nullopt for the jobs that do not go through a tasks_ entry.    *)
FaultyTaskId(j) == IF j.op = "prepare" THEN Len(tasks) + 1 ELSE j.id
TaskId(j) == IF j.op \in TaskOps THEN j.id ELSE 0

Init ==
  /\ tasks = <<>> /\ pending = NoJob /\ busy = FALSE /\ stop = FALSE
  /\ error = 0 /\ runningId = 0 /\ asleep = {}
  /\ cpc = "idle" /\ call = NoCall /\ calls = 0 /\ cerr = 0 /\ reply = TRUE
  /\ param = [i \in Ids |-> 0] /\ qparam = [i \in Ids |-> 0] /\ cursor = [i \in Ids |-> 0]
  /\ wpc = "wait" /\ job = NoJob /\ conn = Connected
  /\ kpc = "idle" /\ kid = 0 /\ cancels = 0
  /\ posted = {} /\ done = {} /\ ranWith = [n \in CallNos |-> 0]
  /\ asked = {} /\ failed = {} /\ told = TRUE
  /\ outcome = [op |-> "none", ok |-> TRUE, err |-> 0, stmts |-> {}]
  /\ kwanted = 0 /\ hit = <<0, 0>>

-----------------------------------------------------------------------------
(* The caller starts a call.                                               *)

Invoke(op, id, kind, to) ==
  /\ cpc = "idle"
  /\ op \in Ops
  /\ calls < MaxCalls
  /\ calls' = calls + 1
  /\ call' = [op |-> op, n |-> calls + 1, id |-> id, kind |-> kind]
  /\ cpc' = to
  /\ cerr' = 0
  /\ reply' = (op \notin {"execute_sync", "fetch_more"})

(* prepare(sql): everything that touches the connection is a job.  kind is *)
(* what the generator made of the statement: no_results or a row type.     *)
CallPrepare(kind) ==
  /\ Len(tasks) < MaxTasks
  /\ Invoke("prepare", 0, kind, "post")
  /\ UNCHANGED <<dbVars, asleep, dataVars, workerVars, cancelVars, histVars>>

(* submit(), exec() and execute_sync(): the caller fills in its parameter  *)
(* buffer (call number n stands for the row) and calls.  The snapshot goes *)
(* through tasks_.at(id)->, so a handle whose task is a null pointer ends  *)
(* the program here.  submit() is for statements without rows only.        *)
CallStatement(op, id) ==
  /\ op \in StmtOps
  /\ id \in DOMAIN tasks
  /\ op = "submit" => tasks[id] # "select"
  /\ Invoke(op, id, "dml", IF tasks[id] = "null" THEN "crashed" ELSE "post")
  /\ param' = [param EXCEPT ![id] = calls + 1]
  /\ asked' = asked \cup {calls + 1}
  /\ told' = FALSE
  /\ UNCHANGED <<dbVars, asleep, qparam, cursor, workerVars, cancelVars,
                 posted, done, ranWith, failed, outcome>>

(* fetch_more(): statements that return rows only.                         *)
CallFetchMore(id) ==
  /\ id \in DOMAIN tasks
  /\ tasks[id] = "select"
  /\ Invoke("fetch_more", id, "select", "post")
  /\ told' = FALSE
  /\ UNCHANGED <<dbVars, asleep, dataVars, workerVars, cancelVars,
                 posted, done, ranWith, asked, failed, outcome>>

(* commit(), rollback() and drain() start by draining.                     *)
CallDraining(op) ==
  /\ op \in {"commit", "rollback", "drain"}
  /\ Invoke(op, 0, "dml", "drain1")
  /\ UNCHANGED <<dbVars, asleep, dataVars, workerVars, cancelVars, histVars>>

(* is_finished(): one critical section, never blocks.                      *)
CallIsFinished ==
  /\ Invoke("is_finished", 0, "dml", "idle")
  /\ told' = (told \/ (pending = NoJob /\ ~busy))
  /\ UNCHANGED <<dbVars, asleep, dataVars, workerVars, cancelVars,
                 posted, done, ranWith, asked, failed, outcome>>

(* ~async_db(): the object is nobody else's any more, so no cancel() runs. *)
CallDestroy ==
  /\ cpc = "idle" /\ kpc = "idle"
  /\ call' = [NoCall EXCEPT !.op = "destroy"]
  /\ cpc' = "drain1"
  /\ UNCHANGED <<dbVars, asleep, calls, cerr, reply, dataVars, workerVars, cancelVars, histVars>>

-----------------------------------------------------------------------------
(* post_to_worker()                                                        *)

Enqueue ==
  /\ pending' = NewJob
  /\ posted' = posted \cup {call.n}
  /\ told' = FALSE
  /\ cpc' = "notify"
  /\ UNCHANGED asleep

(* from_worker_.wait() and to_worker_.wait(), predicate false.             *)
Sleep(t, where) ==
  /\ asleep' = asleep \cup {t}
  /\ cpc' = where
  /\ UNCHANGED <<pending, posted, told>>

(* notify_one() and notify_all(): each variable has one waiter at most.    *)
FaultyNotified(t) == asleep
Notified(t) == asleep \ {t}

(* The predicate of post_to_worker()'s wait: the queue has a slot.         *)
FaultySlotFree == TRUE
SlotFree == pending = NoJob

(* The rest of a call whose job has been handed over or dropped.           *)
FaultyAfterPost(op) ==
  CASE op = "submit" -> "idle"
    [] op \in {"exec", "execute_sync"} -> "error"
    [] OTHER -> "drain2"

AfterPost(op) ==
  CASE op = "submit" -> "idle"
    [] op = "exec" -> "error"
    [] OTHER -> "drain2"

(* The sticky error is looked at once, on entry, and not again after the   *)
(* wait for the slot.                                                      *)
PostDropped ==
  /\ cpc = "post"
  /\ error # 0 /\ JobOp \notin EvenAfterError
  /\ cpc' = AfterPost(call.op)
  /\ UNCHANGED <<dbVars, asleep, call, calls, cerr, reply, dataVars, workerVars,
                 cancelVars, histVars>>

PostAccepted ==
  /\ cpc = "post"
  /\ error = 0 \/ JobOp \in EvenAfterError
  /\ IF SlotFree THEN Enqueue ELSE Sleep("caller", "slot")
  /\ UNCHANGED <<tasks, busy, stop, error, runningId, call, calls, cerr, reply, dataVars,
                 workerVars, cancelVars, done, ranWith, asked, failed, outcome>>

PostWaited ==
  /\ cpc = "slot" /\ "caller" \notin asleep
  /\ IF SlotFree THEN Enqueue ELSE Sleep("caller", "slot")
  /\ UNCHANGED <<tasks, busy, stop, error, runningId, call, calls, cerr, reply, dataVars,
                 workerVars, cancelVars, done, ranWith, asked, failed, outcome>>

(* to_worker_.notify_one(), after the unlock.                              *)
NotifyWorker ==
  /\ cpc = "notify"
  /\ asleep' = Notified("worker")
  /\ cpc' = AfterPost(call.op)
  /\ UNCHANGED <<dbVars, call, calls, cerr, reply, dataVars, workerVars, cancelVars, histVars>>

-----------------------------------------------------------------------------
(* drain(), first and last step of the calls that use it                   *)

FaultyDrained == pending = NoJob
Drained == pending = NoJob /\ ~busy

AfterDrain1 ==
  CASE call.op = "commit" -> "sticky"
    [] call.op = "rollback" -> "post"
    [] call.op = "destroy" -> "stop"
    [] OTHER -> "idle"

AfterDrain2 ==
  CASE call.op = "prepare" -> "push"
    [] call.op = "commit" -> IF cerr # 0 THEN "reset" ELSE "status"
    [] call.op = "rollback" -> "reset"
    [] OTHER -> "error"

Drain(at, next) ==
  /\ cpc = at /\ "caller" \notin asleep
  /\ IF Drained THEN cpc' = next /\ told' = TRUE /\ UNCHANGED asleep
                ELSE cpc' = at /\ asleep' = asleep \cup {"caller"} /\ UNCHANGED told
  /\ UNCHANGED <<dbVars, call, calls, cerr, reply, dataVars, workerVars, cancelVars,
                 posted, done, ranWith, asked, failed, outcome>>

DrainFirst == Drain("drain1", AfterDrain1)
DrainLast  == Drain("drain2", AfterDrain2)

-----------------------------------------------------------------------------
(* The rest of each call.                                                  *)

(* exec(), execute_sync() and fetch_more() return error() or a result.     *)
ReturnError ==
  /\ cpc = "error"
  /\ cpc' = "idle"
  /\ UNCHANGED <<dbVars, asleep, call, calls, cerr, reply, dataVars, workerVars, cancelVars,
                 histVars>>

(* prepare() on the caller's thread: err is returned; otherwise the task   *)
(* pointer is appended to tasks_ and a handle returned.  When the job was  *)
(* dropped (the sticky error was set) err is empty and the pointer is      *)
(* null: reading the result buffer through it ends the program, and a      *)
(* statement without rows gets a handle all the same.                      *)
PushTask ==
  /\ cpc = "push"
  /\ LET ran == call.n \in posted IN
     /\ tasks' = IF ran THEN (IF reply THEN Append(tasks, call.kind) ELSE tasks)
                 ELSE IF call.kind = "dml" THEN Append(tasks, "null") ELSE tasks
     /\ cpc' = IF ~ran /\ call.kind = "select" THEN "crashed" ELSE "idle"
  /\ UNCHANGED <<pending, busy, stop, error, runningId, asleep, call, calls, cerr, reply,
                 dataVars, workerVars, cancelVars, histVars>>

(* commit(): error(), which decides between COMMIT and ROLLBACK.           *)
CommitReadError ==
  /\ cpc = "sticky"
  /\ cerr' = error
  /\ cpc' = "post"
  /\ UNCHANGED <<dbVars, asleep, call, calls, reply, dataVars, workerVars, cancelVars, histVars>>

EndTransaction(ok, err) ==
  /\ outcome' = [op |-> call.op, ok |-> ok, err |-> err, stmts |-> asked]
  /\ asked' = {} /\ failed' = {}
  /\ cpc' = "idle"

(* commit() without a sticky error: the status of COMMIT.                  *)
CommitReturn ==
  /\ cpc = "status"
  /\ EndTransaction(reply, 0)
  /\ UNCHANGED <<dbVars, asleep, call, calls, cerr, reply, dataVars, workerVars, cancelVars,
                 posted, done, ranWith, told>>

(* commit() with a sticky error, and rollback(): clear it.  commit()       *)
(* returns the error and rollback() the status of ROLLBACK.                *)
ResetError ==
  /\ cpc = "reset"
  /\ error' = 0
  /\ EndTransaction(call.op = "rollback" /\ reply, cerr)
  /\ UNCHANGED <<tasks, pending, busy, stop, runningId, asleep, call, calls, cerr, reply,
                 dataVars, workerVars, cancelVars, posted, done, ranWith, told>>

(* ~async_db() after the drain: stop_, notify_all(), join().               *)
SetStop ==
  /\ cpc = "stop"
  /\ stop' = TRUE
  /\ cpc' = "notifyall"
  /\ UNCHANGED <<tasks, pending, busy, error, runningId, asleep, call, calls, cerr, reply,
                 dataVars, workerVars, cancelVars, histVars>>

NotifyStop ==
  /\ cpc = "notifyall"
  /\ asleep' = Notified("worker")
  /\ cpc' = "join"
  /\ UNCHANGED <<dbVars, call, calls, cerr, reply, dataVars, workerVars, cancelVars, histVars>>


Join ==
  /\ cpc = "join" /\ wpc = "exit"
  /\ cpc' = "ended"
  /\ UNCHANGED <<dbVars, asleep, call, calls, cerr, reply, dataVars, workerVars, cancelVars,
                 histVars>>

-----------------------------------------------------------------------------
(* worker_loop()                                                           *)

TakeJob ==
  /\ wpc = "wait" /\ "worker" \notin asleep
  /\ pending # NoJob
  /\ job' = pending /\ pending' = NoJob
  /\ busy' = TRUE /\ runningId' = TaskId(pending)
  /\ wpc' = "took"
  /\ UNCHANGED <<tasks, stop, error, asleep, callerVars, reply, dataVars, conn, cancelVars,
                 histVars>>

WaitForJob ==
  /\ wpc = "wait" /\ "worker" \notin asleep
  /\ pending = NoJob
  /\ IF stop THEN wpc' = "exit" /\ UNCHANGED asleep
             ELSE wpc' = "wait" /\ asleep' = asleep \cup {"worker"}
  /\ UNCHANGED <<dbVars, callerVars, reply, dataVars, job, conn, cancelVars, histVars>>

(* from_worker_.notify_all(): the queue has a slot again.                  *)
NotifySlot ==
  /\ wpc = "took"
  /\ asleep' = Notified("caller")
  /\ wpc' = "run"
  /\ UNCHANGED <<dbVars, callerVars, reply, dataVars, job, conn, cancelVars, histVars>>

(* The jobs of execute_sync() and fetch_more() do nothing once the sticky  *)
(* error is set; those of submit() and exec() do not look.                 *)
SkipJob ==
  /\ wpc = "run"
  /\ job.op \in {"execute_sync", "fetch_more"} /\ error # 0
  /\ wpc' = "ran"
  /\ UNCHANGED <<dbVars, asleep, callerVars, reply, dataVars, job, conn, cancelVars, histVars>>

(* restore_params() and execute().  Rows, if the statement has any, wait   *)
(* for the fetch that exec() and execute_sync() do next.                   *)
RunStatement ==
  /\ wpc = "run"
  /\ job.op \in StmtOps
  /\ job.op = "execute_sync" => error = 0
  /\ qparam' = [qparam EXCEPT ![job.id] = RestoredRow(job)]
  /\ ranWith' = [ranWith EXCEPT ![job.n] = qparam'[job.id]]
  /\ \E a \in StatementAnswers(conn, job.n), rows \in 0 .. MaxBuffers :
        /\ conn' = a.conn
        /\ failed' = IF a.ok THEN failed ELSE failed \cup {job.n}
        /\ wpc' = IF ~a.ok THEN "note" ELSE IF tasks[job.id] = "select" THEN "fetch" ELSE "ran"
        /\ IF a.ok /\ tasks[job.id] = "select" THEN cursor' = [cursor EXCEPT ![job.id] = rows]
                                               ELSE rows = 0 /\ UNCHANGED cursor
  /\ UNCHANGED <<dbVars, asleep, callerVars, reply, param, job, cancelVars,
                 posted, done, asked, told, outcome>>

(* The buffers left after one fetch().                                     *)
FetchedFrom(k) == IF k > 0 THEN k - 1 ELSE 0

(* fetch(): one buffer of rows, or none, or an error (the driver's on db2; *)
(* check_layout()'s or a missing result set on psql), which the server's   *)
(* transaction knows nothing of.  The job of exec() throws the row count   *)
(* away.                                                                   *)
FetchRows ==
  /\ \/ wpc = "fetch"
     \/ wpc = "run" /\ job.op = "fetch_more" /\ error = 0
  /\ \/ /\ cursor' = [cursor EXCEPT ![job.id] = FetchedFrom(@)]
        /\ reply' = IF job.op = "exec" THEN reply ELSE cursor[job.id] > 0
        /\ wpc' = "ran"
        /\ UNCHANGED failed
     \/ /\ failed' = failed \cup {job.n}
        /\ wpc' = "note"
        /\ reply' = IF job.op = "exec" THEN reply ELSE FALSE
        /\ UNCHANGED cursor
  /\ UNCHANGED <<dbVars, asleep, callerVars, param, qparam, job, conn, cancelVars,
                 posted, done, ranWith, asked, told, outcome>>

(* note_error(): the first failure wins.                                   *)
FaultyFirstError(e) == e
FirstError(e) == IF error = 0 THEN e ELSE error

NoteError ==
  /\ wpc = "note"
  /\ error' = FirstError(job.n)
  /\ wpc' = "ran"
  /\ UNCHANGED <<tasks, pending, busy, stop, runningId, asleep, callerVars, reply, dataVars,
                 job, conn, cancelVars, histVars>>

(* The job of prepare(), commit() and rollback(): the status goes to a     *)
(* local of the waiting caller, never to error_.                           *)
ConnAnswers ==
  CASE job.op = "prepare"  -> PrepareAnswers(conn)
    [] job.op = "commit"   -> CommitAnswers(conn)
    [] job.op = "rollback" -> RollbackAnswers(conn)

RunInternal ==
  /\ wpc = "run"
  /\ job.op \in {"prepare", "commit", "rollback"}
  /\ \E a \in ConnAnswers : conn' = a.conn /\ reply' = a.ok
  /\ wpc' = "ran"
  /\ UNCHANGED <<dbVars, asleep, callerVars, dataVars, job, cancelVars, histVars>>

FinishJob ==
  /\ wpc = "ran"
  /\ busy' = FALSE /\ runningId' = 0
  /\ done' = done \cup {job.n}
  /\ wpc' = "fin"
  /\ UNCHANGED <<tasks, pending, stop, error, asleep, callerVars, reply, dataVars, job, conn,
                 cancelVars, posted, ranWith, asked, failed, told, outcome>>

(* from_worker_.notify_all(): a job finished; then round the loop, whose   *)
(* first line resets qj.                                                   *)
NotifyDone ==
  /\ wpc = "fin"
  /\ asleep' = Notified("caller")
  /\ job' = NoJob
  /\ wpc' = "wait"
  /\ UNCHANGED <<dbVars, callerVars, reply, dataVars, conn, cancelVars, histVars>>

-----------------------------------------------------------------------------
(* cancel(), from another thread: read running_task_id_ under the lock,    *)
(* then send the request for tasks_.at(id) without it.                     *)
CancelRead ==
  /\ kpc = "idle" /\ cancels < MaxCancels /\ call.op # "destroy"
  /\ runningId # 0
  /\ kid' = runningId /\ kwanted' = job.n
  /\ cancels' = cancels + 1
  /\ kpc' = "send"
  /\ UNCHANGED <<dbVars, asleep, callerVars, reply, dataVars, workerVars, hit, histVars>>

(* The request reaches whatever the connection is executing (psql), or     *)
(* what that statement handle is executing (db2).  The statement it        *)
(* reaches may fail; StatementAnswers lets any statement fail.             *)
CancelSend ==
  /\ kpc = "send"
  /\ kpc' = "idle"
  /\ hit' = IF wpc \in {"run", "fetch"} /\ (Backend = "db2" => TaskId(job) = kid)
            THEN <<kwanted, job.n>> ELSE hit
  /\ UNCHANGED <<dbVars, asleep, callerVars, reply, dataVars, workerVars, kid, cancels, kwanted,
                 histVars>>

(* condition_variable::wait() may return without a notify.                 *)
SpuriousWakeup(t) ==
  /\ t \in asleep
  /\ asleep' = asleep \ {t}
  /\ UNCHANGED <<dbVars, callerVars, reply, dataVars, workerVars, cancelVars, histVars>>

-----------------------------------------------------------------------------
(* What the caller may decide to do next, and what it does inside a call.  *)
CallerStarts ==
  \/ \E kind \in {"dml", "select"} : CallPrepare(kind)
  \/ \E op \in StmtOps, id \in Ids : CallStatement(op, id)
  \/ \E id \in Ids : CallFetchMore(id)
  \/ \E op \in {"commit", "rollback", "drain"} : CallDraining(op)
  \/ CallIsFinished
  \/ CallDestroy

CallerSteps ==
  \/ PostDropped \/ PostAccepted \/ PostWaited \/ NotifyWorker
  \/ DrainFirst \/ DrainLast \/ ReturnError \/ PushTask
  \/ CommitReadError \/ CommitReturn \/ ResetError
  \/ SetStop \/ NotifyStop \/ Join

(* A call through a null task pointer ends the program, all threads of it. *)
Alive == cpc # "crashed"

WorkerSteps ==
  \/ Alive /\ TakeJob
  \/ Alive /\ WaitForJob
  \/ Alive /\ NotifySlot
  \/ Alive /\ SkipJob
  \/ Alive /\ RunStatement
  \/ Alive /\ FetchRows
  \/ Alive /\ NoteError
  \/ Alive /\ RunInternal
  \/ Alive /\ FinishJob
  \/ Alive /\ NotifyDone

CancelSteps ==
  \/ Alive /\ CancelRead
  \/ Alive /\ CancelSend

Wakeups == \E t \in {"caller", "worker"} : Alive /\ SpuriousWakeup(t)

(* The object is gone, or the program is.                                  *)
Halted == cpc \in {"ended", "crashed"} /\ UNCHANGED vars

Next == CallerStarts \/ CallerSteps \/ WorkerSteps \/ CancelSteps \/ Wakeups \/ Halted

Spec == Init /\ [][Next]_vars

(* The operating system runs both threads and the database answers: a      *)
(* thread that can take a step inside a call or a job takes one.  Nothing  *)
(* obliges the caller to make a call or a wait to wake spuriously.         *)
FairSpec == Spec /\ WF_vars(CallerSteps) /\ WF_vars(WorkerSteps)

-----------------------------------------------------------------------------
(* Properties                                                              *)

Working == {"took", "run", "fetch", "note", "ran"}
InHand  == IF wpc \in Working THEN {job.n} ELSE {}
Queued  == IF pending = NoJob THEN {} ELSE {pending.n}

(* Every variable stays in its type: the members of async_db, the places   *)
(* the three threads can be in, the buffers and the history.               *)
DbType ==
  /\ tasks \in Seq({"dml", "select", "null"}) /\ Len(tasks) <= MaxTasks
  /\ pending \in Job /\ busy \in BOOLEAN /\ stop \in BOOLEAN
  /\ error \in 0 .. MaxCalls /\ runningId \in 0 .. MaxTasks

CallerType ==
  /\ asleep \subseteq {"caller", "worker"}
  /\ cpc \in {"idle", "post", "slot", "notify", "drain1", "drain2", "error", "push", "sticky",
              "status", "reset", "stop", "notifyall", "join", "ended", "crashed"}
  /\ call \in [op : CallOps, n : 0 .. MaxCalls, id : 0 .. MaxTasks, kind : {"dml", "select"}]
  /\ calls \in 0 .. MaxCalls /\ cerr \in 0 .. MaxCalls /\ reply \in BOOLEAN

DataType ==
  /\ param \in [Ids -> 0 .. MaxCalls] /\ qparam \in [Ids -> 0 .. MaxCalls]
  /\ cursor \in [Ids -> 0 .. MaxBuffers]

WorkerType ==
  /\ wpc \in {"wait", "fin", "exit"} \cup Working
  /\ job \in Job /\ conn \in Connections(CallNos)

CancelType ==
  /\ kpc \in {"idle", "send"} /\ kid \in 0 .. MaxTasks /\ cancels \in 0 .. MaxCancels
  /\ kwanted \in 0 .. MaxCalls /\ hit \in (0 .. MaxCalls) \X (0 .. MaxCalls)

HistType ==
  /\ posted \subseteq CallNos /\ done \subseteq CallNos
  /\ ranWith \in [CallNos -> 0 .. MaxCalls]
  /\ asked \subseteq CallNos /\ failed \subseteq CallNos /\ told \in BOOLEAN
  /\ outcome \in [op : {"none", "commit", "rollback"}, ok : BOOLEAN, err : 0 .. MaxCalls,
                  stmts : SUBSET CallNos]

TypeOK == DbType /\ CallerType /\ DataType /\ WorkerType /\ CancelType /\ HistType

(* No lost wakeup between the two condition variables: a thread asleep in  *)
(* wait() still has a false predicate, or the other thread is on its way   *)
(* to the notify that wakes it (post_to_worker(), drain() and              *)
(* worker_loop() all notify after they unlock).                            *)
NoLostWakeup ==
  /\ "caller" \in asleep =>
       \/ cpc = "slot" /\ (pending # NoJob \/ wpc = "took")
       \/ cpc \in {"drain1", "drain2"} /\ (~Drained \/ wpc = "fin")
  /\ "worker" \in asleep =>
       /\ wpc = "wait"
       /\ (pending = NoJob /\ ~stop) \/ cpc \in {"notify", "notifyall"}

(* The caller and the worker never wait for each other.                    *)
NoDeadlock == asleep # {"caller", "worker"}

(* One worker, one queue, total order: every job handed to the queue is    *)
(* finished, in hand or pending, none is lost or run twice, and they are   *)
(* run in the order of the calls.                                          *)
Fifo ==
  /\ posted = done \cup InHand \cup Queued
  /\ \A d \in done : \A m \in InHand \cup Queued : d < m
  /\ \A m \in InHand : \A q \in Queued : m < q

(* submit()'s snapshot: a statement runs with the row its caller had       *)
(* filled in when it made the call, though the caller has been free to     *)
(* overwrite its buffer since.                                             *)
SnapshotIsolated == \A n \in CallNos : ranWith[n] \in {0, n}

(* When drain(), a waiting call or is_finished() has said that everything  *)
(* is finished, the worker has nothing in hand until the caller's next     *)
(* call, so the shared result buffer may be read.                          *)
QuietWhenTold == told => Drained /\ InHand = {}

(* error_ is the first failure of the transaction, whatever failed after   *)
(* it, and no failure goes unrecorded.                                     *)
FirstErrorWins ==
  /\ error # 0 => error \in failed /\ \A m \in failed : error <= m
  /\ error = 0 => failed \subseteq (IF wpc = "note" THEN {job.n} ELSE {})

(* "a commit that reported success after a failed insert would be the      *)
(* worst possible outcome here": when commit() reports success, every      *)
(* statement the caller asked for in the transaction is durable, those     *)
(* silently discarded included.                                            *)
CommitHonest ==
  outcome.op = "commit" /\ outcome.ok => outcome.stmts \subseteq conn.durable

(* When commit() reports a failed statement, or rollback() reports         *)
(* success, nothing of the transaction is durable then or later.           *)
FailedTxUndone ==
  \/ outcome.op = "commit" /\ outcome.err # 0
  \/ outcome.op = "rollback" /\ outcome.ok
  => outcome.stmts \cap conn.durable = {}

(* execute_sync() that reports success has run its statement, with its own *)
(* row, and it did not fail.                                               *)
SyncIsTruthful ==
  [][cpc = "error" /\ cpc' = "idle" /\ call.op = "execute_sync" /\ error = 0
       => call.n \in done /\ ranWith[call.n] = call.n /\ call.n \notin failed]_vars

(* cancel() is noexcept and indexes tasks_ with at(), without the lock:    *)
(* the id it holds names a live task.                                      *)
CancelSafe == kpc = "send" => kid \in DOMAIN tasks /\ tasks[kid] # "null"

(* The worker leaves its loop only when everything that was handed to it   *)
(* has been run, and the destructor returns only after that.               *)
ShutdownDrains == wpc = "exit" \/ cpc = "ended" => pending = NoJob /\ posted = done /\ wpc = "exit"

(* Every call returns, the destructor included.                            *)
CallsReturn == cpc # "idle" ~> cpc \in {"idle", "ended", "crashed"}

-----------------------------------------------------------------------------
(* The inductive invariant behind the safety properties (AsyncDbProofs).   *)

(* Where the caller is determines which call it is making.                 *)
CallShape ==
  /\ cpc \in {"post", "slot", "notify", "drain2"} => call.op \in JobOps /\ call.n = calls /\ calls > 0
  /\ cpc = "drain1" =>
       \/ call.op \in {"drain", "destroy"}
       \/ call.op \in {"commit", "rollback"} /\ call.n = calls /\ calls > 0
  /\ cpc \in {"sticky", "status"} => call.op = "commit" /\ call.n = calls /\ calls > 0
  /\ cpc = "reset" => call.op \in {"commit", "rollback"}
  /\ cpc = "push" => call.op = "prepare"
  /\ cpc \in {"stop", "notifyall", "join", "ended"} => call.op = "destroy"
  /\ cpc \in {"post", "slot", "notify", "drain2", "push"} /\ call.op = "prepare"
       => Len(tasks) < MaxTasks
  /\ cpc \in {"post", "slot"} /\ call.op \in TaskOps => call.id \in DOMAIN tasks
  /\ cpc \in {"post", "slot"} /\ call.op \in StmtOps => param[call.id] = call.n

(* A job in the queue or in hand is complete, and carries its own row.     *)
JobShape(j) ==
  /\ j.op # "none" /\ j.n \in CallNos
  /\ j.op \in TaskOps => j.id \in DOMAIN tasks
  /\ j.op \in StmtOps => j.snap = j.n

JobsShape ==
  /\ pending # NoJob => JobShape(pending)
  /\ wpc \in Working \cup {"fin"} => JobShape(job)
  /\ wpc = "fetch" => job.op \in StmtOps
  /\ wpc = "note" => job.op \in TaskOps

(* The hand-over: busy_ says that a job is in hand, and a job not yet      *)
(* posted is younger than every posted one.                                *)
Handover ==
  /\ busy <=> wpc \in Working
  /\ posted \subseteq 1 .. calls
  /\ cpc \in {"post", "slot", "sticky"} \/ (cpc = "drain1" /\ call.op \in {"commit", "rollback"})
       => call.n \notin posted

(* Once a call has drained, the worker is idle until the call returns.     *)
QuietPlaces ==
  cpc \in {"sticky", "status", "reset", "push", "stop", "notifyall", "join", "ended"} => told

(* commit() that found no error has the worker to itself until it returns, *)
(* so error_ stays empty.                                                  *)
CommitAlone ==
  /\ cpc = "status" => cerr = 0
  /\ cpc \in {"post", "slot", "notify", "drain2", "status"} /\ call.op = "commit" /\ cerr = 0 =>
       /\ error = 0
       /\ wpc \in Working => job.op = "commit"
       /\ pending # NoJob => pending.op = "commit"

(* stop_ is set by the destructor alone, after which nothing is posted.    *)
Stopping ==
  /\ stop => cpc \in {"notifyall", "join", "ended"}
  /\ wpc = "exit" => stop
  /\ cpc = "ended" => wpc = "exit"

(* Only jobs that have run can have failed, and one that is about to be    *)
(* noted has.                                                              *)
FailuresRan ==
  /\ failed \subseteq done \cup InHand
  /\ wpc = "note" => job.n \in failed

(* The worker and the caller hand over exactly one job at a time: these    *)
(* facts about post_to_worker(), drain() and worker_loop() hold together,  *)
(* each call of the API and each step of the worker keeps all of them, and *)
(* the promises named above follow from them.                              *)
IndInv ==
  /\ TypeOK /\ CallShape /\ JobsShape /\ Handover /\ Fifo /\ NoLostWakeup
  /\ QuietWhenTold /\ QuietPlaces /\ CommitAlone /\ Stopping /\ SnapshotIsolated
  /\ FailuresRan /\ FirstErrorWins

-----------------------------------------------------------------------------
(* What a caller of async_db relies on is TxSession: transactions that     *)
(* happen as a whole or not at all.  A transaction is decided when the     *)
(* worker has run the COMMIT or the ROLLBACK of the call in progress.      *)

Decided ==
  /\ call.op \in {"commit", "rollback"}
  /\ call.n \in done \/ (wpc = "ran" /\ job.n = call.n)

Session == INSTANCE TxSession WITH
  Stmts   <- CallNos,
  open    <- IF Decided THEN {} ELSE asked,
  durable <- conn.durable,
  verdict <- IF ~Decided THEN "none"
             ELSE IF call.op = "rollback" \/ cerr # 0 THEN "failed"
             ELSE IF reply THEN "committed" ELSE "unknown"

(* async_db implements an atomic transactional session: statements run in  *)
(* the background on another thread, but commit() and rollback() decide    *)
(* about exactly the statements asked for since the last one.              *)
TransactionsAtomic == Session!Spec

-----------------------------------------------------------------------------
(* What the comments of async_db.hpp and async_db.cpp say and the code     *)
(* does not do: TLC refutes each on a small instance.                      *)

(* "the worker keeps the first error, refuses every task after it"         *)
(* (async_db.hpp:47-49): no statement is executed once error_ is set.      *)
StickyRefusesAll == [][ranWith' # ranWith => error = 0]_vars

(* "Once room is free, the wait is over: the previous job (if there was    *)
(* one) is now known to be finished" (async_db.hpp:458-459): when exec()   *)
(* returns finished, every job queued before its own is done.              *)
ExecAfterPrevious ==
  [][cpc = "error" /\ cpc' = "idle" /\ call.op = "exec" /\ error = 0
       => posted \ {call.n} \subseteq done]_vars

(* exec() before a select's rows are drained "blocks ... rather than       *)
(* losing the pending rows" (async_db.hpp:94-98): no exec() replaces a     *)
(* result that still has rows to fetch.                                    *)
ExecKeepsRows ==
  [][wpc = "run" /\ wpc' = "fetch" /\ job.op = "exec" => cursor[job.id] = 0]_vars

(* prepare() returns "a handle, or the error that prepare() reported"      *)
(* (async_db.hpp:414): every handle names a prepared task.                 *)
HandlesPrepared == \A i \in DOMAIN tasks : tasks[i] # "null"

(* cancel() sees "this IS the job in flight right now, never a stale one   *)
(* from a job that already finished" (async_db.hpp:613-615): the request   *)
(* reaches the job it was meant for or none.                               *)
CancelHitsItsJob == hit[1] = hit[2]

(* cancel() may read tasks_ without the lock because it is only appended   *)
(* to "by prepare(), on the worker" (async_db.cpp:127-128): the caller     *)
(* does not append to it while a cancel() is about to read it.             *)
TasksNotRaced == ~(kpc = "send" /\ cpc = "push")
=============================================================================
