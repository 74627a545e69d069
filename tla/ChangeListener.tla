--------------------------- MODULE ChangeListener ---------------------------
(***************************************************************************)
(* db_psql::on_change() (rtl/psql/psql_rtl.cpp): change notification over  *)
(* LISTEN/NOTIFY.  Two threads share the object: the caller, who connects, *)
(* registers handlers and disconnects, and listen_worker_, who alone uses  *)
(* the second connection listen_conn_ and calls the handlers.  The server  *)
(* sends a notification whenever some session commits a change to a table  *)
(* that has the trigger, at any moment.                                    *)
(*                                                                         *)
(* Grain.  A critical section of listen_mtx_, a round trip on either       *)
(* connection, a wakeup of poll() and a handler call are one step each.    *)
(* run_pending_listen() notifies while it holds the lock, so waiting on    *)
(* pending_listen_cv_ is the guard pending_listen_done_.                   *)
(*                                                                         *)
(* Data.  A channel is its table; a handler is the number of the on_change *)
(* call that passed it (0: none); a change is the number of the committed  *)
(* transaction.                                                            *)
(***************************************************************************)
EXTENDS DbTx, Naturals, Sequences, SequencesExt, FiniteSets

CONSTANTS Tables,        \* the tables on_change() is called for
          Writes,        \* what a transaction of another session does to one table
          MaxCalls,      \* bound on the on_change() calls
          MaxChanges,    \* bound on the transactions of other sessions
          MaxConnects,   \* bound on the connect() calls
          ListenMayFail, \* the second connection, its thread or LISTEN may fail
          PollMayFail    \* poll() may be interrupted, it or PQconsumeInput() may fail

ASSUME ChangeListenerAssumption ==
  /\ Writes \subseteq Seq({"INSERT", "UPDATE", "DELETE"})
  /\ MaxCalls \in Nat /\ MaxChanges \in Nat /\ MaxConnects \in Nat
  /\ ListenMayFail \in BOOLEAN /\ PollMayFail \in BOOLEAN
  /\ Backend = "psql"

VARIABLES
  \* the members of db_psql
  linked,     \* data()->conn is not null
  conn,       \* the main connection and its transaction
  stop,       \* stop_listen_
  pending,    \* pending_listen_: a set with at most one channel
  done,       \* pending_listen_done_
  result,     \* pending_listen_result_ is success
  handlers,   \* handlers_
  \* listen_conn_: the server's session, the socket and libpq's buffer
  listening,  \* the channels the session has run LISTEN for
  wire,       \* notifications sent by the server and not read yet
  buffered,   \* notifications libpq has read and PQnotifies() has not returned
  \* the threads
  cpc,        \* the caller's place
  arg,        \* the table of its on_change() call
  wpc,        \* the worker's place; "none" when listen_worker_ is not joinable
  chan,       \* the worker's local copy of pending_listen_, and LISTEN's outcome
  hand,       \* the notification being handled
  \* history
  calls, connects, changes,
  newest,     \* the last on_change() call that succeeded, per table
  owed,       \* changes committed while their handler was registered
  log         \* the handler calls made

main == <<linked, conn>>
request == <<pending, done, result>>
session == <<listening, wire, buffered>>
worker == <<wpc, chan, hand>>
history == <<calls, connects, changes, newest, owed, log>>
vars == <<main, stop, request, handlers, session, cpc, arg, worker, history>>

Notifications == [chan : Tables, op : {"INSERT", "UPDATE", "DELETE"}, tx : 1..MaxChanges]
NoTable == "no table"
NoHand == [by |-> 0]

Init ==
  /\ linked = FALSE /\ conn = [Connected EXCEPT !.tx = "lost"]
  /\ stop = FALSE
  /\ pending = {} /\ done = FALSE /\ result = FALSE
  /\ handlers = [t \in Tables |-> 0]
  /\ listening = {} /\ wire = <<>> /\ buffered = <<>>
  /\ cpc = "idle" /\ arg = NoTable
  /\ wpc = "none" /\ chan = [table |-> NoTable, ok |-> FALSE] /\ hand = NoHand
  /\ calls = 0 /\ connects = 0 /\ changes = 0
  /\ newest = [t \in Tables |-> 0] /\ owed = {} /\ log = <<>>

-----------------------------------------------------------------------------
(* The caller.                                                             *)

Goto(pc) == cpc' = pc

(* connect(): refused while there is a connection object.  A failed BEGIN  *)
(* leaves the object in place.                                             *)
Connect ==
  /\ cpc = "idle" /\ ~linked
  /\ connects < MaxConnects
  /\ connects' = connects + 1
  /\ linked' = TRUE
  /\ \E a \in PsqlBeginCommand([conn EXCEPT !.tx = "none"]) : conn' = a.conn
  /\ UNCHANGED <<stop, request, handlers, session, cpc, arg, worker,
                 calls, changes, newest, owed, log>>

(* create_change_trigger(): three commands, rollback() at the first that   *)
(* fails, commit() after the last.                                         *)
DdlAnswers(answers, t) ==
  UNION { IF ~a.ok THEN {a}
          ELSE UNION { IF s.ok THEN {s}
                       ELSE { Answer(FALSE, r.conn) : r \in RollbackAnswers(s.conn) }
                       : s \in StatementAnswers(a.conn, t) }
          : a \in answers }

CommittedDdl(answers) ==
  UNION { IF a.ok THEN CommitAnswers(a.conn) ELSE {a} : a \in answers }

CreateChangeTrigger(c, t) ==
  CommittedDdl(DdlAnswers(DdlAnswers(DdlAnswers({Answer(TRUE, c)}, t), t), t))

(* on_change(), first part: the trigger, on the caller's own connection.   *)
(* Without one the first command fails and nothing changes.                *)
OnChange(t) ==
  /\ cpc = "idle" /\ linked
  /\ calls < MaxCalls
  /\ calls' = calls + 1
  /\ arg' = t
  /\ \E a \in CreateChangeTrigger(conn, t) :
       /\ conn' = a.conn
       /\ Goto(IF a.ok THEN "start" ELSE "idle")
  /\ UNCHANGED <<linked, stop, request, handlers, session, worker,
                 connects, changes, newest, owed, log>>

(* start_listen_worker(): the first call opens listen_conn_ and starts the *)
(* thread, later ones find it joinable.                                    *)
WorkerJoinable ==
  /\ cpc = "start" /\ wpc # "none"
  /\ Goto("queue")
  /\ UNCHANGED <<main, stop, request, handlers, session, arg, worker, history>>

StartListenWorker ==
  /\ cpc = "start" /\ wpc = "none"
  /\ \/ /\ Goto("queue") /\ wpc' = "top"
        /\ listening' = {} /\ wire' = <<>> /\ buffered' = <<>>
     \/ /\ ListenMayFail /\ Goto("idle")
        /\ UNCHANGED <<session, wpc>>
  /\ UNCHANGED <<main, stop, request, handlers, arg, chan, hand, history>>

(* on_change(), last part: queue the LISTEN, wait, register the handler.   *)
QueueListen ==
  /\ cpc = "queue"
  /\ pending' = {arg} /\ done' = FALSE
  /\ Goto("wait")
  /\ UNCHANGED <<main, stop, result, handlers, session, arg, worker, history>>

FaultyRegisteredAnyway(h, t, ok) == [h EXCEPT ![t] = calls]
Registered(h, t, ok) == IF ok THEN [h EXCEPT ![t] = calls] ELSE h

RegisterHandler ==
  /\ cpc = "wait" /\ done
  /\ handlers' = Registered(handlers, arg, result)
  /\ newest' = IF result THEN [newest EXCEPT ![arg] = calls] ELSE newest
  /\ Goto("idle")
  /\ UNCHANGED <<main, stop, request, session, arg, worker, calls, connects, changes, owed, log>>

(* disconnect(), from the caller or the destructor: ask the worker to stop *)
(* and join it.                                                            *)
FaultyStopped == stop
Stopped == TRUE

Disconnect ==
  /\ cpc = "idle"
  /\ \/ linked /\ stop' = Stopped /\ \E pc \in {"join", "destroy"} : Goto(pc)
     \/ ~linked /\ Goto("dead") /\ UNCHANGED stop
  /\ UNCHANGED <<main, request, handlers, session, arg, worker, history>>

FaultyJoined == TRUE
Joined == wpc \in {"none", "exited"}

(* After the join: PQfinish(listen_conn_), rollback, PQfinish(conn).       *)
FinishDisconnect ==
  /\ cpc \in {"join", "destroy"} /\ Joined
  /\ wpc' = IF wpc = "exited" THEN "none" ELSE wpc
  /\ listening' = {} /\ wire' = <<>> /\ buffered' = <<>>
  /\ linked' = FALSE /\ conn' = RolledBack(conn, "lost")
  /\ owed' = {}
  /\ Goto(IF cpc = "destroy" THEN "dead" ELSE "idle")
  /\ UNCHANGED <<stop, request, handlers, arg, chan, hand, calls, connects, changes, newest, log>>

-----------------------------------------------------------------------------
(* listen_worker_.                                                         *)

WorkerAt(pc) == wpc' = pc

FaultyReadLast == wire
Read == buffered \o wire

FaultyHasPending == pending \ listening # {}
HasPending == pending # {}

(* The head of listen_loop(): the test of stop_listen_ and the first       *)
(* critical section of run_pending_listen().                               *)
LoopHead ==
  /\ wpc = "top"
  /\ WorkerAt(CASE stop -> "exited" [] ~stop /\ HasPending -> "listen" [] OTHER -> "poll")
  /\ chan' = IF ~stop /\ HasPending
             THEN [chan EXCEPT !.table = CHOOSE t \in pending : TRUE] ELSE chan
  /\ UNCHANGED <<main, stop, request, handlers, session, cpc, arg, hand, history>>

(* PQexec("LISTEN ...").  PQexec reads the socket up to the answer, so any *)
(* notification sent before it ends up in libpq's buffer.                  *)
RunListen ==
  /\ wpc = "listen"
  /\ buffered' = Read /\ wire' = <<>>
  /\ \E ok \in {TRUE} \cup When(ListenMayFail, {FALSE}) :
       /\ chan' = [chan EXCEPT !.ok = ok]
       /\ listening' = IF ok THEN listening \cup {chan.table} ELSE listening
  /\ WorkerAt("report")
  /\ UNCHANGED <<main, stop, request, handlers, cpc, arg, hand, history>>

(* The second critical section of run_pending_listen(), with its notify.   *)
ReportListen ==
  /\ wpc = "report"
  /\ pending' = {} /\ done' = TRUE /\ result' = chan.ok
  /\ WorkerAt("poll")
  /\ UNCHANGED <<main, stop, handlers, session, cpc, arg, chan, hand, history>>

(* poll() times out with nothing on the socket.                            *)
PollIdle ==
  /\ wpc = "poll" /\ wire = <<>>
  /\ WorkerAt("top")
  /\ UNCHANGED <<main, stop, request, handlers, session, cpc, arg, chan, hand, history>>

(* poll() is interrupted by a signal (EINTR), or it or PQconsumeInput()    *)
(* fails and the thread's function returns.                                *)
PollFails ==
  /\ wpc = "poll" /\ PollMayFail
  /\ \E pc \in {"top", "exited"} : WorkerAt(pc)
  /\ UNCHANGED <<main, stop, request, handlers, session, cpc, arg, chan, hand, history>>

PollReady ==
  /\ wpc = "poll" /\ wire # <<>>
  /\ buffered' = Read /\ wire' = <<>>
  /\ WorkerAt("drain")
  /\ UNCHANGED <<main, stop, request, handlers, listening, cpc, arg, chan, hand, history>>

(* PQnotifies() and the lookup of the handler under the lock.              *)
HandlerOf(n) == handlers[n.chan]

TakeNotification ==
  /\ wpc = "drain"
  /\ \/ buffered = <<>> /\ WorkerAt("top") /\ UNCHANGED <<buffered, hand>>
     \/ /\ buffered # <<>> /\ buffered' = Tail(buffered)
        /\ \/ HandlerOf(Head(buffered)) = 0 /\ UNCHANGED <<wpc, hand>>
           \/ /\ HandlerOf(Head(buffered)) # 0 /\ WorkerAt("call")
              /\ hand' = [by |-> HandlerOf(Head(buffered)), note |-> Head(buffered)]
  /\ UNCHANGED <<main, stop, request, handlers, listening, wire, cpc, arg, chan, history>>

(* The handler runs, on this thread and without the lock.                  *)
CallHandler ==
  /\ wpc = "call"
  /\ log' = Append(log, hand)
  /\ hand' = NoHand
  /\ WorkerAt("drain")
  /\ UNCHANGED <<main, stop, request, handlers, session, cpc, arg, chan,
                 calls, connects, changes, newest, owed>>

-----------------------------------------------------------------------------
(* Another session commits a transaction that changes rows of table t: the *)
(* trigger queues one notification per row, and the server drops the ones  *)
(* that repeat a channel and payload of the same transaction: every        *)
(* operation once, in the order of the first occurrences.                  *)
Delivered(ops) ==
  {s \in SeqOf(ToSet(ops), Len(ops)) :
     /\ ToSet(s) = ToSet(ops)
     /\ \A i, j \in DOMAIN s : i < j =>
          \E k \in DOMAIN ops : ops[k] = s[i] /\ \A l \in 1..k : ops[l] # s[j]}

Notes(t, s, n) == [i \in DOMAIN s |-> [chan |-> t, op |-> s[i], tx |-> n]]

Registering(t) == handlers[t] # 0 /\ linked /\ cpc \notin {"join", "destroy"}

Change(t, ops) ==
  /\ changes < MaxChanges
  /\ changes' = changes + 1
  /\ \E s \in Delivered(ops) :
       wire' = IF t \in conn.durable \cap listening
               THEN wire \o Notes(t, s, changes + 1) ELSE wire
  /\ owed' = IF Registering(t)
             THEN owed \cup {[chan |-> t, ops |-> ops, tx |-> changes + 1, by |-> newest[t]]}
             ELSE owed
  /\ UNCHANGED <<main, stop, request, handlers, listening, buffered, cpc, arg, worker,
                 calls, connects, newest, log>>

Halted == cpc = "dead" /\ UNCHANGED vars

Caller ==
  \/ WorkerJoinable \/ StartListenWorker \/ QueueListen \/ RegisterHandler
  \/ FinishDisconnect

Worker ==
  \/ LoopHead \/ RunListen \/ ReportListen \/ PollIdle \/ PollReady
  \/ TakeNotification \/ CallHandler

Next ==
  \/ Connect \/ (\E t \in Tables : OnChange(t)) \/ Disconnect
  \/ Caller \/ Worker \/ PollFails
  \/ \E t \in Tables, ops \in Writes : Change(t, ops)
  \/ Halted

Spec == Init /\ [][Next]_vars

(* Both threads are scheduled, the server answers, poll() has a timeout    *)
(* and handlers return.  Nothing obliges the caller to make a call or      *)
(* anybody to change a table.                                              *)
FairSpec == Spec /\ WF_vars(Caller) /\ WF_vars(Worker)

-----------------------------------------------------------------------------
TypeOK ==
  /\ linked \in BOOLEAN
  /\ conn \in Connections(Tables)
  /\ stop \in BOOLEAN /\ done \in BOOLEAN /\ result \in BOOLEAN
  /\ pending \in SUBSET Tables /\ Cardinality(pending) <= 1
  /\ handlers \in [Tables -> 0..MaxCalls]
  /\ listening \in SUBSET Tables
  /\ wire \in Seq(Notifications) /\ buffered \in Seq(Notifications)
  /\ cpc \in {"idle", "start", "queue", "wait", "join", "destroy", "dead"}
  /\ arg \in Tables \cup {NoTable}
  /\ wpc \in {"none", "top", "listen", "report", "poll", "drain", "call", "exited"}

(* on_change() leaves a handler in handlers_ only when everything behind   *)
(* it is in place: the trigger is committed and the listening session has  *)
(* run LISTEN for the channel, whatever part failed and however often the  *)
(* call was repeated.                                                      *)
RegisteredIsWired ==
  \A t \in Tables :
    Registering(t) => t \in conn.durable /\ t \in listening

InFlight == ToSet(wire) \cup ToSet(buffered) \cup (IF wpc = "call" THEN {hand.note} ELSE {})
Handled == {log[i].note : i \in DOMAIN log}

(* Every change committed while a handler was registered for its table is  *)
(* handled or still on its way, whatever the caller registers, replaces or *)
(* queues meanwhile: listen_loop() and LISTEN on the same connection do    *)
(* not drop what the other one read.                                       *)
NothingLost ==
  linked /\ cpc \notin {"join", "destroy"} /\ wpc # "exited" =>
    \A o \in owed : \A op \in ToSet(o.ops) :
      [chan |-> o.chan, op |-> op, tx |-> o.tx] \in InFlight \cup Handled

(* Handlers are called in the order of the commits, each change once.      *)
HandledInOrder ==
  \A i, j \in DOMAIN log :
    i < j => \/ log[i].note.tx < log[j].note.tx
             \/ log[i].note.tx = log[j].note.tx /\ log[i].note.op # log[j].note.op

(* A change committed after on_change() replaced a handler is never given  *)
(* to the handler it replaced: the lookup happens after the notification   *)
(* was read.                                                               *)
NewHandlerServes ==
  \A o \in owed : \A i \in DOMAIN log : log[i].note.tx = o.tx => log[i].by >= o.by

(* Once disconnect() (or the destructor) has returned, no handler runs.    *)
QuietAfterDisconnect == [][log' # log => linked]_vars

(* on_change() returns while the listening thread is there to run its      *)
(* LISTEN: the request, the stop flag and the notify lose no wakeup.  (A   *)
(* thread that has left listen_loop() stays joinable and is not replaced;  *)
(* see AlwaysReturns.)                                                     *)
OnChangeReturns == cpc = "wait" ~> (cpc = "idle" \/ wpc = "exited")

(* disconnect() and the destructor return, wherever the listening thread   *)
(* they join was.                                                          *)
DisconnectReturns == cpc \in {"join", "destroy"} ~> cpc \in {"idle", "dead"}

(* Whoever is registered is served: the table is wired on the server and   *)
(* the newest handler gets the changes.                                    *)
HandlersServed == TypeOK /\ RegisteredIsWired /\ NewHandlerServes

(* A change of a registered table is delivered: not lost between the       *)
(* server, libpq and the handlers, not twice, and in the order of commits. *)
NotificationsKept == NothingLost /\ HandledInOrder

-----------------------------------------------------------------------------
(* What the repository says and the code does not do; TLC refutes each on  *)
(* a small instance.                                                       *)

(* "listen_loop() itself picks this up on its own next wakeup": on_change()*)
(* returns, also after a reconnect and after an error of poll().           *)
AlwaysReturns == cpc = "wait" ~> cpc = "idle"

(* "on every wakeup drains PQnotifies()": while the connection stays up, a *)
(* notification that libpq holds is handed to its handler.                 *)
BufferedDispatched ==
  (buffered # <<>> /\ wpc # "none") ~> (buffered = <<>> \/ stop)

(* "replaces the previous handler": once on_change() has returned, the     *)
(* handler it replaced is not called any more.                             *)
ReplacedIsSilent ==
  [][wpc = "call" /\ log' # log /\ cpc = "idle" => hand.by = handlers[hand.note.chan]]_vars

(* "called ... once per row changed": when everything has been dispatched, *)
(* a handler was called as often as rows were changed.                     *)
OncePerRow ==
  (wire = <<>> /\ buffered = <<>> /\ wpc = "top" /\ cpc = "idle") =>
    \A o \in owed :
      Len(SelectSeq(log, LAMBDA h : h.note.tx = o.tx)) = Len(o.ops)
=============================================================================
