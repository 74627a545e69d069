----------------------------- MODULE PsqlQuery -----------------------------
(***************************************************************************)
(* rtl::query<params, results> on PostgreSQL (rtl/psql/query.hpp): query   *)
(* objects of one connection, used by one thread.  An object owns a named  *)
(* prepared statement on the server, its two buffers (rtl/parameter_root,  *)
(* rtl/result_root) and the rows of its last execute.  A batch, which      *)
(* libpq's pipeline mode sends row by row, is modelled call by call; every *)
(* other method is one step.                                               *)
(***************************************************************************)
EXTENDS DbTx, Integers, Sequences, FiniteSets

CONSTANTS Objs,        \* places a query object can live in
          MaxNames,    \* bound: query objects constructed
          MaxRuns,     \* bound: calls of execute()
          MaxSizings,  \* bound: calls of set_buffer_size()
          MaxTotal,    \* bound: rows of a result set
          MaxSize      \* bound: rows of a buffer

ASSUME PsqlQueryAssumption ==
  {MaxNames, MaxRuns, MaxSizings, MaxTotal} \subseteq Nat /\ MaxSize \in Nat \ {0}

VARIABLES
  conn,      \* the connection, see DbTx
  known,     \* names of the statements the server has prepared
  obj,       \* the query objects
  counter,   \* next_stmt_id()
  runs,      \* calls of execute() so far
  sizings,   \* calls of set_buffer_size() so far
  batch,     \* the batch in progress, or Idle
  \* history
  clashed,   \* a first prepare() was refused because its name was taken (42P05)
  report,    \* what the last batch reported and what the server did of it
  failed     \* the batches reported as failed with every row sent

vars == <<conn, known, obj, counter, runs, sizings, batch, clashed, report, failed>>

NoObject == [alive |-> FALSE]
NoReport == [run |-> 0]
Idle == [pc |-> "idle", queue |-> <<>>]
Buffer(gen, rows) == [gen |-> gen, rows |-> rows]

FaultyNameOf(o) == 0
NameOf(o) == counter

(* Construction: buffers of one row (the generated constructor calls       *)
(* set_buffer_size(), which counts), nothing prepared.  run, served, from  *)
(* and at are history: the last execute, the rows fetch() served of the    *)
(* result in hand, and whose rows the last fetch served, after which one.  *)
New(o) ==
  [alive |-> TRUE, db |-> TRUE, name |-> NameOf(o), prepared |-> FALSE,
   par |-> Buffer(1, 1), res |-> Buffer(1, 1), boundPar |-> 0, boundRes |-> 0,
   rows |-> 0, total |-> 0, next |-> 0, fetched |-> 0, affected |-> -1, occupied |-> 0,
   status |-> <<0>>, run |-> 0, served |-> 0, from |-> 0, at |-> 0]

Init ==
  /\ conn = Connected /\ known = {}
  /\ obj = [o \in Objs |-> NoObject]
  /\ counter = 0 /\ runs = 0 /\ sizings = 0
  /\ batch = Idle /\ clashed = FALSE /\ report = NoReport /\ failed = {}

Usable(o) == batch.pc = "idle" /\ obj[o].alive /\ obj[o].db
Becomes(o, f) == obj' = [obj EXCEPT ![o] = f]

Construct(o) ==
  /\ batch.pc = "idle" /\ ~obj[o].alive /\ counter < MaxNames
  /\ Becomes(o, New(o)) /\ counter' = counter + 1
  /\ UNCHANGED <<conn, known, runs, sizings, batch, clashed, report, failed>>

(* ~query(): DEALLOCATE, which fails in an aborted transaction, and with   *)
(* 26000 when the server does not know the name.                           *)
DeallocateAnswers(c, n) ==
  (IF Accepting(c) /\ n \in known THEN {Answer(TRUE, c)} ELSE {Answer(FALSE, AfterFailure(c))})
  \cup DroppedAnswers(c)

Destroy(o) ==
  /\ batch.pc = "idle" /\ obj[o].alive
  /\ IF obj[o].prepared /\ obj[o].db
     THEN \E a \in DeallocateAnswers(conn, obj[o].name) :
            conn' = a.conn /\ known' = IF a.ok THEN known \ {obj[o].name} ELSE known
     ELSE UNCHANGED <<conn, known>>
  /\ Becomes(o, NoObject)
  /\ UNCHANGED <<counter, runs, sizings, batch, clashed, report, failed>>

(* query(query&& o): the source keeps its name but owns nothing.           *)
FaultyMovedFrom(f) == f
MovedFrom(f) == [f EXCEPT !.prepared = FALSE, !.db = FALSE]

Move(o, p) ==
  /\ Usable(o) /\ ~obj[p].alive
  /\ obj' = [obj EXCEPT ![p] = obj[o], ![o] = MovedFrom(obj[o])]
  /\ UNCHANGED <<conn, known, counter, runs, sizings, batch, clashed, report, failed>>

(* set_buffer_size() of either buffer: 0 rows become 1, the storage is     *)
(* replaced (the status array with it), the generation counted.  How many  *)
(* rows are occupied is not looked at.                                     *)
Resized(b, n) == Buffer(b.gen + 1, IF n = 0 THEN 1 ELSE n)

SizeParams(o, n) ==
  /\ Usable(o) /\ sizings < MaxSizings
  /\ LET b == Resized(obj[o].par, n) IN
     Becomes(o, [obj[o] EXCEPT !.par = b, !.status = [r \in 1..b.rows |-> 0]])
  /\ sizings' = sizings + 1
  /\ UNCHANGED <<conn, known, counter, runs, batch, clashed, report, failed>>

SizeResults(o, n) ==
  /\ Usable(o) /\ sizings < MaxSizings
  /\ Becomes(o, [obj[o] EXCEPT !.res = Resized(@, n)])
  /\ sizings' = sizings + 1
  /\ UNCHANGED <<conn, known, counter, runs, batch, clashed, report, failed>>

(* prepare(): PQprepare under the object's name, which the server refuses  *)
(* when it has one; only a success records the buffers' generations.       *)
Bound(f) == [f EXCEPT !.prepared = TRUE, !.boundPar = f.par.gen, !.boundRes = f.res.gen]
NamedAnswers(c, n) ==
  IF n \in known /\ Accepting(c) THEN {Answer(FALSE, AfterFailure(c))} \cup DroppedAnswers(c)
  ELSE PrepareAnswers(c)

Prepare(o) ==
  /\ Usable(o)
  /\ \E a \in NamedAnswers(conn, obj[o].name) :
       /\ conn' = a.conn
       /\ known' = IF a.ok THEN known \cup {obj[o].name} ELSE known
       /\ obj' = IF a.ok THEN [obj EXCEPT ![o] = Bound(@)] ELSE obj
  /\ clashed' = (clashed \/ (~obj[o].prepared /\ obj[o].name \in known /\ Accepting(conn)))
  /\ UNCHANGED <<counter, runs, sizings, batch, report, failed>>

-----------------------------------------------------------------------------
(* execute() of one parameter row.  A failure, an early return included,   *)
(* leaves everything of the previous execute in place.                     *)
LayoutOK(f) == f.par.gen = f.boundPar /\ f.res.gen = f.boundRes
Refused(f) == ~f.prepared \/ ~LayoutOK(f)

FaultyExecuted(f, run, total) == [f EXCEPT !.rows = run, !.total = total, !.served = 0]
Executed(f, run, total) ==
  [f EXCEPT !.rows = run, !.total = total, !.next = 0, !.affected = -1, !.served = 0]

CountRun == runs < MaxRuns /\ runs' = runs + 1

ExecuteRefused(o) ==
  /\ Usable(o) /\ CountRun
  /\ Refused(obj[o]) \/ obj[o].par.rows > 1   \* PQenterPipelineMode may fail
  /\ Becomes(o, [obj[o] EXCEPT !.run = runs'])
  /\ UNCHANGED <<conn, known, counter, sizings, batch, clashed, report, failed>>

Execute(o) ==
  /\ Usable(o) /\ ~Refused(obj[o]) /\ obj[o].par.rows = 1 /\ CountRun
  /\ \E a \in StatementAnswers(conn, <<runs', 1>>), total \in 0..MaxTotal :
       /\ conn' = a.conn
       /\ Becomes(o, [(IF a.ok THEN Executed(obj[o], runs', total) ELSE obj[o]) EXCEPT !.run = runs'])
  /\ UNCHANGED <<known, counter, sizings, batch, clashed, report, failed>>

(* execute_batch(): enter pipeline mode, send the rows, synchronise, read  *)
(* two results per row sent and two for the synchronisation, leave.        *)
BatchStart(o) ==
  /\ Usable(o) /\ ~Refused(obj[o]) /\ obj[o].par.rows > 1 /\ CountRun
  /\ batch' = [pc |-> "send", queue |-> <<>>, o |-> o, sent |-> 0, read |-> 0,
               sendError |-> FALSE, firstError |-> FALSE, executed |-> {}]
  /\ Becomes(o, [obj[o] EXCEPT !.run = runs'])
  /\ UNCHANGED <<conn, known, counter, sizings, clashed, report, failed>>

BatchRows == obj[batch.o].par.rows

Send ==
  /\ batch.pc = "send" /\ batch.sent < BatchRows
  /\ \/ batch' = [batch EXCEPT !.sent = @ + 1]
     \/ batch' = [batch EXCEPT !.pc = "sync", !.sendError = TRUE]
  /\ UNCHANGED <<conn, known, obj, counter, runs, sizings, clashed, report, failed>>

(* What PQgetResult() will return, one item per call, when failAt is the   *)
(* first row that fails (the rows behind it never run).                    *)
Replies(sent, failAt) ==
  [i \in 1..(2 * sent) |->
     LET r == (i + 1) \div 2 IN
     CASE i % 2 = 0  -> "null"
       [] r < failAt -> "ok"
       [] r = failAt -> "error"
       [] OTHER      -> "aborted"]
  \o <<"sync", "null">>

(* The rows take effect together: in the open transaction, committed by    *)
(* the synchronisation when there is none, or not at all.                  *)
AfterBatch(c, ns) ==
  IF c.tx = "open" THEN [c EXCEPT !.work = @ \cup ns] ELSE [c EXCEPT !.durable = @ \cup ns]

Answered ==
  \E failAt \in IF Accepting(conn) THEN 1..(batch.sent + 1) ELSE {1} :
    /\ conn' = IF failAt > batch.sent THEN AfterBatch(conn, {<<runs, r>> : r \in 1..batch.sent})
               ELSE AfterFailure(conn)
    /\ batch' = [batch EXCEPT !.pc = "read", !.executed = 1..(failAt - 1),
                              !.queue = Replies(batch.sent, failAt)]

Dropped ==
  /\ conn' = [conn EXCEPT !.tx = "lost", !.work = {}]
  /\ batch' = [batch EXCEPT !.pc = "read", !.queue = <<"error">>]

Sync ==
  /\ batch.pc = "sync" \/ (batch.pc = "send" /\ batch.sent = BatchRows)
  /\ \/ conn.tx # "lost" /\ Answered
     \/ (conn.tx = "lost" \/ ConnMayDrop) /\ Dropped
  /\ obj' = [obj EXCEPT ![batch.o].status = [r \in DOMAIN @ |-> 0]]
  /\ UNCHANGED <<known, counter, runs, sizings, clashed, report, failed>>

(* The reply to one row and the nullptr behind it; every row from the      *)
(* first error on is marked.  With nothing left PQgetResult() returns      *)
(* nullptr, whose status is an error.                                      *)
GetResult(q) == IF q = <<>> THEN "null" ELSE Head(q)
Rest(q) == IF q = <<>> THEN q ELSE Tail(q)
FaultyAfterRead(q) == Rest(q)
AfterRead(q) == Rest(Rest(q))
Mark(bad, reply) == IF bad \/ reply # "ok" THEN 5 ELSE 0

Read ==
  /\ batch.pc = "read" /\ batch.read < batch.sent
  /\ LET reply == GetResult(batch.queue) IN
     /\ batch' = [batch EXCEPT !.firstError = @ \/ reply # "ok", !.read = @ + 1, !.queue = AfterRead(@)]
     /\ obj' = [obj EXCEPT ![batch.o].status[batch.read + 1] = Mark(batch.firstError, reply)]
  /\ UNCHANGED <<conn, known, counter, runs, sizings, clashed, report, failed>>

BatchDone(f) == [f EXCEPT !.rows = 0, !.total = 0, !.next = 0, !.affected = f.par.rows, !.served = 0]
BatchOk(b) == ~b.sendError /\ ~b.firstError

Finish ==
  /\ batch.pc = "read" /\ batch.read = batch.sent
  /\ LET ok == BatchOk(batch)
         o  == batch.o
     IN  /\ batch' = [Idle EXCEPT !.queue = AfterRead(batch.queue)]
         /\ obj' = IF ok THEN [obj EXCEPT ![o] = BatchDone(@)] ELSE obj
         /\ report' = [run |-> runs, ok |-> ok, sent |-> ~batch.sendError,
                        status |-> obj[o].status, executed |-> batch.executed]
         /\ failed' = IF ok \/ batch.sendError THEN failed ELSE failed \cup {runs}
  /\ UNCHANGED <<conn, known, counter, runs, sizings, clashed>>

-----------------------------------------------------------------------------
(* fetch(): the next page, a layout or a result set missing refused.       *)
Page(f) == IF f.total - f.next < f.res.rows THEN f.total - f.next ELSE f.res.rows

Fetch(o) ==
  /\ Usable(o) /\ LayoutOK(obj[o]) /\ obj[o].rows # 0
  /\ LET f == obj[o]
         n == Page(f)
     IN  Becomes(o, [f EXCEPT !.next = @ + n, !.fetched = n, !.occupied = n, !.served = @ + n,
                              !.from = IF n > 0 THEN f.rows ELSE @, !.at = IF n > 0 THEN f.run ELSE @])
  /\ UNCHANGED <<conn, known, counter, runs, sizings, batch, clashed, report, failed>>

(* reset(): forget the result, keep the statement.                         *)
Reset(o) ==
  /\ Usable(o)
  /\ Becomes(o, [obj[o] EXCEPT !.rows = 0, !.next = 0, !.total = 0, !.fetched = 0, !.affected = -1,
                               !.occupied = 0, !.served = 0, !.status = [r \in DOMAIN @ |-> 0]])
  /\ UNCHANGED <<conn, known, counter, runs, sizings, batch, clashed, report, failed>>

(* The application ends its transaction.                                   *)
EndTransaction ==
  /\ batch.pc = "idle"
  /\ \E a \in CommitAnswers(conn) \cup RollbackAnswers(conn) : conn' = a.conn
  /\ UNCHANGED <<known, obj, counter, runs, sizings, batch, clashed, report, failed>>

Next ==
  \/ \E o \in Objs :
       \/ Construct(o) \/ Destroy(o) \/ Prepare(o) \/ ExecuteRefused(o) \/ Execute(o)
       \/ BatchStart(o) \/ Fetch(o) \/ Reset(o)
       \/ \E n \in 0..MaxSize : SizeParams(o, n) \/ SizeResults(o, n)
       \/ \E p \in Objs : Move(o, p)
  \/ Send \/ Sync \/ Read \/ Finish \/ EndTransaction

Spec == Init /\ [][Next]_vars

-----------------------------------------------------------------------------
Runs == 1..MaxRuns
Alive == {o \in Objs : obj[o].alive}
Owners == {o \in Alive : obj[o].prepared /\ obj[o].db}

TypeOK ==
  /\ conn \in Connections(Runs \X (1..MaxSize))
  /\ known \subseteq 0..(MaxNames - 1)
  /\ counter \in 0..MaxNames /\ runs \in 0..MaxRuns /\ sizings \in 0..MaxSizings
  /\ failed \subseteq Runs
  /\ \A o \in Alive :
       /\ obj[o].par.rows \in 1..MaxSize /\ obj[o].res.rows \in 1..MaxSize
       /\ DOMAIN obj[o].status = 1..obj[o].par.rows
       /\ obj[o].rows \in 0..MaxRuns /\ obj[o].affected \in {-1} \cup 1..MaxSize

(* A statement on the server has one owner: names are never shared, and an *)
(* object that says prepared_ has its statement there.                     *)
OneOwner ==
  /\ \A o \in Owners : obj[o].name \in known
  /\ \A o, p \in Owners : obj[o].name = obj[p].name => o = p

(* prepare() of an object that holds no statement is never refused because *)
(* the server has the name already.  (A second prepare() of an object that *)
(* holds one always is: nothing deallocates the first.)                    *)
NoNameClash == ~clashed

(* A destructor never takes the transaction down ("the second one fails    *)
(* with 26000, which on PostgreSQL puts the whole transaction into 25P02"). *)
DestroyHarmless ==
  [][\A o \in Objs : obj[o].alive /\ ~obj'[o].alive /\ conn.tx = "open" => conn'.tx # "aborted"]_vars

(* fetch() walks through the rows of one result once, in order, and never  *)
(* past its end (total_rows_ - next_row_ is unsigned).                     *)
PagesInOrder ==
  \A o \in Alive : obj[o].next <= obj[o].total /\ obj[o].next = obj[o].served

(* Whatever fails in a batch, every reply is read and pipeline mode is     *)
(* left: the connection never stays in it with results pending.            *)
PipelineLeft == batch.pc = "idle" => batch.queue = <<>>

(* row_status() after a batch whose rows were all sent: a row is marked ok *)
(* exactly when the server executed it ("every row is either ok or never   *)
(* ran").  (Rows that were never sent keep the status ok.)                 *)
RowStatusHonest ==
  report.run # 0 /\ report.sent =>
    \A r \in DOMAIN report.status : (report.status[r] = 0) <=> (r \in report.executed)

(* A batch that succeeds executed every row of the buffer, whatever        *)
(* happened while it was sent.                                             *)
OkMeansAll == report.run # 0 /\ report.ok => report.executed = DOMAIN report.status

(* "one bad row fails the whole batch, and nothing from it lands": no row  *)
(* of a batch that was reported as failed is ever committed, in a          *)
(* transaction or outside.  (When a send failed, the rows before it land.) *)
AllOrNothing == \A d \in conn.durable : d[1] \notin failed

(* Every object has its own statement on the server, through moves, resets *)
(* and destructions of all of them.                                        *)
NamesOwned == TypeOK /\ OneOwner /\ NoNameClash

(* What a batch reports is what became of its rows, whichever send or row  *)
(* of it failed, and the connection is fit for the next statement.         *)
BatchHonest == PipelineLeft /\ RowStatusHonest /\ OkMeansAll /\ AllOrNothing

-----------------------------------------------------------------------------
(* What the repository says and the code does not do; TLC refutes each on  *)
(* a small instance.                                                       *)

(* "the rows of the last execute": fetch() serves rows of the execute that *)
(* was called last, never those of an earlier one.                         *)
FreshRows == \A o \in Alive : obj[o].from = obj[o].at

(* occupied(), "how many rows of the buffer the last fetch actually        *)
(* filled", never counts rows the buffer does not have.                    *)
OccupiedFits == \A o \in Alive : obj[o].occupied <= obj[o].res.rows
=============================================================================
