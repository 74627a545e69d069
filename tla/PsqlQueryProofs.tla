-------------------------- MODULE PsqlQueryProofs --------------------------
(***************************************************************************)
(* Proofs about PsqlQuery, for any number of places, objects, executes,    *)
(* resizes and rows.  Inv is the inductive invariant; the theorems at the  *)
(* end read the properties off it.                                         *)
(***************************************************************************)
EXTENDS PsqlQuery, DbOpsProofs, SequenceTheorems, TLAPS

Buffers == [gen : Nat, rows : 1..MaxSize]
StmtIds == 0..(MaxNames - 1)
Results == 0..MaxRuns
Affected == {-1} \cup (1..MaxSize)

(* A query object: its fields, a status per parameter row, and a cursor    *)
(* that stands behind the rows served.                                     *)
IsObject(f) ==
  /\ f \in [alive : {TRUE}, db : BOOLEAN, name : StmtIds, prepared : BOOLEAN,
            par : Buffers, res : Buffers, boundPar : Nat, boundRes : Nat,
            rows : Results, total : Nat, next : Nat, fetched : Nat,
            affected : Affected, occupied : Nat, status : {f.status},
            run : Nat, served : Nat, from : Nat, at : Nat]
  /\ f.status \in [1..f.par.rows -> {0, 5}]
  /\ f.next <= f.total /\ f.next = f.served

ObjectsOK ==
  /\ obj \in [Objs -> {obj[o] : o \in Objs}]
  /\ \A o \in Objs : obj[o] = NoObject \/ IsObject(obj[o])

CountersOK ==
  /\ counter \in 0..MaxNames /\ runs \in 0..MaxRuns /\ sizings \in 0..MaxSizings
  /\ known \subseteq 0..(counter - 1)
  /\ failed \subseteq 1..runs

(* The names of the objects that have a connection: handed out once, and   *)
(* on the server exactly when the object says so.                          *)
Holders == {o \in Objs : obj[o].alive /\ obj[o].db}

Names ==
  /\ \A o \in Holders : obj[o].name < counter /\ (obj[o].prepared <=> obj[o].name \in known)
  /\ \A o, p \in Holders : obj[o].name = obj[p].name => o = p
  /\ clashed = FALSE

(* The rows that have an effect, in the open transaction or committed: of  *)
(* executes that were called, and of no batch that failed with all its     *)
(* rows sent.                                                              *)
Effects == conn.work \cup conn.durable
Untouched(n) == \A d \in Effects : d[1] # n

RowsOK ==
  /\ conn \in Connections(Runs \X (1..MaxSize)) /\ Sound(conn)
  /\ \A d \in Effects : d[1] \in 1..runs /\ d[1] \notin failed

(* The batch in progress.  What is left to read is two replies per row not *)
(* read yet and two of the synchronisation, for some first row that fails, *)
(* or the error of a connection that was lost.                             *)
Left(sent, read, k) == SubSeq(Replies(sent, k), 2 * read + 1, 2 * sent + 2)

Replied(b, status, k) ==
  /\ b.queue = Left(b.sent, b.read, k)
  /\ b.executed = 1..(k - 1)
  /\ b.firstError <=> k <= b.read
  /\ \A r \in 1..b.read : (status[r] = 0) <=> r < k
  /\ k <= b.sent => Untouched(runs)

Hung(b, status) ==
  /\ b.queue = IF b.read = 0 THEN <<"error">> ELSE <<>>
  /\ b.executed = {}
  /\ b.firstError <=> b.read > 0
  /\ \A r \in 1..b.read : status[r] # 0
  /\ Untouched(runs)

IsBatch(b) ==
  /\ b \in [pc : {"send", "sync", "read"}, queue : {b.queue}, o : Objs, sent : Nat, read : Nat,
            sendError : BOOLEAN, firstError : BOOLEAN, executed : SUBSET Nat]
  /\ runs > 0 /\ runs \notin failed /\ obj[b.o].alive
  /\ b.pc = "send" => ~b.sendError /\ b.sent <= obj[b.o].par.rows
  /\ b.pc # "send" => (b.sendError <=> b.sent < obj[b.o].par.rows) /\ b.sent <= obj[b.o].par.rows
  /\ b.pc # "read" => b.read = 0 /\ ~b.firstError /\ b.executed = {} /\ Untouched(runs)
  /\ b.pc = "read" =>
       /\ b.read <= b.sent
       /\ \/ \E k \in 1..(b.sent + 1) : Replied(b, obj[b.o].status, k)
          \/ Hung(b, obj[b.o].status)

BatchOK == batch = Idle \/ IsBatch(batch)

ReportOK == RowStatusHonest /\ OkMeansAll

Inv == ObjectsOK /\ CountersOK /\ Names /\ RowsOK /\ BatchOK /\ ReportOK

-----------------------------------------------------------------------------
(* What the operations make of a query object.                             *)
SameStatement(f, g) ==
  g.alive = f.alive /\ g.db = f.db /\ g.name = f.name /\ g.prepared = f.prepared

(* The values the operations write are of their types.                     *)
LEMMA Values ==
  /\ \A n \in StmtIds : n \in Nat
  /\ 0 \in Results /\ -1 \in Affected /\ \A r \in Results : r \in Nat
  /\ \A b \in Buffers : b.rows \in Affected /\ b.gen \in Nat /\ b.rows \in Nat \ {0}
  BY PsqlQueryAssumption DEF StmtIds, Results, Affected, Buffers

(* A constructed object.                                                   *)
LEMMA NewObject ==
  ASSUME NEW o, counter \in 0..(MaxNames - 1)
  PROVE  /\ IsObject(New(o))
         /\ New(o).alive /\ New(o).db /\ New(o).name = counter /\ ~New(o).prepared
  <1>1. Buffer(1, 1) \in Buffers /\ Buffer(1, 1).rows = 1
    BY PsqlQueryAssumption DEF Buffer, Buffers
  <1>2. <<0>> \in [1..1 -> {0, 5}]
    OBVIOUS
  <1>. HIDE DEF Buffer, Buffers
  <1>. QED
    BY <1>1, <1>2, Values DEF New, NameOf, StmtIds, IsObject

(* The source of a move.                                                   *)
LEMMA MovedObject ==
  ASSUME NEW f, IsObject(f)
  PROVE  IsObject(MovedFrom(f)) /\ ~MovedFrom(f).db
  BY DEF MovedFrom, IsObject

(* set_buffer_size() of a buffer.                                          *)
LEMMA ResizedBuffer ==
  ASSUME NEW b \in Buffers, NEW n \in 0..MaxSize
  PROVE  Resized(b, n) \in Buffers
  BY PsqlQueryAssumption DEF Resized, Buffer, Buffers

(* set_buffer_size() of the parameters.                                    *)
LEMMA SizedParams ==
  ASSUME NEW f, IsObject(f), NEW b \in Buffers
  PROVE  LET g == [f EXCEPT !.par = b, !.status = [r \in 1..b.rows |-> 0]]
         IN  IsObject(g) /\ SameStatement(f, g)
  <1>. DEFINE z == [r \in 1..b.rows |-> 0]
  <1>1. z \in [1..b.rows -> {0, 5}]
    OBVIOUS
  <1>. HIDE DEF z
  <1>2. LET g == [f EXCEPT !.par = b, !.status = z]
        IN  IsObject(g) /\ SameStatement(f, g)
    BY <1>1 DEF IsObject, SameStatement
  <1>. QED
    BY <1>2 DEF z

(* set_buffer_size() of the results.                                       *)
LEMMA SizedResults ==
  ASSUME NEW f, IsObject(f), NEW b \in Buffers
  PROVE  LET g == [f EXCEPT !.res = b] IN IsObject(g) /\ SameStatement(f, g)
  BY DEF IsObject, SameStatement

(* prepare() that succeeded.                                               *)
LEMMA BoundObject ==
  ASSUME NEW f, IsObject(f)
  PROVE  /\ IsObject(Bound(f)) /\ Bound(f).alive /\ Bound(f).db = f.db /\ Bound(f).name = f.name
         /\ Bound(f).prepared
  BY DEF Bound, Buffers, IsObject

(* execute() counts, and keeps the rest when it fails.                     *)
LEMMA CountedObject ==
  ASSUME NEW f, IsObject(f), NEW run \in Nat
  PROVE  LET g == [f EXCEPT !.run = run]
         IN  IsObject(g) /\ SameStatement(f, g) /\ g.par = f.par
  BY DEF IsObject, SameStatement

(* A result is put in the place of another, its cursor in it.              *)
LEMMA PlacedResult ==
  ASSUME NEW f, IsObject(f), NEW rows \in Results, NEW total \in Nat, NEW next \in Nat,
         next <= total, NEW affected \in Affected
  PROVE  LET g == [f EXCEPT !.rows = rows, !.total = total, !.next = next,
                            !.affected = affected, !.served = next]
         IN  IsObject(g) /\ SameStatement(f, g)
  BY DEF IsObject, SameStatement

(* execute() that succeeded: a new result, its cursor at the start.        *)
LEMMA ExecutedObject ==
  ASSUME NEW f, IsObject(f), NEW run \in Results, NEW total \in Nat
  PROVE  LET g == Executed(f, run, total) IN IsObject(g) /\ SameStatement(f, g)
  <1>1. -1 \in Affected /\ 0 \in Nat /\ 0 <= total
    BY Values
  <1>. QED
    BY <1>1, PlacedResult, Zenon DEF Executed

(* A batch that succeeded.                                                 *)
LEMMA BatchDoneObject ==
  ASSUME NEW f, IsObject(f)
  PROVE  LET g == BatchDone(f) IN IsObject(g) /\ SameStatement(f, g)
  <1>1. f.par.rows \in Affected
    BY Values DEF IsObject
  <1>2. 0 \in Results /\ 0 \in Nat /\ 0 <= 0
    BY Values
  <1>. QED
    BY <1>1, <1>2, PlacedResult, Zenon DEF BatchDone

(* fetch(): the cursor moves by the page, and never past the end.          *)
LEMMA FetchedObject ==
  ASSUME NEW f, IsObject(f)
  PROVE  LET n == Page(f)
             g == [f EXCEPT !.next = @ + n, !.fetched = n, !.occupied = n, !.served = @ + n,
                            !.from = IF n > 0 THEN f.rows ELSE @, !.at = IF n > 0 THEN f.run ELSE @]
         IN  IsObject(g) /\ SameStatement(f, g)
  <1>. DEFINE n == Page(f)
  <1>1. f.next \in Nat /\ f.total \in Nat /\ f.served = f.next /\ f.next <= f.total
        /\ f.res.rows \in Nat /\ f.rows \in Nat /\ f.run \in Nat /\ f.from \in Nat /\ f.at \in Nat
    BY Values DEF IsObject
  <1>2. n \in Nat /\ f.next + n <= f.total /\ f.next + n \in Nat
    BY <1>1 DEF Page
  <1>. DEFINE from == IF n > 0 THEN f.rows ELSE f.from
              at == IF n > 0 THEN f.run ELSE f.at
              next == f.next + n
  <1>3. from \in Nat /\ at \in Nat /\ next \in Nat /\ next <= f.total
    BY <1>1, <1>2
  <1>4. n \in Nat /\ f.next + n = next /\ f.served + n = next
    BY <1>1, <1>2
  <1>. HIDE DEF n, from, at, next
  <1>5. LET g == [f EXCEPT !.next = next, !.fetched = n, !.occupied = n, !.served = next,
                            !.from = from, !.at = at]
        IN  IsObject(g) /\ SameStatement(f, g)
    BY <1>3, <1>4 DEF IsObject, SameStatement
  <1>6. [f EXCEPT !.next = @ + n, !.fetched = n, !.occupied = n, !.served = @ + n,
                            !.from = from, !.at = at]
        = [f EXCEPT !.next = next, !.fetched = n, !.occupied = n, !.served = next,
                            !.from = from, !.at = at]
    BY <1>4
  <1>. QED
    BY <1>5, <1>6 DEF n, from, at

(* The statuses start at ok again.                                         *)
LEMMA ClearedStatus ==
  ASSUME NEW f, IsObject(f)
  PROVE  [r \in DOMAIN f.status |-> 0] \in [1..f.par.rows -> {0, 5}]
  BY DEF IsObject

(* Only the statuses of an object change.                                  *)
LEMMA MarkedObject ==
  ASSUME NEW f, IsObject(f), NEW z \in [1..f.par.rows -> {0, 5}]
  PROVE  LET g == [f EXCEPT !.status = z]
         IN  IsObject(g) /\ SameStatement(f, g) /\ g.par = f.par /\ g.status = z
  BY DEF IsObject, SameStatement

(* reset(): no result, the cursor at the start.                            *)
LEMMA ResetObject ==
  ASSUME NEW f, IsObject(f)
  PROVE  LET g == [f EXCEPT !.rows = 0, !.next = 0, !.total = 0, !.fetched = 0, !.affected = -1,
                               !.occupied = 0, !.served = 0, !.status = [r \in DOMAIN @ |-> 0]]
         IN  IsObject(g) /\ SameStatement(f, g)
  <1>1. \A z \in [1..f.par.rows -> {0, 5}], rows \in Results, n \in Nat, affected \in Affected :
          LET g == [f EXCEPT !.rows = rows, !.next = n, !.total = n, !.fetched = n,
                             !.affected = affected, !.occupied = n, !.served = n, !.status = z]
          IN  IsObject(g) /\ SameStatement(f, g)
    <2>. TAKE z \in [1..f.par.rows -> {0, 5}], rows \in Results, n \in Nat, affected \in Affected
    <2>1. PICK h : h = [f EXCEPT !.rows = rows, !.total = n, !.next = n,
                                 !.affected = affected, !.served = n]
      OBVIOUS
    <2>2. n <= n /\ IsObject(h) /\ SameStatement(f, h) /\ h.par = f.par
      <3>1. n <= n
        OBVIOUS
      <3>2. h.par = f.par
        BY <2>1 DEF IsObject
      <3>. QED
        BY <2>1, <3>1, <3>2, PlacedResult
    <2>3. LET g == [h EXCEPT !.fetched = n, !.occupied = n, !.status = z]
          IN  IsObject(g) /\ SameStatement(f, g)
      BY <2>2 DEF IsObject, SameStatement
    <2>4. [h EXCEPT !.fetched = n, !.occupied = n, !.status = z]
          = [f EXCEPT !.rows = rows, !.next = n, !.total = n, !.fetched = n,
                      !.affected = affected, !.occupied = n, !.served = n, !.status = z]
      BY <2>1 DEF IsObject
    <2>. QED
      BY <2>3, <2>4
  <1>2. 0 \in Results /\ 0 \in Nat /\ -1 \in Affected
    BY Values
  <1>. DEFINE z == [r \in DOMAIN f.status |-> 0]
  <1>3. z \in [1..f.par.rows -> {0, 5}]
    BY ClearedStatus
  <1>. HIDE DEF z
  <1>4. LET g == [f EXCEPT !.rows = 0, !.next = 0, !.total = 0, !.fetched = 0, !.affected = -1,
                           !.occupied = 0, !.served = 0, !.status = z]
        IN  IsObject(g) /\ SameStatement(f, g)
    BY <1>1, <1>2, <1>3, Zenon
  <1>. QED
    BY <1>4 DEF z

-----------------------------------------------------------------------------
(* An object at a place changes.                                           *)
LEMMA ObjectSet ==
  ASSUME ObjectsOK, NEW o \in Objs, NEW g, g = NoObject \/ IsObject(g),
         obj' = [obj EXCEPT ![o] = g]
  PROVE  ObjectsOK'
  <1>1. DOMAIN obj = Objs /\ DOMAIN obj' = Objs /\ obj' \in [Objs -> {obj'[p] : p \in Objs}]
    BY DEF ObjectsOK
  <1>2. \A p \in Objs : obj'[p] = IF p = o THEN g ELSE obj[p]
    BY <1>1
  <1>. QED
    BY <1>1, <1>2 DEF ObjectsOK, IsObject

(* An object keeps its statement.                                          *)
LEMMA NamesKept ==
  ASSUME ObjectsOK, Names, NEW o \in Objs, NEW g, SameStatement(obj[o], g),
         obj' = [obj EXCEPT ![o] = g], UNCHANGED <<counter, known, clashed>>
  PROVE  Names'
  <1>1. \A p \in Objs : obj'[p] = IF p = o THEN g ELSE obj[p]
    BY DEF ObjectsOK
  <1>. QED
    BY <1>1 DEF Names, Holders, SameStatement

(* No batch is in progress but the one that IsBatch describes.             *)
LEMMA IdleBatch == ASSUME BatchOK, batch.pc = "idle" PROVE batch = Idle
  BY DEF BatchOK, IsBatch

(* An object that is there is one with all its fields.                     *)
LEMMA AliveObject == ASSUME ObjectsOK, NEW o \in Objs, obj[o].alive PROVE IsObject(obj[o])
  BY DEF ObjectsOK, NoObject

(* The name of an object that has a connection is a number handed out.     *)
LEMMA HolderName ==
  ASSUME ObjectsOK, NEW o \in Holders
  PROVE  o \in Objs /\ obj[o].alive /\ obj[o].db /\ IsObject(obj[o]) /\ obj[o].name \in Nat
  <1>1. o \in Objs /\ obj[o].alive /\ obj[o].db
    BY DEF Holders
  <1>2. IsObject(obj[o])
    BY <1>1, AliveObject
  <1>3. obj[o].name \in Nat
    BY <1>2, Values DEF IsObject
  <1>. QED
    BY <1>1, <1>2, <1>3

(* The connection after an answer: nothing new has an effect but S.        *)
Leaves(c, S) ==
  c \in Connections(Runs \X (1..MaxSize)) /\ Sound(c) /\ c.work \cup c.durable \subseteq Effects \cup S

(* Rows of new executes may take effect; no failed batch gains one.        *)
LEMMA RowsStep ==
  ASSUME RowsOK, CountersOK, NEW S, Leaves(conn', S), runs' \in Nat, runs <= runs', failed' = failed,
         \A d \in S : d[1] \in 1..runs' /\ d[1] \notin failed
  PROVE  RowsOK'
  <1>1. \A d \in Effects' : d \in Effects \/ d \in S
    BY DEF Leaves, Effects
  <1>2. \A d \in Effects : d[1] \in 1..runs' /\ d[1] \notin failed
    BY DEF RowsOK, CountersOK
  <1>. QED
    BY <1>1, <1>2 DEF RowsOK, Leaves

(* Every answer to a statement leaves a sound connection, and at most its  *)
(* own effect in it.                                                       *)
LEMMA StatementLeaves ==
  ASSUME RowsOK, NEW n \in Runs \X (1..MaxSize), NEW a \in StatementAnswers(conn, n)
  PROVE  Leaves(a.conn, {n})
  <1>1. conn \in Connections(Runs \X (1..MaxSize)) /\ Sound(conn)
    BY DEF RowsOK
  <1>2. a.conn \in Connections(Runs \X (1..MaxSize))
    BY <1>1, StatementType
  <1>3. \/ conn.tx = "open" /\ Is(a.conn, "open", conn.work \cup {n}, conn.durable)
        \/ conn.tx = "none" /\ Is(a.conn, "none", conn.work, conn.durable \cup {n})
        \/ Backend = "psql" /\ conn.tx = "open" /\ Is(a.conn, "aborted", conn.work, conn.durable)
        \/ Is(a.conn, conn.tx, conn.work, conn.durable)
        \/ Is(a.conn, "lost", {}, conn.durable)
    BY <1>1, StatementOutcome
  <1>. QED
    BY <1>1, <1>2, <1>3, DbTxAssumption DEF Leaves, Sound, Is, Effects

(* The connection after a failure, or after it was lost.                   *)
LEMMA FailureLeaves ==
  ASSUME RowsOK
  PROVE  /\ Leaves(conn, {}) /\ Leaves(AfterFailure(conn), {})
         /\ Leaves([conn EXCEPT !.tx = "lost", !.work = {}], {})
         /\ \A a \in DroppedAnswers(conn) : Leaves(a.conn, {}) /\ a.ok = FALSE
  <1>1. conn \in Connections(Runs \X (1..MaxSize)) /\ Sound(conn)
    BY DEF RowsOK
  <1>2. Leaves(conn, {})
    BY <1>1 DEF Leaves, Effects
  <1>3. Leaves(AfterFailure(conn), {})
    BY <1>1, DbTxAssumption DEF Leaves, Effects, AfterFailure, Sound, Connections, TxStates
  <1>4. Leaves([conn EXCEPT !.tx = "lost", !.work = {}], {})
    BY <1>1, DbTxAssumption DEF Leaves, Effects, Sound, Connections, TxStates
  <1>5. ASSUME NEW a \in DroppedAnswers(conn) PROVE Leaves(a.conn, {}) /\ a.ok = FALSE
    <2>1. a = Answer(FALSE, [conn EXCEPT !.tx = "lost", !.work = {}])
      BY <1>5, WhenMember DEF DroppedAnswers
    <2>. QED
      BY <1>4, <2>1 DEF Answer
  <1>. QED
    BY <1>2, <1>3, <1>4, <1>5

(* PREPARE has no effect.                                                  *)
LEMMA NamedLeaves ==
  ASSUME RowsOK, NEW n, NEW a \in NamedAnswers(conn, n)
  PROVE  Leaves(a.conn, {}) /\ a.ok \in BOOLEAN /\ (n \in known => ~a.ok)
  <1>. DEFINE F == Answer(FALSE, AfterFailure(conn))
  <1>1. F.ok = FALSE /\ F.conn = AfterFailure(conn)
    BY DEF Answer
  <1>2. CASE a \in DroppedAnswers(conn)
    BY <1>2, FailureLeaves
  <1>3. CASE a = F
    BY <1>1, <1>3, FailureLeaves
  <1>4. CASE a = Answer(TRUE, conn) /\ Accepting(conn) /\ ~(n \in known /\ Accepting(conn))
    BY <1>4, FailureLeaves DEF Answer
  <1>. QED
    BY <1>2, <1>3, <1>4 DEF NamedAnswers, PrepareAnswers, When

(* DEALLOCATE has no effect; of a statement the server has, in an open     *)
(* transaction, it succeeds or the connection is lost.                     *)
LEMMA DeallocateLeaves ==
  ASSUME RowsOK, NEW n, NEW a \in DeallocateAnswers(conn, n)
  PROVE  /\ Leaves(a.conn, {}) /\ a.ok \in BOOLEAN
         /\ n \in known /\ conn.tx = "open" => a.conn.tx \in {"open", "lost"}
  <1>. DEFINE F == Answer(FALSE, AfterFailure(conn))
  <1>1. F.ok = FALSE /\ F.conn = AfterFailure(conn)
    BY DEF Answer
  <1>2. CASE a \in DroppedAnswers(conn)
    <2>1. conn \in Connections(Runs \X (1..MaxSize))
      BY DEF RowsOK
    <2>2. a.conn.tx = "lost"
      BY <1>2, <2>1, DroppedOutcome DEF Is
    <2>. QED
      BY <1>2, <2>2, FailureLeaves
  <1>3. CASE a = F /\ ~(Accepting(conn) /\ n \in known)
    BY <1>1, <1>3, FailureLeaves DEF Accepting
  <1>4. CASE a = Answer(TRUE, conn)
    BY <1>4, FailureLeaves DEF Answer
  <1>. QED
    BY <1>2, <1>3, <1>4 DEF DeallocateAnswers

(* commit() and rollback() have no effect that was not pending.            *)
LEMMA EndLeaves ==
  ASSUME RowsOK, NEW a \in CommitAnswers(conn) \cup RollbackAnswers(conn)
  PROVE  Leaves(a.conn, {})
  <1>1. conn \in Connections(Runs \X (1..MaxSize)) /\ Sound(conn)
    BY DEF RowsOK
  <1>2. a.conn \in Connections(Runs \X (1..MaxSize))
    BY <1>1, CommitType, RollbackType
  <1>3. CASE a \in CommitAnswers(conn)
    <2>1. \/ Is(a.conn, "open", {}, conn.durable \cup conn.work)
          \/ Is(a.conn, "open", {}, conn.durable)
          \/ Backend = "psql" /\ Is(a.conn, "none", {}, conn.durable)
          \/ Is(a.conn, "lost", {}, conn.durable)
          \/ Is(a.conn, "lost", {}, conn.durable \cup conn.work)
      BY <1>1, <1>3, CommitOutcome
    <2>. QED
      BY <1>2, <2>1 DEF Leaves, Sound, Is, Effects
  <1>4. CASE a \in RollbackAnswers(conn)
    <2>1. Is(a.conn, "open", {}, conn.durable) \/ Is(a.conn, "lost", {}, conn.durable)
      BY <1>1, <1>4, RollbackOutcome
    <2>. QED
      BY <1>2, <2>1 DEF Leaves, Sound, Is, Effects
  <1>. QED
    BY <1>3, <1>4

-----------------------------------------------------------------------------
(* The steps of an object outside a batch.                                 *)

(* The constructor.                                                        *)
LEMMA ConstructStep == ASSUME Inv, NEW o \in Objs, Construct(o) PROVE Inv'
  <1>. USE DEF Construct
  <1>1. counter \in 0..(MaxNames - 1) /\ counter \in Nat
    BY PsqlQueryAssumption DEF Inv, CountersOK
  <1>2. PICK g : g = New(o)
    OBVIOUS
  <1>3. IsObject(g) /\ g.alive /\ g.db /\ g.name = counter /\ ~g.prepared
    BY <1>1, <1>2, NewObject
  <1>4. obj' = [obj EXCEPT ![o] = g]
    BY <1>2 DEF Becomes
  <1>5. ObjectsOK'
    BY <1>3, <1>4, ObjectSet DEF Inv
  <1>6. CountersOK'
    BY <1>1, PsqlQueryAssumption DEF Inv, CountersOK
  <1>7. Names'
    <2>1. \A p \in Objs : obj'[p] = IF p = o THEN g ELSE obj[p]
      BY <1>4 DEF Inv, ObjectsOK
    <2>2. counter \notin known
      BY <1>1 DEF Inv, CountersOK
    <2>3. \A p \in Holders : p # o /\ obj[p].name < counter /\ obj[p].name \in Nat
      BY HolderName DEF Inv, Names, Holders
    <2>4. \A p \in Holders' : p = o \/ p \in Holders
      BY <2>1 DEF Holders
    <2>5. \A p \in Holders : obj'[p] = obj[p]
      BY <2>1, <2>3 DEF Holders
    <2>6. ASSUME NEW p \in Holders'
          PROVE  obj'[p].name < counter' /\ (obj'[p].prepared <=> obj'[p].name \in known')
      <3>1. CASE p = o
        BY <1>1, <1>3, <2>1, <2>2, <3>1
      <3>2. CASE p \in Holders
        BY <1>1, <2>3, <2>5, <3>2 DEF Inv, Names
      <3>. QED
        BY <2>4, <3>1, <3>2
    <2>7. ASSUME NEW p \in Holders', NEW q \in Holders', obj'[p].name = obj'[q].name PROVE p = q
      <3>1. obj'[o].name = counter
        BY <1>3, <2>1
      <3>2. CASE p = o /\ q \in Holders
        BY <1>1, <2>3, <2>5, <2>7, <3>1, <3>2
      <3>3. CASE q = o /\ p \in Holders
        BY <1>1, <2>3, <2>5, <2>7, <3>1, <3>3
      <3>4. CASE p \in Holders /\ q \in Holders
        BY <2>5, <2>7, <3>4 DEF Inv, Names
      <3>. QED
        BY <2>4, <3>2, <3>3, <3>4
    <2>. QED
      BY <2>6, <2>7 DEF Inv, Names
  <1>8. RowsOK' /\ BatchOK' /\ ReportOK'
    BY IdleBatch DEF Inv, RowsOK, Effects, BatchOK, ReportOK, RowStatusHonest, OkMeansAll
  <1>. QED
    BY <1>5, <1>6, <1>7, <1>8 DEF Inv

(* The destructor.                                                         *)
LEMMA DestroyStep == ASSUME Inv, NEW o \in Objs, Destroy(o) PROVE Inv'
  <1>. USE DEF Destroy
  <1>1. obj' = [obj EXCEPT ![o] = NoObject] /\ IsObject(obj[o])
    BY AliveObject DEF Becomes, Inv
  <1>2. ObjectsOK'
    BY <1>1, ObjectSet DEF Inv
  <1>3. /\ Leaves(conn', {})
        /\ \/ known' = known
           \/ obj[o].db /\ known' = known \ {obj[o].name}
    <2>1. CASE obj[o].prepared /\ obj[o].db
      <3>1. PICK a \in DeallocateAnswers(conn, obj[o].name) :
              conn' = a.conn /\ known' = IF a.ok THEN known \ {obj[o].name} ELSE known
        BY <2>1
      <3>2. Leaves(a.conn, {}) /\ a.ok \in BOOLEAN
        BY DeallocateLeaves DEF Inv
      <3>3. known' = known \/ known' = known \ {obj[o].name}
        BY <3>1, <3>2
      <3>. QED
        BY <2>1, <3>1, <3>2, <3>3
    <2>2. CASE ~(obj[o].prepared /\ obj[o].db)
      BY <2>2, FailureLeaves DEF Inv
    <2>. QED
      BY <2>1, <2>2
  <1>4. CountersOK'
    BY <1>3 DEF Inv, CountersOK
  <1>5. Names'
    <2>1. \A p \in Objs : obj'[p] = IF p = o THEN NoObject ELSE obj[p]
      BY <1>1 DEF Inv, ObjectsOK
    <2>2. \A p \in Holders' : p \in Holders /\ p # o /\ obj'[p] = obj[p]
      BY <2>1 DEF Holders, NoObject
    <2>3. \A p \in Holders' : obj[p].name \in known <=> obj[p].name \in known'
      <3>. SUFFICES ASSUME NEW p \in Holders', known' = known \ {obj[o].name}, obj[o].db
                    PROVE  obj[p].name # obj[o].name
        BY <1>3
      <3>1. o \in Holders /\ p \in Holders /\ p # o
        BY <2>2 DEF Holders
      <3>. QED
        BY <3>1 DEF Inv, Names
    <2>. QED
      BY <2>2, <2>3 DEF Inv, Names
  <1>6. RowsOK'
    <2>1. runs \in Nat
      BY PsqlQueryAssumption DEF Inv, CountersOK
    <2>2. \A d \in {} : d[1] \in 1..runs /\ d[1] \notin failed
      OBVIOUS
    <2>. QED
      BY <1>3, <2>1, <2>2, RowsStep DEF Inv
  <1>7. BatchOK' /\ ReportOK'
    BY IdleBatch DEF Inv, BatchOK, ReportOK, RowStatusHonest, OkMeansAll
  <1>. QED
    BY <1>2, <1>4, <1>5, <1>6, <1>7 DEF Inv

(* The move constructor.                                                   *)
LEMMA MoveStep == ASSUME Inv, NEW o \in Objs, NEW p \in Objs, Move(o, p) PROVE Inv'
  <1>. USE DEF Move, Usable
  <1>1. PICK f, g : f = obj[o] /\ g = MovedFrom(obj[o])
    OBVIOUS
  <1>2. IsObject(f) /\ f.db /\ IsObject(g) /\ ~g.db /\ o # p
    BY <1>1, AliveObject, MovedObject DEF Inv
  <1>3. \A q \in Objs : obj'[q] = IF q = o THEN g ELSE IF q = p THEN f ELSE obj[q]
    BY <1>1, <1>2 DEF Inv, ObjectsOK
  <1>4. ObjectsOK'
    <2>1. DOMAIN obj' = Objs /\ obj' \in [Objs -> {obj'[q] : q \in Objs}]
      BY DEF Inv, ObjectsOK
    <2>2. \A q \in Objs : obj[q] = NoObject \/ IsObject(obj[q])
      BY DEF Inv, ObjectsOK
    <2>3. \A q \in Objs : obj'[q] = NoObject \/ IsObject(obj'[q])
      BY <1>2, <1>3, <2>2
    <2>. QED
      BY <2>1, <2>3 DEF ObjectsOK, IsObject
  <1>5. Names'
    <2>1. o \in Holders /\ p \notin Holders
      BY <1>1, <1>2 DEF Holders
    <2>. DEFINE from(q) == IF q = p THEN o ELSE q
    <2>2. \A q \in Holders' : from(q) \in Holders /\ obj'[q] = obj[from(q)] /\ q # o
      BY <1>1, <1>2, <1>3, <2>1 DEF Holders
    <2>3. \A q, r \in Holders' : from(q) = from(r) => q = r
      BY <2>2
    <2>. HIDE DEF from
    <2>4. ASSUME NEW q \in Holders'
          PROVE  obj'[q].name < counter' /\ (obj'[q].prepared <=> obj'[q].name \in known')
      <3>1. PICK r \in Holders : obj'[q] = obj[r]
        BY <2>2
      <3>2. counter' = counter /\ known' = known
        OBVIOUS
      <3>3. obj[r].name < counter /\ (obj[r].prepared <=> obj[r].name \in known)
        BY DEF Inv, Names
      <3>. QED
        BY <3>1, <3>2, <3>3
    <2>5. ASSUME NEW q \in Holders', NEW r \in Holders', obj'[q].name = obj'[r].name PROVE q = r
      BY <2>2, <2>3, <2>5 DEF Inv, Names
    <2>. QED
      BY <2>4, <2>5 DEF Inv, Names
  <1>6. CountersOK' /\ RowsOK' /\ BatchOK' /\ ReportOK'
    BY IdleBatch DEF Inv, CountersOK, RowsOK, Effects, BatchOK, ReportOK, RowStatusHonest, OkMeansAll
  <1>. QED
    BY <1>4, <1>5, <1>6 DEF Inv

(* A step that changes an object and neither its statement nor the         *)
(* connection.                                                             *)
LEMMA ObjectStep ==
  ASSUME Inv, NEW o \in Objs, Usable(o), NEW g, IsObject(g), SameStatement(obj[o], g), Becomes(o, g),
         runs' \in runs..MaxRuns, sizings' \in 0..MaxSizings,
         UNCHANGED <<conn, known, counter, batch, clashed, report, failed>>
  PROVE  Inv'
  <1>1. ObjectsOK' /\ Names'
    BY ObjectSet, NamesKept DEF Inv, Becomes
  <1>2. runs \in Nat /\ runs' \in Nat /\ runs <= runs' /\ runs' \in 0..MaxRuns
    BY PsqlQueryAssumption DEF Inv, CountersOK
  <1>3. CountersOK'
    BY <1>2 DEF Inv, CountersOK
  <1>4. RowsOK'
    <2>1. Leaves(conn', {})
      BY FailureLeaves DEF Inv
    <2>2. \A d \in {} : d[1] \in 1..runs' /\ d[1] \notin failed
      OBVIOUS
    <2>. QED
      BY <1>2, <2>1, <2>2, RowsStep DEF Inv
  <1>5. BatchOK' /\ ReportOK'
    BY IdleBatch DEF Inv, Usable, BatchOK, ReportOK, RowStatusHonest, OkMeansAll
  <1>. QED
    BY <1>1, <1>3, <1>4, <1>5 DEF Inv

(* set_buffer_size(), a refused execute(), fetch() and reset().            *)
LEMMA BufferStep ==
  ASSUME Inv, NEW o \in Objs, NEW n \in 0..MaxSize,
         SizeParams(o, n) \/ SizeResults(o, n) \/ ExecuteRefused(o) \/ Fetch(o) \/ Reset(o)
  PROVE  Inv'
  <1>. USE DEF SizeParams, SizeResults, ExecuteRefused, Fetch, Reset, Usable
  <1>1. IsObject(obj[o])
    BY AliveObject DEF Inv
  <1>2. runs \in runs..MaxRuns /\ sizings \in 0..MaxSizings /\ runs \in Nat
    BY PsqlQueryAssumption DEF Inv, CountersOK
  <1>3. sizings < MaxSizings => sizings + 1 \in 0..MaxSizings
    BY <1>2, PsqlQueryAssumption
  <1>4. obj[o].par \in Buffers /\ obj[o].res \in Buffers
    BY <1>1 DEF IsObject
  <1>5. CASE SizeParams(o, n)
    <2>1. PICK b : b = Resized(obj[o].par, n)
      OBVIOUS
    <2>2. PICK g : g = [obj[o] EXCEPT !.par = b, !.status = [r \in 1..b.rows |-> 0]]
      OBVIOUS
    <2>3. b \in Buffers
      BY <1>4, <2>1, ResizedBuffer
    <2>4. IsObject(g) /\ SameStatement(obj[o], g)
      BY <1>1, <2>2, <2>3, SizedParams
    <2>5. Becomes(o, g)
      BY <1>5, <2>1, <2>2
    <2>6. runs' \in runs..MaxRuns /\ sizings' \in 0..MaxSizings
      BY <1>2, <1>3, <1>5
    <2>. QED
      BY <1>5, <2>4, <2>5, <2>6, ObjectStep
  <1>6. CASE SizeResults(o, n)
    <2>1. PICK b : b = Resized(obj[o].res, n)
      OBVIOUS
    <2>2. PICK g : g = [obj[o] EXCEPT !.res = b]
      OBVIOUS
    <2>3. b \in Buffers
      BY <1>4, <2>1, ResizedBuffer
    <2>4. IsObject(g) /\ SameStatement(obj[o], g)
      BY <1>1, <2>2, <2>3, SizedResults
    <2>5. Becomes(o, g)
      BY <1>6, <2>1, <2>2
    <2>6. runs' \in runs..MaxRuns /\ sizings' \in 0..MaxSizings
      BY <1>2, <1>3, <1>6
    <2>. QED
      BY <1>6, <2>4, <2>5, <2>6, ObjectStep
  <1>7. CASE ExecuteRefused(o)
    <2>1. runs' \in Nat /\ runs' \in runs..MaxRuns
      BY <1>2, <1>7, PsqlQueryAssumption DEF CountRun
    <2>2. PICK g : g = [obj[o] EXCEPT !.run = runs']
      OBVIOUS
    <2>3. IsObject(g) /\ SameStatement(obj[o], g)
      BY <1>1, <2>1, <2>2, CountedObject
    <2>4. Becomes(o, g)
      BY <1>7, <2>2
    <2>. QED
      BY <1>2, <1>7, <2>1, <2>3, <2>4, ObjectStep
  <1>8. CASE Fetch(o)
    <2>1. PICK m : m = Page(obj[o])
      OBVIOUS
    <2>2. PICK g : g = [obj[o] EXCEPT !.next = @ + m, !.fetched = m, !.occupied = m, !.served = @ + m,
                       !.from = IF m > 0 THEN obj[o].rows ELSE @, !.at = IF m > 0 THEN obj[o].run ELSE @]
      OBVIOUS
    <2>3. IsObject(g) /\ SameStatement(obj[o], g)
      BY <1>1, <2>1, <2>2, FetchedObject
    <2>4. Becomes(o, g)
      BY <1>8, <2>1, <2>2
    <2>. QED
      BY <1>2, <1>8, <2>3, <2>4, ObjectStep
  <1>9. CASE Reset(o)
    <2>1. PICK g : g = [obj[o] EXCEPT !.rows = 0, !.next = 0, !.total = 0, !.fetched = 0,
                          !.affected = -1, !.occupied = 0, !.served = 0,
                          !.status = [r \in DOMAIN @ |-> 0]]
      OBVIOUS
    <2>2. IsObject(g) /\ SameStatement(obj[o], g)
      BY <1>1, <2>1, ResetObject
    <2>3. Becomes(o, g)
      BY <1>9, <2>1
    <2>. QED
      BY <1>2, <1>9, <2>2, <2>3, ObjectStep
  <1>. QED
    BY <1>5, <1>6, <1>7, <1>8, <1>9

(* prepare().                                                              *)
LEMMA PrepareStep == ASSUME Inv, NEW o \in Objs, Prepare(o) PROVE Inv'
  <1>. USE DEF Usable
  <1>1. o \in Holders /\ IsObject(obj[o]) /\ obj[o].db
    BY AliveObject DEF Inv, Holders, Prepare
  <1>2. PICK a \in NamedAnswers(conn, obj[o].name) :
          /\ conn' = a.conn
          /\ known' = IF a.ok THEN known \cup {obj[o].name} ELSE known
          /\ obj' = IF a.ok THEN [obj EXCEPT ![o] = Bound(@)] ELSE obj
    BY DEF Prepare
  <1>3. Leaves(a.conn, {}) /\ a.ok \in BOOLEAN /\ (obj[o].name \in known => ~a.ok)
    BY NamedLeaves DEF Inv
  <1>4. clashed' = FALSE
    <2>1. ~(~obj[o].prepared /\ obj[o].name \in known /\ Accepting(conn)) /\ clashed = FALSE
      BY <1>1 DEF Inv, Names
    <2>. QED
      BY <2>1, Zenon DEF Prepare
  <1>5. /\ UNCHANGED <<counter, runs, sizings, batch, report, failed>>
        /\ batch.pc = "idle"
    BY DEF Prepare
  <1>6. CountersOK'
    <2>1. obj[o].name \in 0..(counter - 1)
      <3>1. obj[o].name \in Nat /\ obj[o].name < counter
        BY <1>1, HolderName DEF Inv, Names
      <3>. QED
        BY <3>1 DEF Inv, CountersOK
    <2>2. known' \subseteq 0..(counter - 1)
      BY <1>2, <2>1 DEF Inv, CountersOK
    <2>. QED
      BY <1>5, <2>2 DEF Inv, CountersOK
  <1>7. RowsOK'
    <2>1. runs \in Nat /\ runs <= runs
      BY PsqlQueryAssumption DEF Inv, CountersOK
    <2>2. \A d \in {} : d[1] \in 1..runs /\ d[1] \notin failed
      OBVIOUS
    <2>. QED
      BY <1>2, <1>3, <1>5, <2>1, <2>2, RowsStep DEF Inv
  <1>8. BatchOK' /\ ReportOK'
    BY <1>5, IdleBatch DEF Inv, BatchOK, ReportOK, RowStatusHonest, OkMeansAll
  <1>9. ObjectsOK' /\ Names'
    <2>1. CASE ~a.ok
      BY <1>2, <1>4, <1>5, <2>1 DEF Inv, ObjectsOK, IsObject, Names, Holders
    <2>2. CASE a.ok
      <3>1. PICK g : g = Bound(obj[o])
        OBVIOUS
      <3>2. IsObject(g) /\ g.alive /\ g.db /\ g.name = obj[o].name /\ g.prepared
        BY <1>1, <3>1, BoundObject
      <3>3. obj' = [obj EXCEPT ![o] = g]
        BY <1>2, <2>2, <3>1
      <3>4. \A p \in Objs : obj'[p] = IF p = o THEN g ELSE obj[p]
        BY <3>3 DEF Inv, ObjectsOK
      <3>5. \A p \in Holders' : p \in Holders /\ obj'[p].name = obj[p].name
        BY <1>1, <3>2, <3>4 DEF Holders
      <3>6. \A p \in Holders' : p # o => obj'[p] = obj[p] /\ obj[p].name # obj[o].name
        BY <1>1, <3>4, <3>5 DEF Inv, Names, Holders
      <3>7. known' = known \cup {obj[o].name}
        BY <1>2, <2>2
      <3>8. ASSUME NEW p \in Holders'
            PROVE  obj'[p].name < counter' /\ (obj'[p].prepared <=> obj'[p].name \in known')
        <4>1. obj[p].name < counter /\ (obj[p].prepared <=> obj[p].name \in known)
          BY <3>5 DEF Inv, Names
        <4>2. CASE p = o
          BY <1>5, <3>2, <3>4, <3>5, <3>7, <4>1, <4>2
        <4>3. CASE p # o
          BY <1>5, <3>6, <3>7, <4>1, <4>3
        <4>. QED
          BY <4>2, <4>3
      <3>9. \A p, q \in Holders' : obj'[p].name = obj'[q].name => p = q
        BY <3>5 DEF Inv, Names
      <3>. QED
        BY <1>4, <3>2, <3>3, <3>8, <3>9, ObjectSet DEF Inv, Names
    <2>. QED
      BY <1>3, <2>1, <2>2
  <1>. QED
    BY <1>6, <1>7, <1>8, <1>9 DEF Inv

(* execute() of one row.                                                   *)
LEMMA ExecuteStep == ASSUME Inv, NEW o \in Objs, Execute(o) PROVE Inv'
  <1>. USE DEF Usable
  <1>1. IsObject(obj[o])
    BY AliveObject DEF Inv, Execute
  <1>2. runs \in Nat /\ runs' = runs + 1 /\ runs' \in 0..MaxRuns /\ runs' \in Results /\ runs' \in Nat
        /\ runs <= runs' /\ runs' \in Runs
    BY PsqlQueryAssumption DEF Inv, CountersOK, Execute, CountRun, Results, Runs
  <1>3. PICK a \in StatementAnswers(conn, <<runs', 1>>), total \in 0..MaxTotal :
          /\ conn' = a.conn
          /\ Becomes(o, [(IF a.ok THEN Executed(obj[o], runs', total) ELSE obj[o]) EXCEPT !.run = runs'])
    BY DEF Execute
  <1>4. UNCHANGED <<known, counter, sizings, batch, clashed, report, failed>> /\ batch.pc = "idle"
    BY DEF Execute
  <1>5. <<runs', 1>> \in Runs \X (1..MaxSize)
    BY <1>2, PsqlQueryAssumption
  <1>6. Leaves(conn', {<<runs', 1>>})
    BY <1>3, <1>5, StatementLeaves DEF Inv
  <1>7. PICK f : f = IF a.ok THEN Executed(obj[o], runs', total) ELSE obj[o]
    OBVIOUS
  <1>8. PICK g : g = [f EXCEPT !.run = runs']
    OBVIOUS
  <1>9. total \in Nat
    BY PsqlQueryAssumption
  <1>10. IsObject(f) /\ SameStatement(obj[o], f)
    BY <1>1, <1>2, <1>7, <1>9, ExecutedObject DEF SameStatement
  <1>11. IsObject(g) /\ SameStatement(obj[o], g)
    BY <1>2, <1>8, <1>10, CountedObject DEF SameStatement
  <1>12. ObjectsOK' /\ Names'
    BY <1>3, <1>4, <1>7, <1>8, <1>11, ObjectSet, NamesKept DEF Inv, Becomes
  <1>13. CountersOK'
    BY <1>2, <1>4 DEF Inv, CountersOK
  <1>14. RowsOK'
    <2>1. \A d \in {<<runs', 1>>} : d[1] \in 1..runs' /\ d[1] \notin failed
      BY <1>2 DEF Inv, CountersOK
    <2>. QED
      BY <1>2, <1>4, <1>6, <2>1, RowsStep DEF Inv
  <1>15. BatchOK' /\ ReportOK'
    BY <1>4, IdleBatch DEF Inv, BatchOK, ReportOK, RowStatusHonest, OkMeansAll
  <1>. QED
    BY <1>12, <1>13, <1>14, <1>15 DEF Inv

(* The application's commit() or rollback().                               *)
LEMMA EndTransactionStep == ASSUME Inv, EndTransaction PROVE Inv'
  <1>1. UNCHANGED <<known, obj, counter, runs, sizings, batch, clashed, report, failed>>
        /\ batch.pc = "idle" /\ Leaves(conn', {})
    BY EndLeaves DEF Inv, EndTransaction
  <1>2. RowsOK'
    <2>1. runs \in Nat /\ runs <= runs
      BY PsqlQueryAssumption DEF Inv, CountersOK
    <2>2. \A d \in {} : d[1] \in 1..runs /\ d[1] \notin failed
      OBVIOUS
    <2>. QED
      BY <1>1, <2>1, <2>2, RowsStep DEF Inv
  <1>3. ObjectsOK' /\ CountersOK' /\ Names'
    BY <1>1 DEF Inv, ObjectsOK, IsObject, CountersOK, Names, Holders
  <1>4. BatchOK' /\ ReportOK'
    BY <1>1, IdleBatch DEF Inv, BatchOK, ReportOK, RowStatusHonest, OkMeansAll
  <1>. QED
    BY <1>2, <1>3, <1>4 DEF Inv

-----------------------------------------------------------------------------
(* The replies of a batch.                                                 *)

Reply == {"ok", "error", "aborted", "null", "sync"}

(* A function on the first n numbers is a sequence of n items.             *)
LEMMA FunctionSeq ==
  ASSUME NEW S, NEW n \in Nat, NEW f \in [1..n -> S]
  PROVE  f \in Seq(S) /\ Len(f) = n
  OBVIOUS

(* Two replies per row sent and two for the synchronisation; a row is ok   *)
(* when it comes before the first that fails.                              *)
LEMMA RepliesShape ==
  ASSUME NEW sent \in Nat, NEW k \in Nat
  PROVE  /\ Replies(sent, k) \in Seq(Reply) /\ Len(Replies(sent, k)) = 2 * sent + 2
         /\ \A r \in 1..sent : Replies(sent, k)[2 * r - 1] = "ok" <=> r < k
  <1>. DEFINE item(i) == LET r == (i + 1) \div 2 IN
                         CASE i % 2 = 0  -> "null"
                           [] r < k -> "ok"
                           [] r = k -> "error"
                           [] OTHER      -> "aborted"
              f == [i \in 1..(2 * sent) |-> item(i)]
              e == <<"sync", "null">>
  <1>1. \A i \in 1..(2 * sent) : item(i) \in Reply
    <2>. TAKE i \in 1..(2 * sent)
    <2>1. (i + 1) \div 2 \in Int /\ i % 2 \in Int
      OBVIOUS
    <2>. QED
      BY <2>1 DEF Reply
  <1>2. \A r \in 1..sent : 2 * r - 1 \in 1..(2 * sent) /\ (item(2 * r - 1) = "ok" <=> r < k)
    OBVIOUS
  <1>3. Replies(sent, k) = f \o e
    BY DEF Replies
  <1>. HIDE DEF item
  <1>4. f \in Seq(Reply) /\ Len(f) = 2 * sent
    <2>1. f \in [1..(2 * sent) -> Reply] /\ 2 * sent \in Nat
      BY <1>1
    <2>. QED
      BY <2>1, FunctionSeq
  <1>5. e \in Seq(Reply) /\ Len(e) = 2
    BY DEF Reply
  <1>6. \A i \in 1..(2 * sent) : f[i] = item(i)
    OBVIOUS
  <1>. HIDE DEF f, e
  <1>7. /\ f \o e \in Seq(Reply) /\ Len(f \o e) = 2 * sent + 2
        /\ \A i \in 1..(2 * sent) : (f \o e)[i] = f[i]
    <2>1. /\ f \o e \in Seq(Reply) /\ Len(f \o e) = Len(f) + Len(e)
          /\ \A i \in 1..(Len(f) + Len(e)) :
               (f \o e)[i] = IF i <= Len(f) THEN f[i] ELSE e[i - Len(f)]
      BY <1>4, <1>5, ConcatProperties
    <2>2. \A i \in 1..(2 * sent) : i \in 1..(2 * sent + 2) /\ i <= 2 * sent
      OBVIOUS
    <2>. QED
      BY <1>4, <1>5, <2>1, <2>2
  <1>. QED
    BY <1>2, <1>3, <1>6, <1>7

(* Before the first read everything is left.                               *)
LEMMA LeftAll ==
  ASSUME NEW sent \in Nat, NEW k \in Nat
  PROVE  Left(sent, 0, k) = Replies(sent, k)
  <1>1. 2 * 0 + 1 = 1
    OBVIOUS
  <1>. QED
    BY <1>1, RepliesShape, SubSeqFull DEF Left

(* One read takes the reply to one row and what is behind it.              *)
LEMMA LeftRead ==
  ASSUME NEW sent \in Nat, NEW read \in Nat, read < sent, NEW k \in Nat
  PROVE  /\ GetResult(Left(sent, read, k)) = "ok" <=> read + 1 < k
         /\ AfterRead(Left(sent, read, k)) = Left(sent, read + 1, k)
  <1>1. PICK R, m, n : R = Replies(sent, k) /\ m = 2 * read + 1 /\ n = 2 * sent + 2
    OBVIOUS
  <1>2. R \in Seq(Reply) /\ Len(R) = n /\ (R[m] = "ok" <=> read + 1 < k)
    <2>1. read + 1 \in 1..sent /\ 2 * (read + 1) - 1 = m
      BY <1>1
    <2>2. R[2 * (read + 1) - 1] = "ok" <=> read + 1 < k
      BY <1>1, <2>1, RepliesShape
    <2>3. R \in Seq(Reply) /\ Len(R) = n
      BY <1>1, RepliesShape
    <2>. QED
      BY <2>1, <2>2, <2>3
  <1>3. m \in 1..Len(R) /\ m + 1 \in 1..Len(R) /\ n \in m..Len(R) /\ n \in (m + 1)..Len(R)
        /\ m + 1 + 1 = 2 * (read + 1) + 1
    BY <1>1, <1>2
  <1>4. PICK L : L = SubSeq(R, m, n)
    OBVIOUS
  <1>5. Head(L) = R[m] /\ Tail(L) = SubSeq(R, m + 1, n) /\ Tail(Tail(L)) = SubSeq(R, m + 1 + 1, n)
    BY <1>2, <1>3, <1>4, HeadTailOfSubSeq
  <1>6. L # <<>> /\ Tail(L) # <<>>
    <2>1. \A i \in 1..Len(R) : R[i] \in Reply
      BY <1>2, ElementOfSeq
    <2>2. m \in Int /\ m + 1 \in Int /\ n \in Int /\ m <= n /\ m + 1 <= n
      BY <1>1
    <2>3. Len(SubSeq(R, m, n)) = n - m + 1 /\ Len(SubSeq(R, m + 1, n)) = n - (m + 1) + 1
      BY <1>3, <2>1, <2>2, SubSeqProperties
    <2>4. Len(L) # 0 /\ Len(Tail(L)) # 0
      <3>1. n - m + 1 # 0 /\ n - (m + 1) + 1 # 0
        BY <2>2
      <3>2. Len(L) = n - m + 1 /\ Len(Tail(L)) = n - (m + 1) + 1
        BY <1>4, <1>5, <2>3, Zenon
      <3>. QED
        BY <3>1, <3>2, Zenon
    <2>5. Len(<<>>) = 0
      OBVIOUS
    <2>. QED
      BY <2>4, <2>5, Zenon
  <1>. QED
    BY <1>1, <1>2, <1>3, <1>4, <1>5, <1>6 DEF GetResult, AfterRead, Rest, Left

(* What remains after the last row are the two of the synchronisation.     *)
LEMMA LeftEnd ==
  ASSUME NEW sent \in Nat, NEW k \in Nat
  PROVE  AfterRead(Left(sent, sent, k)) = <<>>
  <1>1. PICK R, m, n : R = Replies(sent, k) /\ m = 2 * sent + 1 /\ n = 2 * sent + 2
    OBVIOUS
  <1>2. R \in Seq(Reply) /\ Len(R) = n
    BY <1>1, RepliesShape
  <1>3. m \in 1..Len(R) /\ m + 1 \in 1..Len(R) /\ n \in m..Len(R) /\ n \in (m + 1)..Len(R)
        /\ m + 1 + 1 \in Int /\ n \in Int /\ n < m + 1 + 1
    BY <1>1, <1>2
  <1>4. PICK L : L = SubSeq(R, m, n)
    OBVIOUS
  <1>5. Tail(L) = SubSeq(R, m + 1, n) /\ Tail(Tail(L)) = SubSeq(R, m + 1 + 1, n)
    BY <1>2, <1>3, <1>4, HeadTailOfSubSeq
  <1>6. Tail(Tail(L)) = <<>>
    BY <1>3, <1>5, SubSeqEmpty
  <1>7. L # <<>> /\ Tail(L) # <<>>
    <2>1. \A i \in 1..Len(R) : R[i] \in Reply
      BY <1>2, ElementOfSeq
    <2>2. m \in Int /\ m + 1 \in Int /\ n \in Int /\ m <= n /\ m + 1 <= n
      BY <1>1
    <2>3. Len(SubSeq(R, m, n)) = n - m + 1 /\ Len(SubSeq(R, m + 1, n)) = n - (m + 1) + 1
      BY <1>3, <2>1, <2>2, SubSeqProperties
    <2>4. Len(L) # 0 /\ Len(Tail(L)) # 0
      <3>1. n - m + 1 # 0 /\ n - (m + 1) + 1 # 0
        BY <2>2
      <3>2. Len(L) = n - m + 1 /\ Len(Tail(L)) = n - (m + 1) + 1
        BY <1>4, <1>5, <2>3, Zenon
      <3>. QED
        BY <3>1, <3>2, Zenon
    <2>5. Len(<<>>) = 0
      OBVIOUS
    <2>. QED
      BY <2>4, <2>5, Zenon
  <1>. QED
    BY <1>1, <1>4, <1>6, <1>7 DEF AfterRead, Rest, Left

(* A lost connection answers with errors only.                             *)
LEMMA HungRead ==
  /\ GetResult(<<"error">>) # "ok" /\ AfterRead(<<"error">>) = <<>>
  /\ GetResult(<<>>) # "ok" /\ AfterRead(<<>>) = <<>>
  <1>1. <<"error">> # <<>> /\ Head(<<"error">>) = "error" /\ Tail(<<"error">>) = <<>>
    OBVIOUS
  <1>. QED
    BY <1>1 DEF GetResult, AfterRead, Rest

-----------------------------------------------------------------------------
(* The steps of a batch.                                                   *)

(* The object that runs a batch.                                           *)
LEMMA BatchObject ==
  ASSUME Inv, batch.pc # "idle"
  PROVE  /\ IsBatch(batch) /\ batch.o \in Objs /\ IsObject(obj[batch.o])
         /\ batch.sent \in Nat /\ batch.read \in Nat /\ batch.sent <= MaxSize
         /\ obj[batch.o].par.rows \in 1..MaxSize /\ batch.sent <= obj[batch.o].par.rows
         /\ runs \in Nat /\ runs \in Runs /\ runs # 0 /\ runs <= MaxRuns
  <1>1. IsBatch(batch)
    BY DEF Inv, BatchOK, Idle
  <1>2. batch.o \in Objs /\ obj[batch.o].alive /\ batch.sent \in Nat /\ batch.read \in Nat /\ runs > 0
    BY <1>1 DEF IsBatch
  <1>3. IsObject(obj[batch.o])
    BY <1>2, AliveObject DEF Inv
  <1>4. obj[batch.o].par.rows \in 1..MaxSize
    BY <1>3 DEF IsObject, Buffers
  <1>5. batch.sent <= obj[batch.o].par.rows
    BY <1>1 DEF IsBatch
  <1>6. batch.sent <= MaxSize
    BY <1>2, <1>4, <1>5, PsqlQueryAssumption
  <1>7. runs \in Nat /\ runs \in Runs /\ runs # 0 /\ runs <= MaxRuns
    BY <1>2, PsqlQueryAssumption DEF Inv, CountersOK, Runs
  <1>. QED
    BY <1>1, <1>2, <1>3, <1>4, <1>5, <1>6, <1>7

(* execute() of several rows begins: the run is a new one.                 *)
LEMMA BatchStartStep == ASSUME Inv, NEW o \in Objs, BatchStart(o) PROVE Inv'
  <1>. USE DEF Usable
  <1>1. IsObject(obj[o])
    BY AliveObject DEF Inv, BatchStart
  <1>2. runs \in Nat /\ runs' = runs + 1 /\ runs' \in 0..MaxRuns /\ runs' \in Nat /\ runs <= runs'
        /\ runs' > 0
    BY PsqlQueryAssumption DEF Inv, CountersOK, BatchStart, CountRun
  <1>3. /\ UNCHANGED <<conn, known, counter, sizings, clashed, report, failed>>
        /\ batch' = [pc |-> "send", queue |-> <<>>, o |-> o, sent |-> 0, read |-> 0,
                     sendError |-> FALSE, firstError |-> FALSE, executed |-> {}]
    BY DEF BatchStart
  <1>4. PICK g : g = [obj[o] EXCEPT !.run = runs']
    OBVIOUS
  <1>5. IsObject(g) /\ SameStatement(obj[o], g) /\ g.par = obj[o].par
    BY <1>1, <1>2, <1>4, CountedObject
  <1>6. obj' = [obj EXCEPT ![o] = g]
    BY <1>4 DEF BatchStart, Becomes
  <1>7. ObjectsOK' /\ Names'
    BY <1>3, <1>5, <1>6, ObjectSet, NamesKept DEF Inv
  <1>8. CountersOK'
    BY <1>2, <1>3 DEF Inv, CountersOK
  <1>9. RowsOK'
    <2>1. Leaves(conn', {})
      BY <1>3, FailureLeaves DEF Inv
    <2>2. \A d \in {} : d[1] \in 1..runs' /\ d[1] \notin failed
      OBVIOUS
    <2>. QED
      BY <1>2, <1>3, <2>1, <2>2, RowsStep DEF Inv
  <1>10. BatchOK'
    <2>1. obj'[o].alive /\ obj'[o].par.rows \in Nat
      <3>1. obj'[o] = g
        BY <1>6 DEF Inv, ObjectsOK
      <3>2. g.alive /\ g.par \in Buffers
        BY <1>5 DEF IsObject
      <3>. QED
        BY <3>1, <3>2, Values
    <2>2. (Untouched(runs))'
      BY <1>2, <1>3 DEF Inv, RowsOK, Untouched, Effects
    <2>3. runs' \notin failed'
      BY <1>2, <1>3 DEF Inv, CountersOK
    <2>4. /\ batch'.pc = "send" /\ ~batch'.sendError /\ batch'.sent = 0 /\ batch'.read = 0
          /\ ~batch'.firstError /\ batch'.executed = {} /\ batch'.o = o
      BY <1>3
    <2>5. batch' \in [pc : {"send", "sync", "read"}, queue : {batch'.queue}, o : Objs, sent : Nat,
                      read : Nat, sendError : BOOLEAN, firstError : BOOLEAN, executed : SUBSET Nat]
      BY <1>3
    <2>. QED
      BY <1>2, <2>1, <2>2, <2>3, <2>4, <2>5 DEF BatchOK, IsBatch
  <1>11. ReportOK'
    BY <1>3 DEF Inv, ReportOK, RowStatusHonest, OkMeansAll
  <1>. QED
    BY <1>7, <1>8, <1>9, <1>10, <1>11 DEF Inv

(* PQsendQueryPrepared of one row.                                         *)
LEMMA SendStep == ASSUME Inv, Send PROVE Inv'
  <1>1. /\ UNCHANGED <<conn, known, obj, counter, runs, sizings, clashed, report, failed>>
        /\ batch.pc = "send" /\ batch.sent < obj[batch.o].par.rows
        /\ \/ batch' = [batch EXCEPT !.sent = @ + 1]
           \/ batch' = [batch EXCEPT !.pc = "sync", !.sendError = TRUE]
    BY DEF Send, BatchRows
  <1>2. ObjectsOK' /\ CountersOK' /\ Names'
    <2>1. UNCHANGED <<known, obj, counter, runs, sizings, clashed, failed>>
      BY <1>1
    <2>. QED
      BY <2>1 DEF Inv, ObjectsOK, IsObject, CountersOK, Names, Holders
  <1>3. RowsOK' /\ ReportOK'
    BY <1>1 DEF Inv, RowsOK, Effects, ReportOK, RowStatusHonest, OkMeansAll
  <1>4. BatchOK'
    <2>1. IsBatch(batch) /\ batch.sent \in Nat /\ obj[batch.o].par.rows \in Nat
      BY <1>1, BatchObject, PsqlQueryAssumption
    <2>2. batch \in [pc : {"send", "sync", "read"}, queue : {batch.queue}, o : Objs, sent : Nat,
                      read : Nat, sendError : BOOLEAN, firstError : BOOLEAN, executed : SUBSET Nat]
      BY <2>1 DEF IsBatch
    <2>3. /\ runs > 0 /\ runs \notin failed /\ obj[batch.o].alive /\ ~batch.sendError
          /\ batch.read = 0 /\ ~batch.firstError /\ batch.executed = {} /\ Untouched(runs)
      BY <1>1, <2>1 DEF IsBatch
    <2>4. (Untouched(runs))'
      BY <1>1, <2>3 DEF Untouched, Effects
    <2>5. CASE batch' = [batch EXCEPT !.sent = @ + 1]
      <3>1. /\ batch' \in [pc : {"send", "sync", "read"}, queue : {batch'.queue}, o : Objs, sent : Nat,
                      read : Nat, sendError : BOOLEAN, firstError : BOOLEAN, executed : SUBSET Nat]
            /\ batch'.pc = "send" /\ batch'.o = batch.o /\ batch'.sent = batch.sent + 1
            /\ batch'.sendError = batch.sendError /\ batch'.read = batch.read
            /\ batch'.firstError = batch.firstError /\ batch'.executed = batch.executed
        BY <1>1, <2>1, <2>2, <2>5
      <3>2. batch'.sent <= obj'[batch'.o].par.rows
        BY <1>1, <2>1, <3>1
      <3>. QED
        BY <1>1, <2>3, <2>4, <3>1, <3>2 DEF BatchOK, IsBatch
    <2>6. CASE batch' = [batch EXCEPT !.pc = "sync", !.sendError = TRUE]
      <3>1. /\ batch' \in [pc : {"send", "sync", "read"}, queue : {batch'.queue}, o : Objs, sent : Nat,
                      read : Nat, sendError : BOOLEAN, firstError : BOOLEAN, executed : SUBSET Nat]
            /\ batch'.pc = "sync" /\ batch'.o = batch.o /\ batch'.sent = batch.sent
            /\ batch'.sendError /\ batch'.read = batch.read
            /\ batch'.firstError = batch.firstError /\ batch'.executed = batch.executed
        BY <2>2, <2>6
      <3>2. batch'.sent < obj'[batch'.o].par.rows /\ batch'.sent <= obj'[batch'.o].par.rows
        BY <1>1, <2>1, <3>1
      <3>. QED
        BY <1>1, <2>3, <2>4, <3>1, <3>2 DEF BatchOK, IsBatch
    <2>. QED
      BY <1>1, <2>5, <2>6
  <1>. QED
    BY <1>2, <1>3, <1>4 DEF Inv

(* PQpipelineSync and the server's answer to it.                           *)
LEMMA SyncStep == ASSUME Inv, Sync PROVE Inv'
  <1>1. PICK o, sent, rows : o = batch.o /\ sent = batch.sent /\ rows = obj[batch.o].par.rows
    OBVIOUS
  <1>2. /\ batch.pc \in {"send", "sync"}
        /\ UNCHANGED <<known, counter, runs, sizings, clashed, report, failed>>
        /\ batch.pc = "send" => sent = rows
        /\ obj' = [obj EXCEPT ![o].status = [r \in DOMAIN @ |-> 0]]
        /\ Answered \/ Dropped
    BY <1>1 DEF Sync, BatchRows
  <1>3. /\ IsBatch(batch) /\ o \in Objs /\ IsObject(obj[o]) /\ sent \in Nat
        /\ sent <= MaxSize /\ rows \in Nat /\ sent <= rows
        /\ runs \in Nat /\ runs \in Runs /\ runs # 0
    BY <1>1, <1>2, BatchObject, PsqlQueryAssumption
  <1>4. /\ batch \in [pc : {"send", "sync", "read"}, queue : {batch.queue}, o : Objs, sent : Nat,
                      read : Nat, sendError : BOOLEAN, firstError : BOOLEAN, executed : SUBSET Nat]
        /\ runs > 0 /\ runs \notin failed /\ batch.read = 0 /\ ~batch.firstError
        /\ batch.executed = {} /\ Untouched(runs)
        /\ batch.sendError <=> sent < rows
    BY <1>1, <1>2, <1>3 DEF IsBatch
  <1>5. PICK z : z = [r \in DOMAIN obj[o].status |-> 0]
    OBVIOUS
  <1>6. PICK g : g = [obj[o] EXCEPT !.status = z]
    OBVIOUS
  <1>7. IsObject(g) /\ SameStatement(obj[o], g) /\ g.par = obj[o].par
    <2>1. IsObject(obj[o])
      BY <1>3
    <2>2. z \in [1..obj[o].par.rows -> {0, 5}]
      BY <1>5, <2>1, ClearedStatus
    <2>. QED
      BY <1>6, <2>1, <2>2, MarkedObject
  <1>8. obj' = [obj EXCEPT ![o] = g]
    BY <1>2, <1>5, <1>6
  <1>9. ObjectsOK' /\ Names'
    BY <1>2, <1>3, <1>7, <1>8, ObjectSet, NamesKept DEF Inv
  <1>10. CountersOK' /\ ReportOK'
    BY <1>2 DEF Inv, CountersOK, ReportOK, RowStatusHonest, OkMeansAll
  <1>11. obj'[o].alive /\ obj'[o].par.rows = rows
    <2>1. obj'[o] = g
      BY <1>3, <1>8 DEF Inv, ObjectsOK
    <2>. QED
      BY <1>1, <1>7, <2>1 DEF IsObject
  <1>12. CASE Answered
    <2>1. PICK k \in IF Accepting(conn) THEN 1..(sent + 1) ELSE {1} :
            /\ conn' = IF k > sent THEN AfterBatch(conn, {<<runs, r>> : r \in 1..sent})
                       ELSE AfterFailure(conn)
            /\ batch' = [batch EXCEPT !.pc = "read", !.executed = 1..(k - 1),
                                      !.queue = Replies(sent, k)]
      BY <1>1, <1>12 DEF Answered
    <2>2. k \in 1..(sent + 1) /\ k \in Nat
      BY <1>3, <2>1
    <2>3. PICK S : S = IF k > sent THEN {<<runs, r>> : r \in 1..sent} ELSE {}
      OBVIOUS
    <2>4. \A d \in S : d[1] = runs /\ d \in Runs \X (1..MaxSize)
      BY <1>3, <2>3, PsqlQueryAssumption
    <2>5. Leaves(conn', S)
      <3>1. CASE k > sent
        <4>1. conn' = AfterBatch(conn, S) /\ conn \in Connections(Runs \X (1..MaxSize)) /\ Sound(conn)
          BY <2>1, <2>3, <3>1 DEF Inv, RowsOK
        <4>. QED
          BY <2>4, <4>1 DEF Leaves, Effects, AfterBatch, Sound, Connections, TxStates
      <3>2. CASE ~(k > sent)
        BY <2>1, <2>3, <3>2, FailureLeaves DEF Inv
      <3>. QED
        BY <3>1, <3>2
    <2>6. RowsOK'
      <3>1. \A d \in S : d[1] \in 1..runs' /\ d[1] \notin failed
        BY <1>2, <1>3, <1>4, <2>4
      <3>. QED
        BY <1>2, <1>3, <2>5, <3>1, RowsStep DEF Inv
    <2>7. k <= sent => (Untouched(runs))'
      <3>1. k <= sent => S = {}
        BY <1>3, <2>2, <2>3
      <3>. QED
        BY <1>2, <1>4, <2>5, <3>1 DEF Leaves, Untouched, Effects
    <2>8. /\ batch' \in [pc : {"send", "sync", "read"}, queue : {batch'.queue}, o : Objs, sent : Nat,
                      read : Nat, sendError : BOOLEAN, firstError : BOOLEAN, executed : SUBSET Nat]
          /\ batch'.pc = "read" /\ batch'.o = o /\ batch'.sent = sent /\ batch'.read = 0
          /\ batch'.sendError = batch.sendError /\ batch'.firstError = batch.firstError
          /\ batch'.executed = 1..(k - 1) /\ batch'.queue = Replies(sent, k)
      <3>1. 1..(k - 1) \subseteq Nat
        BY <2>2
      <3>2. PICK E, Q : E = 1..(k - 1) /\ Q = Replies(sent, k)
        OBVIOUS
      <3>3. batch' = [batch EXCEPT !.pc = "read", !.executed = E, !.queue = Q]
        BY <2>1, <3>2
      <3>. QED
        BY <1>1, <1>4, <3>1, <3>2, <3>3
    <2>9. Replied(batch, obj[o].status, k)'
      <3>1. batch'.queue = Left(batch'.sent, batch'.read, k)
        BY <1>3, <2>2, <2>8, LeftAll
      <3>2. ~(k <= 0) /\ 1..0 = {}
        BY <2>2
      <3>. QED
        BY <1>4, <2>7, <2>8, <3>1, <3>2 DEF Replied
    <2>10. BatchOK'
      <3>1. \E j \in 1..(batch'.sent + 1) : Replied(batch, obj[batch.o].status, j)'
        BY <2>2, <2>8, <2>9
      <3>2. batch'.read <= batch'.sent
        BY <1>3, <2>8
      <3>3. runs' > 0 /\ runs' \notin failed' /\ (batch'.sendError <=> sent < rows)
        BY <1>2, <1>4, <2>8
      <3>. QED
        BY <1>3, <1>11, <2>8, <3>1, <3>2, <3>3 DEF BatchOK, IsBatch
    <2>. QED
      BY <1>9, <1>10, <2>6, <2>10 DEF Inv
  <1>13. CASE Dropped
    <2>1. conn' = [conn EXCEPT !.tx = "lost", !.work = {}]
          /\ batch' = [batch EXCEPT !.pc = "read", !.queue = <<"error">>]
      BY <1>13 DEF Dropped
    <2>2. Leaves(conn', {})
      BY <2>1, FailureLeaves DEF Inv
    <2>3. RowsOK'
      <3>1. \A d \in {} : d[1] \in 1..runs' /\ d[1] \notin failed
        OBVIOUS
      <3>. QED
        BY <1>2, <1>3, <2>2, <3>1, RowsStep DEF Inv
    <2>4. (Untouched(runs))'
      BY <1>2, <1>4, <2>2 DEF Leaves, Untouched, Effects
    <2>5. /\ batch' \in [pc : {"send", "sync", "read"}, queue : {batch'.queue}, o : Objs, sent : Nat,
                      read : Nat, sendError : BOOLEAN, firstError : BOOLEAN, executed : SUBSET Nat]
          /\ batch'.pc = "read" /\ batch'.o = o /\ batch'.sent = sent /\ batch'.read = 0
          /\ batch'.sendError = batch.sendError /\ batch'.firstError = batch.firstError
          /\ batch'.executed = {} /\ batch'.queue = <<"error">>
      BY <1>1, <1>4, <2>1
    <2>6. Hung(batch, obj[batch.o].status)'
      BY <1>4, <2>4, <2>5 DEF Hung
    <2>7. BatchOK'
      <3>1. batch'.read <= batch'.sent
        BY <1>3, <2>5
      <3>2. runs' > 0 /\ runs' \notin failed' /\ (batch'.sendError <=> sent < rows)
        BY <1>2, <1>4, <2>5
      <3>. QED
        BY <1>3, <1>11, <2>5, <2>6, <3>1, <3>2 DEF BatchOK, IsBatch
    <2>. QED
      BY <1>9, <1>10, <2>3, <2>7 DEF Inv
  <1>. QED
    BY <1>2, <1>12, <1>13

(* Both calls of PQgetResult for one row.                                  *)
LEMMA ReadStep == ASSUME Inv, Read PROVE Inv'
  <1>1. PICK o, sent, read, reply, mark :
          /\ o = batch.o /\ sent = batch.sent /\ read = batch.read
          /\ reply = GetResult(batch.queue) /\ mark = Mark(batch.firstError, reply)
    OBVIOUS
  <1>2. batch.pc = "read" /\ read < sent
        /\ UNCHANGED <<conn, known, counter, runs, sizings, clashed, report, failed>>
    BY <1>1 DEF Read
  <1>3. /\ batch' = [batch EXCEPT !.firstError = @ \/ reply # "ok", !.read = @ + 1, !.queue = AfterRead(@)]
        /\ obj' = [obj EXCEPT ![o].status[read + 1] = mark]
    BY <1>1 DEF Read
  <1>4. /\ IsBatch(batch) /\ o \in Objs /\ IsObject(obj[o]) /\ sent \in Nat /\ read \in Nat
        /\ obj[o].par.rows \in Nat /\ sent <= obj[o].par.rows
    BY <1>1, <1>2, BatchObject, PsqlQueryAssumption
  <1>5. /\ batch \in [pc : {"send", "sync", "read"}, queue : {batch.queue}, o : Objs, sent : Nat,
                      read : Nat, sendError : BOOLEAN, firstError : BOOLEAN, executed : SUBSET Nat]
        /\ runs > 0 /\ runs \notin failed
        /\ batch.sendError <=> sent < obj[o].par.rows
    BY <1>1, <1>2, <1>4 DEF IsBatch
  <1>6. PICK s : s = obj[o].status
    OBVIOUS
  <1>7. PICK z : z = [s EXCEPT ![read + 1] = mark]
    OBVIOUS
  <1>8. /\ s \in [1..obj[o].par.rows -> {0, 5}] /\ mark \in {0, 5}
        /\ mark = 0 <=> (~batch.firstError /\ reply = "ok")
    BY <1>1, <1>4, <1>6 DEF IsObject, Mark
  <1>9. /\ z \in [1..obj[o].par.rows -> {0, 5}] /\ z[read + 1] = mark
        /\ \A r \in 1..read : z[r] = s[r]
    BY <1>2, <1>4, <1>7, <1>8
  <1>10. PICK g : g = [obj[o] EXCEPT !.status = z]
    OBVIOUS
  <1>11. IsObject(g) /\ SameStatement(obj[o], g) /\ g.par = obj[o].par /\ g.status = z
    <2>1. IsObject(obj[o])
      BY <1>4
    <2>. QED
      BY <1>9, <1>10, <2>1, MarkedObject
  <1>12. obj' = [obj EXCEPT ![o] = g]
    BY <1>3, <1>6, <1>7, <1>10
  <1>13. ObjectsOK' /\ Names'
    BY <1>2, <1>4, <1>11, <1>12, ObjectSet, NamesKept DEF Inv
  <1>14. CountersOK' /\ ReportOK' /\ RowsOK'
    BY <1>2 DEF Inv, CountersOK, ReportOK, RowStatusHonest, OkMeansAll, RowsOK, Effects
  <1>15. obj'[o].alive /\ obj'[o].par = obj[o].par /\ obj'[o].status = z
    <2>1. obj'[o] = g
      BY <1>4, <1>12 DEF Inv, ObjectsOK
    <2>. QED
      BY <1>11, <2>1 DEF IsObject
  <1>16. /\ batch' \in [pc : {"send", "sync", "read"}, queue : {batch'.queue}, o : Objs, sent : Nat,
                      read : Nat, sendError : BOOLEAN, firstError : BOOLEAN, executed : SUBSET Nat]
         /\ batch'.pc = "read" /\ batch'.o = o /\ batch'.sent = sent /\ batch'.read = read + 1
         /\ batch'.sendError = batch.sendError /\ batch'.executed = batch.executed
         /\ batch'.queue = AfterRead(batch.queue)
         /\ batch'.firstError <=> (batch.firstError \/ reply # "ok")
    <2>1. PICK e, Q : e = (batch.firstError \/ reply # "ok") /\ Q = AfterRead(batch.queue)
      OBVIOUS
    <2>2. e \in BOOLEAN
      BY <2>1
    <2>3. batch' = [batch EXCEPT !.firstError = e, !.read = read + 1, !.queue = Q]
      BY <1>1, <1>3, <2>1
    <2>4. batch'.firstError = e
      BY <1>5, <2>3
    <2>5. batch'.firstError <=> (batch.firstError \/ reply # "ok")
      BY <2>1, <2>4, Zenon
    <2>6. read + 1 \in Nat
      BY <1>4
    <2>. QED
      BY <1>1, <1>2, <1>5, <2>1, <2>2, <2>3, <2>5, <2>6
  <1>17. (Untouched(runs))' <=> Untouched(runs)
    BY <1>2 DEF Untouched, Effects
  <1>18. \A r \in 1..(read + 1) : r \in 1..read \/ r = read + 1
    BY <1>4
  <1>19. ASSUME NEW k \in 1..(sent + 1), Replied(batch, s, k)
         PROVE  Replied(batch, obj[batch.o].status, k)'
    <2>1. k \in Nat
      BY <1>4
    <2>2. batch.queue = Left(sent, read, k)
      BY <1>1, <1>19 DEF Replied
    <2>3. (reply = "ok" <=> read + 1 < k) /\ AfterRead(batch.queue) = Left(sent, read + 1, k)
      BY <1>1, <1>2, <1>4, <2>1, <2>2, LeftRead
    <2>4. batch.firstError <=> k <= read
      BY <1>1, <1>19 DEF Replied
    <2>5. batch'.firstError <=> k <= read + 1
      BY <1>4, <1>16, <2>1, <2>3, <2>4
    <2>6. \A r \in 1..(read + 1) : (z[r] = 0) <=> r < k
      <3>1. \A r \in 1..read : (s[r] = 0) <=> r < k
        BY <1>1, <1>19 DEF Replied
      <3>2. (z[read + 1] = 0) <=> read + 1 < k
        BY <1>4, <1>8, <1>9, <2>1, <2>3, <2>4
      <3>. QED
        BY <1>9, <1>18, <3>1, <3>2
    <2>7. k <= sent => (Untouched(runs))'
      BY <1>1, <1>17, <1>19 DEF Replied
    <2>8. batch'.executed = 1..(k - 1)
      BY <1>16, <1>19 DEF Replied
    <2>. QED
      BY <1>15, <1>16, <2>3, <2>5, <2>6, <2>7, <2>8 DEF Replied
  <1>20. ASSUME Hung(batch, s) PROVE Hung(batch, obj[batch.o].status)'
    <2>1. reply # "ok" /\ AfterRead(batch.queue) = <<>>
      BY <1>1, <1>20, HungRead DEF Hung
    <2>2. \A r \in 1..(read + 1) : z[r] # 0
      BY <1>1, <1>8, <1>9, <1>18, <1>20, <2>1 DEF Hung
    <2>3. batch'.firstError /\ read + 1 > 0 /\ read + 1 # 0
      BY <1>4, <1>16, <2>1
    <2>4. (Untouched(runs))' /\ batch'.executed = {}
      BY <1>16, <1>17, <1>20 DEF Hung
    <2>. QED
      BY <1>15, <1>16, <2>1, <2>2, <2>3, <2>4 DEF Hung
  <1>21. BatchOK'
    <2>1. \/ \E k \in 1..(sent + 1) : Replied(batch, s, k)
          \/ Hung(batch, s)
      BY <1>1, <1>2, <1>4, <1>6 DEF IsBatch
    <2>2. \/ \E k \in 1..(batch'.sent + 1) : Replied(batch, obj[batch.o].status, k)'
          \/ Hung(batch, obj[batch.o].status)'
      BY <1>16, <1>19, <1>20, <2>1
    <2>3. batch'.read <= batch'.sent
      BY <1>2, <1>4, <1>16
    <2>4. runs' > 0 /\ runs' \notin failed' /\ (batch'.sendError <=> sent < obj'[o].par.rows)
          /\ sent <= obj'[o].par.rows
      BY <1>2, <1>4, <1>5, <1>15, <1>16
    <2>. QED
      BY <1>4, <1>15, <1>16, <2>2, <2>3, <2>4 DEF BatchOK, IsBatch
  <1>. QED
    BY <1>13, <1>14, <1>21 DEF Inv

(* The end of execute_batch().                                             *)
LEMMA FinishStep == ASSUME Inv, Finish PROVE Inv'
  <1>1. PICK o, sent, ok, s :
          o = batch.o /\ sent = batch.sent /\ ok = BatchOk(batch) /\ s = obj[batch.o].status
    OBVIOUS
  <1>2. /\ batch.pc = "read" /\ batch.read = sent
        /\ UNCHANGED <<conn, known, counter, runs, sizings, clashed>>
    BY <1>1 DEF Finish
  <1>3. /\ batch' = [Idle EXCEPT !.queue = AfterRead(batch.queue)]
        /\ obj' = IF ok THEN [obj EXCEPT ![o] = BatchDone(@)] ELSE obj
        /\ report' = [run |-> runs, ok |-> ok, sent |-> ~batch.sendError,
                      status |-> s, executed |-> batch.executed]
        /\ failed' = IF ok \/ batch.sendError THEN failed ELSE failed \cup {runs}
    BY <1>1 DEF Finish
  <1>4. /\ IsBatch(batch) /\ o \in Objs /\ IsObject(obj[o]) /\ sent \in Nat
        /\ obj[o].par.rows \in Nat \ {0} /\ sent <= obj[o].par.rows /\ runs \in Nat /\ runs # 0
    BY <1>1, <1>2, BatchObject, PsqlQueryAssumption
  <1>5. /\ ok <=> ~batch.sendError /\ ~batch.firstError
        /\ batch.sendError <=> sent < obj[o].par.rows
        /\ batch.sendError \in BOOLEAN /\ ok \in BOOLEAN
    BY <1>1, <1>2, <1>4 DEF IsBatch, BatchOk
  <1>6. s \in [1..obj[o].par.rows -> {0, 5}] /\ DOMAIN s = 1..obj[o].par.rows
    BY <1>1, <1>4 DEF IsObject
  <1>7. \/ \E k \in 1..(sent + 1) : Replied(batch, s, k)
        \/ Hung(batch, s)
    BY <1>1, <1>2, <1>4 DEF IsBatch
  <1>8. /\ AfterRead(batch.queue) = <<>>
        /\ ~batch.sendError => DOMAIN s = 1..sent /\ \A r \in 1..sent : (s[r] = 0) <=> (r \in batch.executed)
        /\ ok => batch.executed = DOMAIN s
        /\ ~ok /\ ~batch.sendError => Untouched(runs)
    <2>1. ~batch.sendError => DOMAIN s = 1..sent /\ sent # 0
      BY <1>4, <1>5, <1>6
    <2>2. ASSUME NEW k \in 1..(sent + 1), Replied(batch, s, k)
          PROVE  /\ AfterRead(batch.queue) = <<>>
                 /\ \A r \in 1..sent : (s[r] = 0) <=> (r \in batch.executed)
                 /\ ok => batch.executed = DOMAIN s
                 /\ ~ok /\ ~batch.sendError => Untouched(runs)
      <3>1. k \in Nat /\ batch.queue = Left(sent, sent, k) /\ batch.executed = 1..(k - 1)
            /\ (batch.firstError <=> k <= sent) /\ (k <= sent => Untouched(runs))
            /\ \A r \in 1..sent : (s[r] = 0) <=> r < k
        BY <1>1, <1>2, <1>4, <2>2 DEF Replied
      <3>2. AfterRead(batch.queue) = <<>>
        BY <1>4, <3>1, LeftEnd
      <3>3. \A r \in 1..sent : r < k <=> r \in 1..(k - 1)
        BY <1>4, <3>1
      <3>4. ok => k - 1 = sent
        BY <1>4, <1>5, <2>2, <3>1
      <3>. QED
        BY <1>5, <2>1, <3>1, <3>2, <3>3, <3>4
    <2>3. ASSUME Hung(batch, s)
          PROVE  /\ AfterRead(batch.queue) = <<>>
                 /\ \A r \in 1..sent : (s[r] = 0) <=> (r \in batch.executed)
                 /\ ok => batch.executed = DOMAIN s
                 /\ ~ok /\ ~batch.sendError => Untouched(runs)
      <3>1. AfterRead(batch.queue) = <<>>
        BY <2>3, HungRead DEF Hung
      <3>2. ~ok
        BY <1>2, <1>4, <1>5, <2>1, <2>3 DEF Hung
      <3>3. batch.executed = {} /\ (\A r \in 1..sent : s[r] # 0) /\ Untouched(runs)
        BY <1>2, <2>3 DEF Hung
      <3>. QED
        BY <3>1, <3>2, <3>3
    <2>. QED
      BY <1>7, <2>1, <2>2, <2>3
  <1>9. BatchOK'
    BY <1>3, <1>8 DEF BatchOK, Idle
  <1>10. ReportOK'
    <2>1. /\ report'.run = runs /\ report'.ok = ok /\ report'.sent = ~batch.sendError
          /\ report'.status = s /\ report'.executed = batch.executed
      BY <1>3
    <2>2. report'.sent => ~batch.sendError
      BY <2>1, Zenon
    <2>3. report'.ok => ok
      BY <2>1, Zenon
    <2>4. RowStatusHonest'
      BY <1>8, <2>1, <2>2 DEF RowStatusHonest
    <2>5. OkMeansAll'
      BY <1>8, <2>1, <2>3 DEF OkMeansAll
    <2>. QED
      BY <2>4, <2>5 DEF ReportOK
  <1>11. failed' = failed \/ (failed' = failed \cup {runs} /\ Untouched(runs))
    BY <1>3, <1>5, <1>8
  <1>12. CountersOK'
    <2>1. UNCHANGED <<known, counter, runs, sizings>>
      BY <1>2
    <2>2. failed' \subseteq 1..runs
      <3>1. runs \in 1..runs /\ failed \subseteq 1..runs
        BY <1>4 DEF Inv, CountersOK
      <3>. QED
        BY <1>11, <3>1
    <2>. QED
      BY <2>1, <2>2 DEF Inv, CountersOK
  <1>13. RowsOK'
    <2>1. conn' = conn /\ runs' = runs
      BY <1>2
    <2>2. \A d \in Effects : d[1] \in 1..runs /\ d[1] \notin failed'
      BY <1>11 DEF Inv, RowsOK, Untouched
    <2>. QED
      BY <2>1, <2>2 DEF Inv, RowsOK, Effects
  <1>14. ObjectsOK' /\ Names'
    <2>1. CASE ok
      <3>1. PICK g : g = BatchDone(obj[o])
        OBVIOUS
      <3>2. IsObject(g) /\ SameStatement(obj[o], g)
        BY <1>4, <3>1, BatchDoneObject
      <3>3. obj' = [obj EXCEPT ![o] = g]
        BY <1>3, <2>1, <3>1
      <3>. QED
        BY <1>2, <1>4, <3>2, <3>3, ObjectSet, NamesKept DEF Inv
    <2>2. CASE ~ok
      <3>1. UNCHANGED <<obj, known, counter, clashed>>
        BY <1>2, <1>3, <2>2
      <3>. QED
        BY <3>1 DEF Inv, ObjectsOK, IsObject, Names, Holders
    <2>. QED
      BY <1>5, <2>1, <2>2
  <1>. QED
    BY <1>9, <1>10, <1>12, <1>13, <1>14 DEF Inv

-----------------------------------------------------------------------------
(* Nothing is constructed yet.                                             *)
LEMMA InitInv == Init => Inv
  <1>. SUFFICES ASSUME Init PROVE Inv
    OBVIOUS
  <1>. USE DEF Init
  <1>1. ObjectsOK
    BY DEF ObjectsOK
  <1>2. CountersOK
    BY PsqlQueryAssumption DEF CountersOK
  <1>3. Names
    BY DEF Names, Holders, NoObject
  <1>4. RowsOK
    BY DEF RowsOK, Effects, Connected, Connections, TxStates, Sound
  <1>5. BatchOK /\ ReportOK
    BY DEF BatchOK, ReportOK, RowStatusHonest, OkMeansAll, NoReport
  <1>. QED
    BY <1>1, <1>2, <1>3, <1>4, <1>5 DEF Inv

(* Every step keeps the invariant.                                         *)
LEMMA InvStep == ASSUME Inv, [Next]_vars PROVE Inv'
  <1>1. CASE Next
    <2>1. ASSUME NEW o \in Objs, Construct(o) \/ Destroy(o) \/ Prepare(o) PROVE Inv'
      BY <2>1, ConstructStep, DestroyStep, PrepareStep
    <2>2. ASSUME NEW o \in Objs, Execute(o) \/ BatchStart(o) PROVE Inv'
      BY <2>2, ExecuteStep, BatchStartStep
    <2>3. ASSUME NEW o \in Objs, ExecuteRefused(o) \/ Fetch(o) \/ Reset(o) PROVE Inv'
      <3>1. 0 \in 0..MaxSize
        BY PsqlQueryAssumption
      <3>. QED
        BY <2>3, <3>1, BufferStep
    <2>4. ASSUME NEW o \in Objs, NEW n \in 0..MaxSize, SizeParams(o, n) \/ SizeResults(o, n) PROVE Inv'
      BY <2>4, BufferStep
    <2>5. ASSUME NEW o \in Objs, NEW p \in Objs, Move(o, p) PROVE Inv'
      BY <2>5, MoveStep
    <2>6. CASE Send \/ Sync \/ Read \/ Finish \/ EndTransaction
      BY <2>6, SendStep, SyncStep, ReadStep, FinishStep, EndTransactionStep
    <2>. QED
      BY <1>1, <2>1, <2>2, <2>3, <2>4, <2>5, <2>6 DEF Next
  <1>2. CASE UNCHANGED vars
    <2>1. UNCHANGED <<conn, known, obj, counter, runs, sizings, batch, clashed, report, failed>>
      BY <1>2 DEF vars
    <2>2. ObjectsOK' /\ CountersOK' /\ Names'
      BY <2>1 DEF Inv, ObjectsOK, IsObject, CountersOK, Names, Holders
    <2>3. RowsOK' /\ ReportOK'
      BY <2>1 DEF Inv, RowsOK, Effects, ReportOK, RowStatusHonest, OkMeansAll
    <2>4. BatchOK'
      BY <2>1 DEF Inv, BatchOK, IsBatch, Replied, Hung, Untouched, Effects
    <2>. QED
      BY <2>2, <2>3, <2>4 DEF Inv
  <1>. QED
    BY <1>1, <1>2

(* Every state a program with query objects can be in satisfies Inv.       *)
THEOREM InvariantThm == Spec => []Inv
  <1>1. Inv /\ [Next]_vars => Inv'
    BY InvStep
  <1>. QED
    BY <1>1, InitInv, PTL DEF Spec

(* Every query object has its own statement on the server: next_stmt_id()  *)
(* never hands out a name twice, a moved-from object gives its statement   *)
(* away, and a statement that a failed DEALLOCATE left behind is in        *)
(* nobody's way.                                                           *)
THEOREM NamesOwnedThm == Spec => []NamesOwned
  <1>1. Inv => NamesOwned
    <2>. SUFFICES ASSUME Inv PROVE NamesOwned
      OBVIOUS
    <2>1. ASSUME NEW o \in Alive
          PROVE  /\ obj[o].par.rows \in 1..MaxSize /\ obj[o].res.rows \in 1..MaxSize
                 /\ DOMAIN obj[o].status = 1..obj[o].par.rows
                 /\ obj[o].rows \in 0..MaxRuns /\ obj[o].affected \in {-1} \cup 1..MaxSize
      <3>1. IsObject(obj[o])
        BY AliveObject DEF Inv, Alive
      <3>. QED
        BY <3>1 DEF IsObject, Buffers, Results, Affected
    <2>2. TypeOK
      <3>1. known \subseteq 0..(MaxNames - 1)
        BY PsqlQueryAssumption DEF Inv, CountersOK
      <3>2. failed \subseteq Runs
        BY PsqlQueryAssumption DEF Inv, CountersOK, Runs
      <3>. QED
        BY <2>1, <3>1, <3>2 DEF Inv, RowsOK, CountersOK, TypeOK
    <2>3. OneOwner /\ NoNameClash
      BY DEF Inv, Names, Holders, OneOwner, NoNameClash, Owners, Alive
    <2>. QED
      BY <2>2, <2>3 DEF NamesOwned
  <1>. QED
    BY <1>1, InvariantThm, PTL

(* fetch() never runs past the result in hand and serves every row of it   *)
(* once: total_rows_ - next_row_ never wraps.                              *)
THEOREM PagesInOrderThm == Spec => []PagesInOrder
  <1>1. Inv => PagesInOrder
    <2>. SUFFICES ASSUME Inv, NEW o \in Alive PROVE obj[o].next <= obj[o].total /\ obj[o].next = obj[o].served
      BY DEF PagesInOrder
    <2>1. IsObject(obj[o])
      BY AliveObject DEF Inv, Alive
    <2>. QED
      BY <2>1 DEF IsObject
  <1>. QED
    BY <1>1, InvariantThm, PTL

(* execute_batch() reads every reply, whatever failed; what it reports per *)
(* row is what the server did; a success means every row; and of a batch   *)
(* that failed with all rows sent nothing is ever committed.               *)
THEOREM BatchHonestThm == Spec => []BatchHonest
  <1>1. Inv => BatchHonest
    <2>. SUFFICES ASSUME Inv PROVE BatchHonest
      OBVIOUS
    <2>1. PipelineLeft
      <3>. SUFFICES ASSUME batch.pc = "idle" PROVE batch.queue = <<>>
        BY DEF PipelineLeft
      <3>1. batch = Idle
        BY IdleBatch DEF Inv
      <3>. QED
        BY <3>1 DEF Idle
    <2>2. RowStatusHonest /\ OkMeansAll
      BY DEF Inv, ReportOK
    <2>3. AllOrNothing
      BY DEF Inv, RowsOK, Effects, AllOrNothing
    <2>. QED
      BY <2>1, <2>2, <2>3 DEF BatchHonest
  <1>. QED
    BY <1>1, InvariantThm, PTL

(* An object goes away in its destructor only.                             *)
LEMMA OnlyDestroyed ==
  ASSUME Inv, Next, NEW o \in Objs, obj[o].alive, ~obj'[o].alive
  PROVE  Destroy(o)
  <1>1. IsObject(obj[o]) /\ \A p \in Objs : obj[p].alive => IsObject(obj[p])
    BY AliveObject DEF Inv
  <1>2. ASSUME NEW p \in Objs, NEW g, obj[p].alive => g.alive, obj' = [obj EXCEPT ![p] = g] PROVE FALSE
    BY <1>2 DEF Inv, ObjectsOK
  <1>3. ASSUME NEW p \in Objs, Construct(p) PROVE FALSE
    BY <1>2, <1>3 DEF Construct, Becomes
  <1>4. ASSUME NEW p \in Objs, Destroy(p), p # o PROVE FALSE
    BY <1>4 DEF Destroy, Becomes, Inv, ObjectsOK
  <1>5. ASSUME NEW p \in Objs, Prepare(p) PROVE FALSE
    <2>1. obj' = obj \/ obj' = [obj EXCEPT ![p] = Bound(obj[p])]
      BY <1>5 DEF Prepare
    <2>2. IsObject(obj[p])
      BY <1>1, <1>5 DEF Prepare, Usable
    <2>. QED
      BY <1>2, <2>1, <2>2, BoundObject
  <1>6. ASSUME NEW p \in Objs, ExecuteRefused(p) \/ BatchStart(p) \/ Execute(p) PROVE FALSE
    <2>1. PICK f : Becomes(p, [f EXCEPT !.run = runs'])
                   /\ (f = obj[p] \/ \E total : f = Executed(obj[p], runs', total))
      BY <1>6 DEF ExecuteRefused, BatchStart, Execute
    <2>2. IsObject(obj[p])
      BY <1>1, <1>6 DEF ExecuteRefused, BatchStart, Execute, Usable
    <2>3. [f EXCEPT !.run = runs'].alive
      BY <2>1, <2>2 DEF IsObject, Executed
    <2>. QED
      BY <1>2, <2>1, <2>3 DEF Becomes
  <1>7. ASSUME NEW p \in Objs, NEW n \in 0..MaxSize, SizeParams(p, n) \/ SizeResults(p, n) PROVE FALSE
    <2>1. IsObject(obj[p])
      BY <1>1, <1>7 DEF SizeParams, SizeResults, Usable
    <2>2. CASE SizeParams(p, n)
      <3>1. PICK b, z : Becomes(p, [obj[p] EXCEPT !.par = b, !.status = z])
        BY <2>2 DEF SizeParams
      <3>2. [obj[p] EXCEPT !.par = b, !.status = z].alive
        BY <2>1 DEF IsObject
      <3>. QED
        BY <1>2, <3>1, <3>2 DEF Becomes
    <2>3. CASE SizeResults(p, n)
      <3>1. PICK b : Becomes(p, [obj[p] EXCEPT !.res = b])
        BY <2>3 DEF SizeResults
      <3>2. [obj[p] EXCEPT !.res = b].alive
        BY <2>1 DEF IsObject
      <3>. QED
        BY <1>2, <3>1, <3>2 DEF Becomes
    <2>. QED
      BY <1>7, <2>2, <2>3
  <1>8. ASSUME NEW p \in Objs, Fetch(p) PROVE FALSE
    <2>1. IsObject(obj[p])
      BY <1>1, <1>8 DEF Fetch, Usable
    <2>2. PICK g : Becomes(p, g) /\ SameStatement(obj[p], g)
      BY <1>8, <2>1, FetchedObject DEF Fetch
    <2>. QED
      BY <1>2, <2>2 DEF Becomes, SameStatement
  <1>9. ASSUME NEW p \in Objs, Reset(p) PROVE FALSE
    <2>1. IsObject(obj[p])
      BY <1>1, <1>9 DEF Reset, Usable
    <2>2. PICK g : Becomes(p, g) /\ SameStatement(obj[p], g)
      BY <1>9, <2>1, ResetObject DEF Reset
    <2>. QED
      BY <1>2, <2>2 DEF Becomes, SameStatement
  <1>10. ASSUME NEW p \in Objs, NEW q \in Objs, Move(p, q) PROVE FALSE
    <2>1. IsObject(obj[p])
      BY <1>1, <1>10 DEF Move, Usable
    <2>2. PICK g : g = MovedFrom(obj[p])
      OBVIOUS
    <2>3. g.alive
      BY <2>1, <2>2, MovedObject DEF IsObject
    <2>4. obj' = [obj EXCEPT ![q] = obj[p], ![p] = g] /\ ~obj[q].alive /\ obj[p].alive
      BY <1>10, <2>2 DEF Move, Usable
    <2>. QED
      BY <2>3, <2>4 DEF Inv, ObjectsOK
  <1>11. CASE Send \/ EndTransaction
    BY <1>11 DEF Send, EndTransaction
  <1>12. CASE Sync \/ Read \/ Finish
    <2>1. batch.o \in Objs /\ IsObject(obj[batch.o])
      BY <1>12, BatchObject DEF Sync, Read, Finish
    <2>2. CASE Sync \/ Read
      <3>1. PICK z : obj' = [obj EXCEPT ![batch.o].status = z]
        <4>1. CASE Sync
          BY <4>1 DEF Sync
        <4>2. CASE Read
          BY <4>2 DEF Read
        <4>. QED
          BY <2>2, <4>1, <4>2
      <3>2. [obj[batch.o] EXCEPT !.status = z].alive
        BY <2>1 DEF IsObject
      <3>. QED
        BY <1>2, <2>1, <3>1, <3>2
    <2>3. CASE Finish
      <3>1. obj' = obj \/ obj' = [obj EXCEPT ![batch.o] = BatchDone(obj[batch.o])]
        BY <2>3 DEF Finish
      <3>2. SameStatement(obj[batch.o], BatchDone(obj[batch.o]))
        BY <2>1, BatchDoneObject
      <3>. QED
        BY <1>2, <2>1, <3>1, <3>2 DEF SameStatement
    <2>. QED
      BY <1>12, <2>2, <2>3
  <1>. QED
    BY <1>3, <1>4, <1>5, <1>6, <1>7, <1>8, <1>9, <1>10, <1>11, <1>12 DEF Next

(* ~query() never aborts the transaction that is open: the statement it    *)
(* deallocates is one the server has, so DEALLOCATE is not refused.        *)
THEOREM DestroyHarmlessThm == Spec => DestroyHarmless
  <1>. DEFINE Harmless == \A o \in Objs : obj[o].alive /\ ~obj'[o].alive /\ conn.tx = "open"
                                          => conn'.tx # "aborted"
  <1>1. Inv /\ [Next]_vars => [Harmless]_vars
    <2>. SUFFICES ASSUME Inv, Next, NEW o \in Objs, obj[o].alive, ~obj'[o].alive, conn.tx = "open"
                  PROVE  conn'.tx # "aborted"
      OBVIOUS
    <2>1. Destroy(o)
      BY OnlyDestroyed
    <2>2. CASE obj[o].prepared /\ obj[o].db
      <3>1. obj[o].name \in known
        BY <2>2 DEF Inv, Names, Holders
      <3>2. PICK a \in DeallocateAnswers(conn, obj[o].name) : conn' = a.conn
        BY <2>1, <2>2 DEF Destroy
      <3>. QED
        BY <3>1, <3>2, DeallocateLeaves DEF Inv
    <2>3. CASE ~(obj[o].prepared /\ obj[o].db)
      BY <2>1, <2>3 DEF Destroy
    <2>. QED
      BY <2>2, <2>3
  <1>. QED
    BY <1>1, InvariantThm, PTL DEF Spec, DestroyHarmless
=============================================================================
