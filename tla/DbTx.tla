-------------------------------- MODULE DbTx --------------------------------
(***************************************************************************)
(* The connection as the runtime library sees it: the transaction of the   *)
(* server (external, modelled from how psql_rtl.cpp and db2_rtl.cpp use    *)
(* it) and the calls of rtl::db that end a transaction, commit() and       *)
(* rollback(), of both backends.                                           *)
(*                                                                         *)
(* A connection is a record:                                               *)
(*   tx       "open"    inside a transaction                               *)
(*            "aborted" PostgreSQL's 25P02: every statement is refused     *)
(*            "none"    PostgreSQL outside a transaction: autocommit       *)
(*            "lost"    the connection is gone                             *)
(*   work     the statements whose effect the open transaction holds       *)
(*   durable  the statements whose effect is committed                     *)
(* Every operator whose name ends in Answers gives the SET of answers the  *)
(* call may get: the status the library reports, and the connection it     *)
(* leaves behind.                                                          *)
(***************************************************************************)
CONSTANTS Backend,        \* "psql" or "db2", chosen when rtl is built
          PrepareMayFail, \* PREPARE may be refused (a fault in the SQL text)
          CommitMayFail,  \* COMMIT may be refused (a deferred constraint)
          ConnMayDrop     \* the connection may be lost during a round trip

ASSUME DbTxAssumption ==
  /\ Backend \in {"psql", "db2"}
  /\ PrepareMayFail \in BOOLEAN
  /\ CommitMayFail \in BOOLEAN
  /\ ConnMayDrop \in BOOLEAN

TxStates == {"open", "aborted", "none", "lost"}

Connections(S) == [tx : TxStates, work : SUBSET S, durable : SUBSET S]

Answer(ok, c) == [ok |-> ok, conn |-> c]

When(cond, S) == IF cond THEN S ELSE {}

(* connect() leaves a transaction open: psql sends BEGIN, db2 switches     *)
(* autocommit off.                                                         *)
Connected == [tx |-> "open", work |-> {}, durable |-> {}]

(* The connection drops during the round trip: the server discards what is *)
(* not committed, and the call fails.                                      *)
DroppedAnswers(c) ==
  When(ConnMayDrop, {Answer(FALSE, [c EXCEPT !.tx = "lost", !.work = {}])})

(* A failed statement or PREPARE: PostgreSQL aborts the whole transaction, *)
(* Db2 undoes the statement alone.                                         *)
AfterFailure(c) ==
  IF Backend = "psql" /\ c.tx = "open" THEN [c EXCEPT !.tx = "aborted"] ELSE c

(* The effect of statement n: part of the open transaction, or committed   *)
(* on the spot when there is none.                                         *)
AfterStatement(c, n) ==
  IF c.tx = "open" THEN [c EXCEPT !.work = @ \cup {n}]
                   ELSE [c EXCEPT !.durable = @ \cup {n}]

Accepting(c) == c.tx \in {"open", "none"}

PrepareAnswers(c) ==
       When(Accepting(c), {Answer(TRUE, c)})
  \cup When(PrepareMayFail \/ ~Accepting(c), {Answer(FALSE, AfterFailure(c))})
  \cup DroppedAnswers(c)

(* Any statement may fail: a constraint, a conversion, a cancel request.   *)
StatementAnswers(c, n) ==
       When(Accepting(c), {Answer(TRUE, AfterStatement(c, n))})
  \cup {Answer(FALSE, AfterFailure(c))}
  \cup DroppedAnswers(c)

-----------------------------------------------------------------------------
(* db_psql: exec_command() with COMMIT, ROLLBACK and BEGIN.  COMMIT of an  *)
(* aborted transaction rolls it back and still answers PGRES_COMMAND_OK;   *)
(* COMMIT outside a transaction is a warning, which is a success; a        *)
(* refused COMMIT (of some work) rolls back, and no transaction is open.   *)
Committed(c, tx) == [tx |-> tx, work |-> {}, durable |-> c.durable \cup c.work]
RolledBack(c, tx) == [c EXCEPT !.tx = tx, !.work = {}]

PsqlCommitCommand(c) ==
       When(c.tx = "open", {Answer(TRUE, Committed(c, "none"))})
  \cup When(c.tx = "open" /\ c.work # {} /\ CommitMayFail, {Answer(FALSE, RolledBack(c, "none"))})
  \cup When(c.tx = "open" /\ ConnMayDrop, {Answer(FALSE, Committed(c, "lost"))})
  \cup When(c.tx \in {"aborted", "none"}, {Answer(TRUE, RolledBack(c, "none"))})
  \cup When(c.tx = "lost", {Answer(FALSE, c)})
  \cup DroppedAnswers(c)

PsqlRollbackCommand(c) ==
       When(c.tx # "lost", {Answer(TRUE, RolledBack(c, "none"))})
  \cup When(c.tx = "lost", {Answer(FALSE, c)})
  \cup DroppedAnswers(c)

PsqlBeginCommand(c) ==
       When(c.tx # "lost", {Answer(TRUE, [c EXCEPT !.tx = "open"])})
  \cup When(c.tx = "lost", {Answer(FALSE, c)})
  \cup DroppedAnswers(c)

(* db_psql::commit() and rollback() send BEGIN only after a success.       *)
ThenBegin(answers) ==
  UNION { IF a.ok THEN PsqlBeginCommand(a.conn) ELSE {a} : a \in answers }

-----------------------------------------------------------------------------
(* db_db2: SQLEndTran.  The next statement starts a unit of work by        *)
(* itself, so a transaction is open either way; ROLLBACK with nothing to   *)
(* roll back may be refused with 25000 (as disconnect() remarks).          *)
Db2CommitAnswers(c) ==
       When(c.tx = "open", {Answer(TRUE, Committed(c, "open"))})
  \cup When(c.tx = "open" /\ c.work # {} /\ CommitMayFail, {Answer(FALSE, RolledBack(c, "open"))})
  \cup When(c.tx = "open" /\ ConnMayDrop, {Answer(FALSE, Committed(c, "lost"))})
  \cup When(c.tx = "lost", {Answer(FALSE, c)})
  \cup DroppedAnswers(c)

Db2RollbackAnswers(c) ==
       When(c.tx = "open", {Answer(TRUE, RolledBack(c, "open"))})
  \cup When(c.tx = "open" /\ c.work = {}, {Answer(FALSE, c)})
  \cup When(c.tx = "lost", {Answer(FALSE, c)})
  \cup DroppedAnswers(c)

-----------------------------------------------------------------------------
CommitAnswers(c) ==
  IF Backend = "psql" THEN ThenBegin(PsqlCommitCommand(c)) ELSE Db2CommitAnswers(c)

FaultyRollbackAnswers(c) == CommitAnswers(c)
RollbackAnswers(c) ==
  IF Backend = "psql" THEN ThenBegin(PsqlRollbackCommand(c)) ELSE Db2RollbackAnswers(c)
=============================================================================
