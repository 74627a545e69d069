-------------------------------- MODULE DbOps --------------------------------
(***************************************************************************)
(* The remaining calls of rtl::db on top of DbTx: exec(), get_sql_metadata *)
(* and refresh_statistics() of both backends.  As in DbTx an operator ends *)
(* in Answers and gives the set of answers the call may get.               *)
(***************************************************************************)
EXTENDS DbTx

CONSTANT AllocMayFail   \* SQLAllocHandle may fail (out of handles or memory)

ASSUME DbOpsAssumption == AllocMayFail \in BOOLEAN


(* db_db2::exec(): one unit of work of its own.  A failed statement rolls  *)
(* back, a successful one commits; the status of neither is looked at.  No *)
(* handle: nothing is touched.                                             *)
Db2ExecAnswers(c, n) ==
  When(AllocMayFail \/ c.tx = "lost", {Answer(FALSE, c)})
  \cup UNION { IF s.ok
               THEN { Answer(TRUE, e.conn) : e \in Db2CommitAnswers(s.conn) }
               ELSE { Answer(FALSE, e.conn) : e \in Db2RollbackAnswers(s.conn) }
               : s \in StatementAnswers(c, n) }

(* db_psql::exec() is exec_command(): part of the open transaction.        *)
FaultyExecCommits(c, n) == Db2ExecAnswers(c, n)
ExecAnswers(c, n) ==
  IF Backend = "psql" THEN StatementAnswers(c, n) ELSE Db2ExecAnswers(c, n)

(* get_sql_metadata(): PREPARE and DESCRIBE.  On Db2 every one of the      *)
(* describe calls may fail as well, without touching the unit of work; the *)
(* DEALLOCATE ALL on PostgreSQL around them has no effect on it.           *)
DescribeAnswers(c) ==
  PrepareAnswers(c) \cup When(Backend = "db2" /\ AllocMayFail, {Answer(FALSE, c)})

(* VACUUM ANALYZE outside a transaction, answered or refused.              *)
VacuumAnswers(c) ==
  When(c.tx # "lost", {Answer(TRUE, c)}) \cup {Answer(FALSE, c)} \cup DroppedAnswers(c)

(* db_psql::refresh_statistics(): COMMIT; VACUUM; BEGIN whatever VACUUM    *)
(* answered.                                                               *)
FaultyReopened(v) == IF v.ok THEN PsqlBeginCommand(v.conn) ELSE {v}
Reopened(v) ==
  { Answer(v.ok /\ b.ok, b.conn) : b \in PsqlBeginCommand(v.conn) }

RefreshStatisticsAnswers(c, n) ==
  IF Backend = "db2" THEN Db2ExecAnswers(c, n)
  ELSE UNION { IF a.ok THEN UNION { Reopened(v) : v \in VacuumAnswers(a.conn) } ELSE {a}
               : a \in PsqlCommitCommand(c) }
=============================================================================
