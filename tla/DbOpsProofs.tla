---------------------------- MODULE DbOpsProofs -----------------------------
(***************************************************************************)
(* What the answers of DbTx and DbOps can be: lemmas about the calls on a  *)
(* connection, shared by the proofs of the modules that make them.         *)
(***************************************************************************)
EXTENDS DbOps, TLAPS

(* The answers a call may get: a status, and a connection.                 *)
LEMMA AnswerType ==
  ASSUME NEW S, NEW ok \in BOOLEAN, NEW c \in Connections(S)
  PROVE  Answer(ok, c).ok \in BOOLEAN /\ Answer(ok, c).conn \in Connections(S)
  BY DEF Answer

(* A conditional answer is one of its answers.                             *)
LEMMA WhenMember ==
  ASSUME NEW cond, NEW S, NEW x \in When(cond, S)
  PROVE  x \in S
  BY DEF When

(* A dropped connection is still a connection.                             *)
LEMMA DroppedType ==
  ASSUME NEW S, NEW c \in Connections(S), NEW a \in DroppedAnswers(c)
  PROVE  a.ok \in BOOLEAN /\ a.conn \in Connections(S)
  <1>1. [c EXCEPT !.tx = "lost", !.work = {}] \in Connections(S)
    BY DEF Connections, TxStates
  <1>2. a = Answer(FALSE, [c EXCEPT !.tx = "lost", !.work = {}])
    BY WhenMember DEF DroppedAnswers
  <1>. QED
    BY <1>1, <1>2, AnswerType

(* execute() answers with a status and a connection.                       *)
LEMMA StatementType ==
  ASSUME NEW S, NEW c \in Connections(S), NEW n \in S, NEW a \in StatementAnswers(c, n)
  PROVE  a.ok \in BOOLEAN /\ a.conn \in Connections(S)
  <1>1. CASE a \in DroppedAnswers(c)
    BY <1>1, DroppedType
  <1>2. AfterFailure(c) \in Connections(S) /\ AfterStatement(c, n) \in Connections(S)
    BY DEF AfterFailure, AfterStatement, Connections, TxStates
  <1>3. CASE a \notin DroppedAnswers(c)
    BY <1>2, <1>3, WhenMember, AnswerType DEF StatementAnswers
  <1>. QED
    BY <1>1, <1>3

(* prepare() answers with a status and a connection.                       *)
LEMMA PrepareType ==
  ASSUME NEW S, NEW c \in Connections(S), NEW a \in PrepareAnswers(c)
  PROVE  a.ok \in BOOLEAN /\ a.conn \in Connections(S)
  <1>1. CASE a \in DroppedAnswers(c)
    BY <1>1, DroppedType
  <1>2. AfterFailure(c) \in Connections(S)
    BY DEF AfterFailure, Connections, TxStates
  <1>3. CASE a \notin DroppedAnswers(c)
    BY <1>2, <1>3, WhenMember, AnswerType DEF PrepareAnswers
  <1>. QED
    BY <1>1, <1>3

(* Ending a transaction leaves a connection.                               *)
LEMMA EndedType ==
  ASSUME NEW S, NEW c \in Connections(S), NEW tx \in TxStates
  PROVE  Committed(c, tx) \in Connections(S) /\ RolledBack(c, tx) \in Connections(S)
  BY DEF Committed, RolledBack, Connections

(* BEGIN answers with a status and a connection.                           *)
LEMMA BeginType ==
  ASSUME NEW S, NEW c \in Connections(S), NEW a \in PsqlBeginCommand(c)
  PROVE  a.ok \in BOOLEAN /\ a.conn \in Connections(S)
  <1>1. CASE a \in DroppedAnswers(c)
    BY <1>1, DroppedType
  <1>2. [c EXCEPT !.tx = "open"] \in Connections(S)
    BY DEF Connections, TxStates
  <1>3. CASE a \notin DroppedAnswers(c)
    BY <1>2, <1>3, AnswerType DEF PsqlBeginCommand, When
  <1>. QED
    BY <1>1, <1>3

(* The BEGIN that psql sends after a success keeps the answers typed.      *)
LEMMA ThenBeginType ==
  ASSUME NEW S, NEW A, \A b \in A : b.ok \in BOOLEAN /\ b.conn \in Connections(S),
         NEW a \in ThenBegin(A)
  PROVE  a.ok \in BOOLEAN /\ a.conn \in Connections(S)
  <1>1. PICK b \in A : a \in IF b.ok THEN PsqlBeginCommand(b.conn) ELSE {b}
    BY DEF ThenBegin
  <1>2. CASE b.ok
    BY <1>1, <1>2, BeginType
  <1>3. CASE ~b.ok
    BY <1>1, <1>3
  <1>. QED
    BY <1>2, <1>3

(* COMMIT answers with a status and a connection.                          *)
LEMMA PsqlCommitType ==
  ASSUME NEW S, NEW c \in Connections(S), NEW a \in PsqlCommitCommand(c)
  PROVE  a.ok \in BOOLEAN /\ a.conn \in Connections(S)
  <1>1. Committed(c, "none") \in Connections(S) /\ Committed(c, "lost") \in Connections(S)
        /\ RolledBack(c, "none") \in Connections(S)
    BY EndedType DEF TxStates
  <1>2. CASE a \in DroppedAnswers(c)
    BY <1>2, DroppedType
  <1>3. CASE a \notin DroppedAnswers(c)
    BY <1>1, <1>3, AnswerType DEF PsqlCommitCommand, When
  <1>. QED
    BY <1>2, <1>3

(* SQLEndTran(SQL_COMMIT) answers with a status and a connection.          *)
LEMMA Db2CommitType ==
  ASSUME NEW S, NEW c \in Connections(S), NEW a \in Db2CommitAnswers(c)
  PROVE  a.ok \in BOOLEAN /\ a.conn \in Connections(S)
  <1>1. Committed(c, "open") \in Connections(S) /\ Committed(c, "lost") \in Connections(S)
        /\ RolledBack(c, "open") \in Connections(S)
    BY EndedType DEF TxStates
  <1>2. CASE a \in DroppedAnswers(c)
    BY <1>2, DroppedType
  <1>3. CASE a \notin DroppedAnswers(c)
    BY <1>1, <1>3, AnswerType DEF Db2CommitAnswers, When
  <1>. QED
    BY <1>2, <1>3

(* ROLLBACK answers with a status and a connection.                        *)
LEMMA PsqlRollbackType ==
  ASSUME NEW S, NEW c \in Connections(S), NEW a \in PsqlRollbackCommand(c)
  PROVE  a.ok \in BOOLEAN /\ a.conn \in Connections(S)
  <1>1. RolledBack(c, "none") \in Connections(S)
    BY EndedType DEF TxStates
  <1>2. CASE a \in DroppedAnswers(c)
    BY <1>2, DroppedType
  <1>3. CASE a \notin DroppedAnswers(c)
    BY <1>1, <1>3, AnswerType DEF PsqlRollbackCommand, When
  <1>. QED
    BY <1>2, <1>3

(* SQLEndTran(SQL_ROLLBACK) answers with a status and a connection.        *)
LEMMA Db2RollbackType ==
  ASSUME NEW S, NEW c \in Connections(S), NEW a \in Db2RollbackAnswers(c)
  PROVE  a.ok \in BOOLEAN /\ a.conn \in Connections(S)
  <1>1. RolledBack(c, "open") \in Connections(S)
    BY EndedType DEF TxStates
  <1>2. CASE a \in DroppedAnswers(c)
    BY <1>2, DroppedType
  <1>3. CASE a \notin DroppedAnswers(c)
    BY <1>1, <1>3, AnswerType DEF Db2RollbackAnswers, When
  <1>. QED
    BY <1>2, <1>3

(* commit() of either backend answers with a status and a connection.      *)
LEMMA CommitType ==
  ASSUME NEW S, NEW c \in Connections(S), NEW a \in CommitAnswers(c)
  PROVE  a.ok \in BOOLEAN /\ a.conn \in Connections(S)
  BY PsqlCommitType, Db2CommitType, ThenBeginType DEF CommitAnswers

(* rollback() of either backend answers with a status and a connection.    *)
LEMMA RollbackType ==
  ASSUME NEW S, NEW c \in Connections(S), NEW a \in RollbackAnswers(c)
  PROVE  a.ok \in BOOLEAN /\ a.conn \in Connections(S)
  BY PsqlRollbackType, Db2RollbackType, ThenBeginType DEF RollbackAnswers

-----------------------------------------------------------------------------
(* What a call leaves of the transaction.  A connection as the program     *)
(* meets it: nothing is pending outside a transaction, and Db2 knows no    *)
(* aborted transaction and no autocommit.                                  *)
Sound(c) ==
  /\ c.tx \in {"none", "lost"} => c.work = {}
  /\ Backend = "db2" => c.tx \in {"open", "lost"}

Is(c, tx, work, durable) == c.tx = tx /\ c.work = work /\ c.durable = durable

(* A transaction that ended left the statements committed or undone.       *)
LEMMA EndedFields ==
  ASSUME NEW S, NEW c \in Connections(S), NEW tx
  PROVE  /\ Is(Committed(c, tx), tx, {}, c.durable \cup c.work)
         /\ Is(RolledBack(c, tx), tx, {}, c.durable)
  BY DEF Committed, RolledBack, Connections, Is

(* An answer carries the status and the connection it was made of.         *)
LEMMA AnswerFields ==
  ASSUME NEW c
  PROVE  /\ Answer(TRUE, c).ok /\ Answer(TRUE, c).conn = c
         /\ ~Answer(FALSE, c).ok /\ Answer(FALSE, c).conn = c
  BY DEF Answer

(* The connection is lost, with everything that was not committed.         *)
LEMMA DroppedOutcome ==
  ASSUME NEW S, NEW c \in Connections(S), NEW a \in DroppedAnswers(c)
  PROVE  ~a.ok /\ Is(a.conn, "lost", {}, c.durable)
  <1>1. a = Answer(FALSE, RolledBack(c, "lost"))
    BY WhenMember DEF DroppedAnswers, RolledBack
  <1>2. ~a.ok /\ a.conn = RolledBack(c, "lost")
    BY <1>1, AnswerFields
  <1>3. Is(RolledBack(c, "lost"), "lost", {}, c.durable)
    BY EndedFields
  <1>. QED
    BY <1>2, <1>3

(* A statement joins the transaction, or is committed when there is none;  *)
(* a failed one aborts PostgreSQL's transaction.                           *)
LEMMA StatementOutcome ==
  ASSUME NEW S, NEW c \in Connections(S), NEW n, NEW a \in StatementAnswers(c, n)
  PROVE  \/ a.ok /\ c.tx = "open" /\ Is(a.conn, "open", c.work \cup {n}, c.durable)
         \/ a.ok /\ c.tx = "none" /\ Is(a.conn, "none", c.work, c.durable \cup {n})
         \/ ~a.ok /\ Backend = "psql" /\ c.tx = "open" /\ Is(a.conn, "aborted", c.work, c.durable)
         \/ ~a.ok /\ (Backend = "db2" \/ c.tx # "open") /\ Is(a.conn, c.tx, c.work, c.durable)
         \/ ~a.ok /\ Is(a.conn, "lost", {}, c.durable)
  <1>1. CASE a \in DroppedAnswers(c)
    BY <1>1, DroppedOutcome
  <1>2. CASE a \in When(Accepting(c), {Answer(TRUE, AfterStatement(c, n))})
    BY <1>2 DEF When, Accepting, Answer, AfterStatement, Connections, Is
  <1>3. CASE a = Answer(FALSE, AfterFailure(c))
    BY <1>3, DbTxAssumption DEF Answer, AfterFailure, Connections, Is
  <1>. QED
    BY <1>1, <1>2, <1>3 DEF StatementAnswers

(* PREPARE has no effect but that of a failure.                            *)
LEMMA PrepareOutcome ==
  ASSUME NEW S, NEW c \in Connections(S), NEW a \in PrepareAnswers(c)
  PROVE  \/ a.ok /\ c.tx \in {"open", "none"} /\ Is(a.conn, c.tx, c.work, c.durable)
         \/ /\ ~a.ok /\ Backend = "psql" /\ c.tx = "open" /\ PrepareMayFail
            /\ Is(a.conn, "aborted", c.work, c.durable)
         \/ ~a.ok /\ (Backend = "db2" \/ c.tx # "open") /\ Is(a.conn, c.tx, c.work, c.durable)
         \/ ~a.ok /\ Is(a.conn, "lost", {}, c.durable)
  <1>1. CASE a \in DroppedAnswers(c)
    BY <1>1, DroppedOutcome
  <1>2. CASE a \in When(Accepting(c), {Answer(TRUE, c)})
    BY <1>2 DEF When, Accepting, Answer, Is
  <1>3. CASE a \in When(PrepareMayFail \/ ~Accepting(c), {Answer(FALSE, AfterFailure(c))})
    BY <1>3, DbTxAssumption DEF When, Accepting, Answer, AfterFailure, Connections, Is
  <1>. QED
    BY <1>1, <1>2, <1>3 DEF PrepareAnswers

(* BEGIN opens a transaction, or the connection is lost.                   *)
LEMMA BeginOutcome ==
  ASSUME NEW S, NEW c \in Connections(S), NEW a \in PsqlBeginCommand(c)
  PROVE  \/ a.ok /\ c.tx # "lost" /\ Is(a.conn, "open", c.work, c.durable)
         \/ ~a.ok /\ c.tx = "lost" /\ Is(a.conn, "lost", c.work, c.durable)
         \/ ~a.ok /\ Is(a.conn, "lost", {}, c.durable)
  <1>1. CASE a \in DroppedAnswers(c)
    BY <1>1, DroppedOutcome
  <1>2. /\ Is([c EXCEPT !.tx = "open"], "open", c.work, c.durable)
        /\ Is(c, c.tx, c.work, c.durable)
    BY EndedFields DEF Connections, TxStates, Is
  <1>3. CASE a \notin DroppedAnswers(c)
    <2>1. \/ c.tx # "lost" /\ a = Answer(TRUE, [c EXCEPT !.tx = "open"])
          \/ c.tx = "lost" /\ a = Answer(FALSE, c)
      BY <1>3 DEF PsqlBeginCommand, When
    <2>. QED
      BY <1>2, <2>1, AnswerFields DEF Sound
  <1>. QED
    BY <1>1, <1>3

(* COMMIT as PostgreSQL answers it.                                        *)
LEMMA PsqlCommitOutcome ==
  ASSUME NEW S, NEW c \in Connections(S), Sound(c), NEW a \in PsqlCommitCommand(c)
  PROVE  \/ a.ok /\ c.tx = "open" /\ Is(a.conn, "none", {}, c.durable \cup c.work)
         \/ a.ok /\ c.tx \in {"aborted", "none"} /\ Is(a.conn, "none", {}, c.durable)
         \/ ~a.ok /\ CommitMayFail /\ c.tx = "open" /\ Is(a.conn, "none", {}, c.durable)
         \/ ~a.ok /\ Is(a.conn, "lost", {}, c.durable)
         \/ ~a.ok /\ c.tx = "open" /\ Is(a.conn, "lost", {}, c.durable \cup c.work)
  <1>1. CASE a \in DroppedAnswers(c)
    BY <1>1, DroppedOutcome
  <1>2. /\ Is(Committed(c, "none"), "none", {}, c.durable \cup c.work)
        /\ Is(Committed(c, "lost"), "lost", {}, c.durable \cup c.work)
        /\ Is(RolledBack(c, "none"), "none", {}, c.durable)
        /\ Is(c, c.tx, c.work, c.durable)
    BY EndedFields DEF Connections, TxStates, Is
  <1>3. CASE a \notin DroppedAnswers(c)
    <2>1. \/ c.tx = "open" /\ a = Answer(TRUE, Committed(c, "none"))
          \/ c.tx = "open" /\ CommitMayFail /\ a = Answer(FALSE, RolledBack(c, "none"))
          \/ c.tx = "open" /\ a = Answer(FALSE, Committed(c, "lost"))
          \/ c.tx \in {"aborted", "none"} /\ a = Answer(TRUE, RolledBack(c, "none"))
          \/ c.tx = "lost" /\ a = Answer(FALSE, c)
      BY <1>3 DEF PsqlCommitCommand, When
    <2>. QED
      BY <1>2, <2>1, AnswerFields DEF Sound
  <1>. QED
    BY <1>1, <1>3

(* SQLEndTran(SQL_COMMIT) as Db2 answers it.                               *)
LEMMA Db2CommitOutcome ==
  ASSUME NEW S, NEW c \in Connections(S), Sound(c), NEW a \in Db2CommitAnswers(c)
  PROVE  \/ a.ok /\ c.tx = "open" /\ Is(a.conn, "open", {}, c.durable \cup c.work)
         \/ ~a.ok /\ CommitMayFail /\ c.tx = "open" /\ Is(a.conn, "open", {}, c.durable)
         \/ ~a.ok /\ Is(a.conn, "lost", {}, c.durable)
         \/ ~a.ok /\ c.tx = "open" /\ Is(a.conn, "lost", {}, c.durable \cup c.work)
  <1>1. CASE a \in DroppedAnswers(c)
    BY <1>1, DroppedOutcome
  <1>2. /\ Is(Committed(c, "open"), "open", {}, c.durable \cup c.work)
        /\ Is(Committed(c, "lost"), "lost", {}, c.durable \cup c.work)
        /\ Is(RolledBack(c, "open"), "open", {}, c.durable)
        /\ Is(c, c.tx, c.work, c.durable)
    BY EndedFields DEF Connections, TxStates, Is
  <1>3. CASE a \notin DroppedAnswers(c)
    <2>1. \/ c.tx = "open" /\ a = Answer(TRUE, Committed(c, "open"))
          \/ c.tx = "open" /\ CommitMayFail /\ a = Answer(FALSE, RolledBack(c, "open"))
          \/ c.tx = "open" /\ a = Answer(FALSE, Committed(c, "lost"))
          \/ c.tx = "lost" /\ a = Answer(FALSE, c)
      BY <1>3 DEF Db2CommitAnswers, When
    <2>. QED
      BY <1>2, <2>1, AnswerFields DEF Sound
  <1>. QED
    BY <1>1, <1>3

(* ROLLBACK as PostgreSQL answers it: what is pending is undone.           *)
LEMMA PsqlRollbackOutcome ==
  ASSUME NEW S, NEW c \in Connections(S), Sound(c), NEW a \in PsqlRollbackCommand(c)
  PROVE  \/ a.ok /\ c.tx # "lost" /\ Is(a.conn, "none", {}, c.durable)
         \/ ~a.ok /\ Is(a.conn, "lost", {}, c.durable)
  <1>1. CASE a \in DroppedAnswers(c)
    BY <1>1, DroppedOutcome
  <1>2. /\ Is(RolledBack(c, "none"), "none", {}, c.durable)
        /\ Is(c, c.tx, c.work, c.durable)
    BY EndedFields DEF Connections, TxStates, Is
  <1>3. CASE a \notin DroppedAnswers(c)
    <2>1. \/ c.tx # "lost" /\ a = Answer(TRUE, RolledBack(c, "none"))
          \/ c.tx = "lost" /\ a = Answer(FALSE, c)
      BY <1>3 DEF PsqlRollbackCommand, When
    <2>. QED
      BY <1>2, <2>1, AnswerFields DEF Sound
  <1>. QED
    BY <1>1, <1>3

(* SQLEndTran(SQL_ROLLBACK) as Db2 answers it: the same.                   *)
LEMMA Db2RollbackOutcome ==
  ASSUME NEW S, NEW c \in Connections(S), Sound(c), NEW a \in Db2RollbackAnswers(c)
  PROVE  \/ c.tx = "open" /\ Is(a.conn, "open", {}, c.durable)
         \/ ~a.ok /\ Is(a.conn, "lost", {}, c.durable)
  <1>1. CASE a \in DroppedAnswers(c)
    BY <1>1, DroppedOutcome
  <1>2. /\ Is(RolledBack(c, "open"), "open", {}, c.durable)
        /\ Is(c, c.tx, c.work, c.durable)
    BY EndedFields DEF Connections, TxStates, Is
  <1>3. CASE a \notin DroppedAnswers(c)
    <2>1. \/ c.tx = "open" /\ a = Answer(TRUE, RolledBack(c, "open"))
          \/ c.tx = "open" /\ c.work = {} /\ a = Answer(FALSE, c)
          \/ c.tx = "lost" /\ a = Answer(FALSE, c)
      BY <1>3 DEF Db2RollbackAnswers, When
    <2>. QED
      BY <1>2, <2>1, AnswerFields DEF Sound
  <1>. QED
    BY <1>1, <1>3

(* db_psql sends BEGIN after a command that left it outside a transaction. *)
LEMMA ThenBeginOutcome ==
  ASSUME NEW S, NEW A, NEW a \in ThenBegin(A),
         \A b \in A : b.conn \in Connections(S)
  PROVE  \E b \in A :
           \/ ~b.ok /\ a = b
           \/ b.ok /\ a.ok /\ Is(a.conn, "open", b.conn.work, b.conn.durable)
           \/ b.ok /\ ~a.ok /\ b.conn.tx = "lost" /\ Is(a.conn, "lost", b.conn.work, b.conn.durable)
           \/ b.ok /\ ~a.ok /\ Is(a.conn, "lost", {}, b.conn.durable)
  <1>1. PICK b \in A : a \in IF b.ok THEN PsqlBeginCommand(b.conn) ELSE {b}
    BY DEF ThenBegin
  <1>2. CASE b.ok
    <2>1. b.conn \in Connections(S) /\ a \in PsqlBeginCommand(b.conn)
      BY <1>1, <1>2
    <2>. QED
      BY <1>2, <2>1, BeginOutcome
  <1>3. CASE ~b.ok
    BY <1>1, <1>3
  <1>. QED
    BY <1>2, <1>3

(* commit() of either backend.                                             *)
LEMMA CommitOutcome ==
  ASSUME NEW S, NEW c \in Connections(S), Sound(c), NEW a \in CommitAnswers(c)
  PROVE  \/ a.ok /\ c.tx = "open" /\ Is(a.conn, "open", {}, c.durable \cup c.work)
         \/ a.ok /\ Backend = "psql" /\ c.tx \in {"aborted", "none"} /\ Is(a.conn, "open", {}, c.durable)
         \/ /\ ~a.ok /\ CommitMayFail /\ c.tx = "open"
            /\ Is(a.conn, IF Backend = "psql" THEN "none" ELSE "open", {}, c.durable)
         \/ ~a.ok /\ Is(a.conn, "lost", {}, c.durable)
         \/ ~a.ok /\ c.tx = "open" /\ Is(a.conn, "lost", {}, c.durable \cup c.work)
  <1>1. CASE Backend = "psql"
    <2>1. \A b \in PsqlCommitCommand(c) : b.conn \in Connections(S)
      BY PsqlCommitType
    <2>2. a \in ThenBegin(PsqlCommitCommand(c))
      BY <1>1 DEF CommitAnswers
    <2>3. PICK b \in PsqlCommitCommand(c) :
           \/ ~b.ok /\ a = b
           \/ b.ok /\ a.ok /\ Is(a.conn, "open", b.conn.work, b.conn.durable)
           \/ b.ok /\ ~a.ok /\ b.conn.tx = "lost" /\ Is(a.conn, "lost", b.conn.work, b.conn.durable)
           \/ b.ok /\ ~a.ok /\ Is(a.conn, "lost", {}, b.conn.durable)
      BY <2>1, <2>2, ThenBeginOutcome
    <2>. QED
      BY <1>1, <2>3, PsqlCommitOutcome DEF Is
  <1>2. CASE Backend = "db2"
    BY <1>2, Db2CommitOutcome DEF CommitAnswers
  <1>. QED
    BY <1>1, <1>2, DbTxAssumption

(* rollback() of either backend.                                           *)
LEMMA RollbackOutcome ==
  ASSUME NEW S, NEW c \in Connections(S), Sound(c), NEW a \in RollbackAnswers(c)
  PROVE  \/ c.tx # "lost" /\ Is(a.conn, "open", {}, c.durable)
         \/ ~a.ok /\ Is(a.conn, "lost", {}, c.durable)
  <1>1. CASE Backend = "psql"
    <2>1. \A b \in PsqlRollbackCommand(c) : b.conn \in Connections(S)
      BY PsqlRollbackType
    <2>2. a \in ThenBegin(PsqlRollbackCommand(c))
      BY <1>1 DEF RollbackAnswers
    <2>3. PICK b \in PsqlRollbackCommand(c) :
           \/ ~b.ok /\ a = b
           \/ b.ok /\ a.ok /\ Is(a.conn, "open", b.conn.work, b.conn.durable)
           \/ b.ok /\ ~a.ok /\ b.conn.tx = "lost" /\ Is(a.conn, "lost", b.conn.work, b.conn.durable)
           \/ b.ok /\ ~a.ok /\ Is(a.conn, "lost", {}, b.conn.durable)
      BY <2>1, <2>2, ThenBeginOutcome
    <2>. QED
      BY <1>1, <2>3, PsqlRollbackOutcome DEF Is
  <1>2. CASE Backend = "db2"
    BY <1>2, Db2RollbackOutcome DEF RollbackAnswers
  <1>. QED
    BY <1>1, <1>2, DbTxAssumption

-----------------------------------------------------------------------------
(* exec() on Db2: a failed statement is rolled back, a successful one is   *)
(* committed unless the COMMIT fails, which goes unnoticed.                *)
LEMMA Db2ExecOutcome ==
  ASSUME Backend = "db2", NEW S, NEW c \in Connections(S), Sound(c), NEW n \in S,
         NEW a \in Db2ExecAnswers(c, n)
  PROVE  \/ ~a.ok /\ Is(a.conn, c.tx, c.work, c.durable)
         \/ ~a.ok /\ c.tx = "open" /\ Is(a.conn, "open", {}, c.durable)
         \/ ~a.ok /\ Is(a.conn, "lost", {}, c.durable)
         \/ a.ok /\ c.tx = "open" /\ Is(a.conn, "open", {}, c.durable \cup c.work \cup {n})
         \/ a.ok /\ c.tx = "open" /\ CommitMayFail /\ Is(a.conn, "open", {}, c.durable)
         \/ a.ok /\ c.tx = "open" /\ Is(a.conn, "lost", {}, c.durable)
         \/ a.ok /\ c.tx = "open" /\ Is(a.conn, "lost", {}, c.durable \cup c.work \cup {n})
  <1>1. CASE a = Answer(FALSE, c)
    BY <1>1, AnswerFields DEF Is
  <1>2. CASE a # Answer(FALSE, c)
    <2>1. PICK s \in StatementAnswers(c, n) :
            a \in IF s.ok THEN { Answer(TRUE, e.conn) : e \in Db2CommitAnswers(s.conn) }
                  ELSE { Answer(FALSE, e.conn) : e \in Db2RollbackAnswers(s.conn) }
      BY <1>2 DEF Db2ExecAnswers, When
    <2>2. s.conn \in Connections(S)
      BY StatementType
    <2>3. \/ s.ok /\ c.tx = "open" /\ Is(s.conn, "open", c.work \cup {n}, c.durable)
          \/ ~s.ok /\ Is(s.conn, c.tx, c.work, c.durable)
          \/ ~s.ok /\ Is(s.conn, "lost", {}, c.durable)
      BY StatementOutcome DEF Sound
    <2>4. Sound(s.conn)
      BY <2>3 DEF Sound, Is
    <2>5. CASE s.ok
      <3>1. PICK e \in Db2CommitAnswers(s.conn) : a = Answer(TRUE, e.conn)
        BY <2>1, <2>5
      <3>2. a.ok /\ a.conn = e.conn
        BY <3>1, AnswerFields
      <3>3. c.durable \cup (c.work \cup {n}) = c.durable \cup c.work \cup {n}
        OBVIOUS
      <3>4. c.tx = "open" /\ s.conn.work = c.work \cup {n} /\ s.conn.durable = c.durable
        BY <2>3, <2>5 DEF Is
      <3>5. \/ Is(e.conn, "open", {}, s.conn.durable \cup s.conn.work)
            \/ CommitMayFail /\ Is(e.conn, "open", {}, s.conn.durable)
            \/ Is(e.conn, "lost", {}, s.conn.durable)
            \/ Is(e.conn, "lost", {}, s.conn.durable \cup s.conn.work)
        BY <2>2, <2>4, Db2CommitOutcome
      <3>. QED
        BY <3>2, <3>3, <3>4, <3>5
    <2>6. CASE ~s.ok
      <3>1. PICK e \in Db2RollbackAnswers(s.conn) : a = Answer(FALSE, e.conn)
        BY <2>1, <2>6
      <3>2. ~a.ok /\ a.conn = e.conn
        BY <3>1, AnswerFields
      <3>3. s.conn.durable = c.durable /\ (s.conn.tx = "open" => c.tx = "open")
        BY <2>3, <2>6 DEF Is
      <3>4. \/ s.conn.tx = "open" /\ Is(e.conn, "open", {}, s.conn.durable)
            \/ Is(e.conn, "lost", {}, s.conn.durable)
        BY <2>2, <2>4, Db2RollbackOutcome
      <3>. QED
        BY <3>2, <3>3, <3>4
    <2>. QED
      BY <2>5, <2>6
  <1>. QED
    BY <1>1, <1>2

(* exec() on Db2 answers with a status and a connection.                   *)
LEMMA Db2ExecType ==
  ASSUME NEW S, NEW c \in Connections(S), NEW n \in S, NEW a \in Db2ExecAnswers(c, n)
  PROVE  a.ok \in BOOLEAN /\ a.conn \in Connections(S)
  <1>1. CASE a = Answer(FALSE, c)
    BY <1>1, AnswerType
  <1>2. CASE a # Answer(FALSE, c)
    <2>1. PICK s \in StatementAnswers(c, n) :
            a \in IF s.ok THEN { Answer(TRUE, e.conn) : e \in Db2CommitAnswers(s.conn) }
                  ELSE { Answer(FALSE, e.conn) : e \in Db2RollbackAnswers(s.conn) }
      BY <1>2 DEF Db2ExecAnswers, When
    <2>2. s.conn \in Connections(S)
      BY StatementType
    <2>3. PICK e \in Db2CommitAnswers(s.conn) \cup Db2RollbackAnswers(s.conn) :
            a = Answer(TRUE, e.conn) \/ a = Answer(FALSE, e.conn)
      BY <2>1
    <2>4. e.conn \in Connections(S)
      BY <2>2, Db2CommitType, Db2RollbackType
    <2>. QED
      BY <2>3, <2>4, AnswerType
  <1>. QED
    BY <1>1, <1>2

(* exec() of either backend answers with a status and a connection.        *)
LEMMA ExecType ==
  ASSUME NEW S, NEW c \in Connections(S), NEW n \in S, NEW a \in ExecAnswers(c, n)
  PROVE  a.ok \in BOOLEAN /\ a.conn \in Connections(S)
  BY StatementType, Db2ExecType DEF ExecAnswers

(* get_sql_metadata() answers with a status and a connection.              *)
LEMMA DescribeType ==
  ASSUME NEW S, NEW c \in Connections(S), NEW a \in DescribeAnswers(c)
  PROVE  a.ok \in BOOLEAN /\ a.conn \in Connections(S)
  BY PrepareType, AnswerType DEF DescribeAnswers, When

(* get_sql_metadata() has no effect but that of a failure.                 *)
LEMMA DescribeOutcome ==
  ASSUME NEW S, NEW c \in Connections(S), NEW a \in DescribeAnswers(c)
  PROVE  \/ a.ok /\ c.tx \in {"open", "none"} /\ Is(a.conn, c.tx, c.work, c.durable)
         \/ ~a.ok /\ Backend = "psql" /\ c.tx = "open" /\ Is(a.conn, "aborted", c.work, c.durable)
         \/ ~a.ok /\ (Backend = "db2" \/ c.tx # "open") /\ Is(a.conn, c.tx, c.work, c.durable)
         \/ ~a.ok /\ Is(a.conn, "lost", {}, c.durable)
  <1>1. CASE a \in PrepareAnswers(c)
    BY <1>1, PrepareOutcome
  <1>2. CASE a \notin PrepareAnswers(c)
    <2>1. Backend = "db2" /\ a = Answer(FALSE, c)
      BY <1>2 DEF DescribeAnswers, When
    <2>. QED
      BY <2>1, AnswerFields DEF Is
  <1>. QED
    BY <1>1, <1>2

(* VACUUM changes nothing, or the connection is lost.                      *)
LEMMA VacuumOutcome ==
  ASSUME NEW S, NEW c \in Connections(S), NEW v \in VacuumAnswers(c)
  PROVE  /\ v.ok \in BOOLEAN /\ v.conn \in Connections(S)
         /\ v.conn = c \/ Is(v.conn, "lost", {}, c.durable)
  <1>1. CASE v \in DroppedAnswers(c)
    BY <1>1, DroppedOutcome, DroppedType
  <1>2. CASE v \notin DroppedAnswers(c)
    <2>1. v = Answer(TRUE, c) \/ v = Answer(FALSE, c)
      BY <1>2 DEF VacuumAnswers, When
    <2>. QED
      BY <2>1, AnswerFields, AnswerType
  <1>. QED
    BY <1>1, <1>2

(* refresh_statistics() on PostgreSQL: the transaction is committed, and a *)
(* new one opened whatever VACUUM answered; a COMMIT that failed is not    *)
(* followed by anything.                                                   *)
LEMMA PsqlRefreshOutcome ==
  ASSUME Backend = "psql", NEW S, NEW c \in Connections(S), Sound(c), NEW n,
         NEW a \in RefreshStatisticsAnswers(c, n)
  PROVE  /\ a.ok \in BOOLEAN /\ a.conn \in Connections(S)
         /\ a.conn.work = {}
         /\ a.conn.durable = c.durable \/ a.conn.durable = c.durable \cup c.work
         /\ a.conn.tx \in {"open", "lost"} \/ (CommitMayFail /\ a.conn.tx = "none")
         /\ c.tx = "lost" => a.conn.tx = "lost"
  <1>1. PICK b \in PsqlCommitCommand(c) :
          a \in IF b.ok THEN UNION { Reopened(v) : v \in VacuumAnswers(b.conn) } ELSE {b}
    BY DEF RefreshStatisticsAnswers
  <1>2. /\ b.ok \in BOOLEAN /\ b.conn \in Connections(S) /\ b.conn.work = {}
        /\ b.conn.durable = c.durable \/ b.conn.durable = c.durable \cup c.work
        /\ b.ok \/ b.conn.tx = "lost" \/ (CommitMayFail /\ b.conn.tx = "none")
        /\ c.tx = "lost" => ~b.ok /\ b.conn.tx = "lost"
    BY PsqlCommitOutcome, PsqlCommitType DEF Is
  <1>3. CASE ~b.ok
    BY <1>1, <1>2, <1>3
  <1>4. CASE b.ok
    <2>1. PICK v \in VacuumAnswers(b.conn) : a \in Reopened(v)
      BY <1>1, <1>4
    <2>2. /\ v.ok \in BOOLEAN /\ v.conn \in Connections(S)
          /\ v.conn.work = {} /\ v.conn.durable = b.conn.durable
      BY <1>2, VacuumOutcome DEF Is
    <2>3. PICK d \in PsqlBeginCommand(v.conn) : a = Answer(v.ok /\ d.ok, d.conn)
      BY <2>1 DEF Reopened
    <2>4. d.ok \in BOOLEAN /\ d.conn \in Connections(S)
      BY <2>2, <2>3, BeginType
    <2>5. d.conn.work = {} /\ d.conn.durable = b.conn.durable /\ d.conn.tx \in {"open", "lost"}
      BY <2>2, <2>3, BeginOutcome DEF Is
    <2>6. (v.ok /\ d.ok) \in BOOLEAN
      OBVIOUS
    <2>7. a.ok \in BOOLEAN /\ a.conn = d.conn
      BY <2>3, <2>4, <2>6 DEF Answer
    <2>. QED
      BY <1>2, <1>4, <2>4, <2>5, <2>7
  <1>. QED
    BY <1>2, <1>3, <1>4
=============================================================================
