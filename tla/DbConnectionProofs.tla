------------------------- MODULE DbConnectionProofs -------------------------
(***************************************************************************)
(* Proofs about DbConnection, for every number of calls and both backends; *)
(* about ErrorStatus, for every SQLSTATE; and about Conversions: ValueText *)
(* for values, and TextTools for texts, of every length.                   *)
(***************************************************************************)
EXTENDS DbConnection, DbOpsProofs, Conversions, Integers, Sequences, SequenceTheorems, WellFoundedInduction, TLAPS

(* On PostgreSQL a refused COMMIT leaves the connection in autocommit mode *)
(* (commit() sends BEGIN only after a success); on Db2 exec() does not     *)
(* look at the status of its COMMIT.  Each excludes some of the claims.    *)
PsqlCommits == Backend = "psql" => ~CommitMayFail
Db2Commits == Backend = "db2" => ~CommitMayFail

(* Only a connected object has handles and a session.                      *)
DownIsClean == ~up => conn.tx = "lost" /\ held = NoHandles

(* Every effect is that of a statement that was run.                       *)
EffectsRan == conn.work \subseteq 0..stmts /\ conn.durable \subseteq 0..stmts

(* Nothing since the last transaction boundary is committed yet.           *)
SinceNotDurable == conn.tx # "lost" => since \cap conn.durable = {}

(* An environment the object holds is that of its connection; the driver   *)
(* keeps a connection's environment as long as the connection, and has     *)
(* only connections open that it has.                                      *)
HandlesSound ==
  /\ held.env # NoHandle => held.env = held.dbc
  /\ driver.dbc \subseteq driver.env
  /\ driver.open \subseteq driver.dbc
  /\ Backend = "db2" => (up <=> held.dbc # NoHandle)
  /\ Backend = "psql" => held = NoHandles

Inv ==
  /\ TypeOK
  /\ HandlesAccounted
  /\ HandlesSound
  /\ Sound(conn)
  /\ DownIsClean
  /\ EffectsRan
  /\ PsqlCommits => InsideTransaction /\ SinceNotDurable /\ RollbackUndoes
  /\ Db2Commits => ExecEffective

-----------------------------------------------------------------------------
(* A call that keeps the object connected touches no handle.               *)
HandlesTyped ==
  /\ up \in BOOLEAN
  /\ held \in [env : 0..connects, dbc : 0..connects]
  /\ driver \in [env : SUBSET (1..connects), dbc : SUBSET (1..connects), open : SUBSET (1..connects)]
  /\ replaced \in [env : SUBSET (1..connects), dbc : SUBSET (1..connects)]
  /\ refused \in [env : SUBSET (1..connects), dbc : SUBSET (1..connects)]

HandlesInv == HandlesTyped /\ HandlesAccounted /\ HandlesSound

LEMMA HandlesKept ==
  ASSUME Inv, up, UNCHANGED handles, connects' = connects
  PROVE  HandlesInv' /\ DownIsClean'
  BY DEF Inv, TypeOK, HandlesInv, HandlesTyped, HandlesAccounted, HandlesSound, DownIsClean, handles

(* What is recorded of a call.                                             *)
LEMMA CallFields ==
  ASSUME NEW op, NEW ok \in BOOLEAN, NEW S
  PROVE  Call(op, ok, S).op = op /\ Call(op, ok, S).ok = ok /\ Call(op, ok, S).stmts = S
  BY DEF Call

(* A new statement is not among those that ran.                            *)
LEMMA NewStatement ==
  ASSUME Inv, stmts < MaxStmts, stmts' = stmts + 1
  PROVE  /\ stmts' \in 0..MaxStmts /\ stmts' \in 1..MaxStmts
         /\ stmts' \notin conn.durable /\ stmts' \notin conn.work
         /\ \A W \in {conn.work, conn.durable, conn.durable \cup conn.work} :
              W \subseteq 0..stmts' /\ W \cup {stmts'} \subseteq 0..stmts'
  BY DbConnectionAssumption DEF Inv, TypeOK, EffectsRan

(* The object before its first connect().                                  *)
LEMMA InitInv == Init => Inv
  <1>. SUFFICES ASSUME Init PROVE Inv
    OBVIOUS
  <1>1. conn.tx = "lost" /\ conn.work = {} /\ conn.durable = {}
        /\ conn \in Connections(0..MaxStmts)
    BY DEF Init, Connected, Connections, TxStates
  <1>2. last.op = "none"
    BY CallFields DEF Init
  <1>3. HandlesTyped
    <2>0. up = FALSE /\ connects = 0
      BY DEF Init
    <2>1. up \in BOOLEAN
      BY <2>0
    <2>5. 0 \in 0..0
      OBVIOUS
    <2>2. held \in [env : 0..connects, dbc : 0..connects]
      BY <2>0, <2>5 DEF Init, NoHandles, NoHandle
    <2>3. driver \in [env : SUBSET (1..connects), dbc : SUBSET (1..connects), open : SUBSET (1..connects)]
      BY DEF Init
    <2>4. replaced \in [env : SUBSET (1..connects), dbc : SUBSET (1..connects)] /\ refused = replaced
      BY DEF Init, NoneOfEither
    <2>. QED
      BY <2>1, <2>2, <2>3, <2>4 DEF HandlesTyped
  <1>4. TypeOK
    <2>1. /\ stmts = 0 /\ connects = 0 /\ ends = 0 /\ since = {}
      BY DEF Init
    <2>3. stmts \in 0..MaxStmts /\ connects \in 0..MaxConnects /\ ends \in 0..MaxEnds
      BY <2>1, DbConnectionAssumption
    <2>5. since \in SUBSET (1..MaxStmts)
      BY <2>1
    <2>. QED
      BY <1>1, <1>3, <2>3, <2>5 DEF TypeOK, HandlesTyped
  <1>5. Sound(conn) /\ EffectsRan /\ InsideTransaction /\ SinceNotDurable
    BY <1>1, DbTxAssumption DEF Sound, EffectsRan, InsideTransaction, SinceNotDurable, Init
  <1>6. RollbackUndoes /\ ExecEffective
    BY <1>2 DEF RollbackUndoes, ExecEffective
  <1>7. HandlesAccounted /\ HandlesSound
    BY DEF Init, HandlesAccounted, HandlesSound, NoHandles, NoHandle
  <1>. QED
    BY <1>4, <1>5, <1>6, <1>7 DEF Init, Inv, DownIsClean

(* A statement of a generated query.                                       *)
LEMMA RunQueryInv == ASSUME Inv, RunQuery PROVE Inv'
  <1>1. PICK a \in StatementAnswers(conn, stmts') :
          /\ conn' = a.conn /\ since' = Succeeded(a.ok, stmts')
          /\ last' = Call("query", a.ok, {stmts'})
    BY DEF RunQuery
  <1>2. up /\ stmts < MaxStmts /\ stmts' = stmts + 1 /\ stmts \in 0..MaxStmts
        /\ conn \in Connections(0..MaxStmts) /\ since \subseteq 1..MaxStmts /\ Sound(conn)
        /\ UNCHANGED handles /\ connects' = connects /\ ends' = ends
    BY DEF RunQuery, Inv, TypeOK
  <1>3. a.ok \in BOOLEAN /\ conn' \in Connections(0..MaxStmts)
    BY <1>1, <1>2, NewStatement, StatementType
  <1>4. \/ a.ok /\ conn.tx = "open" /\ Is(conn', "open", conn.work \cup {stmts'}, conn.durable)
        \/ a.ok /\ conn.tx = "none" /\ Is(conn', "none", conn.work, conn.durable \cup {stmts'})
        \/ ~a.ok /\ Backend = "psql" /\ conn.tx = "open" /\ Is(conn', "aborted", conn.work, conn.durable)
        \/ ~a.ok /\ Is(conn', conn.tx, conn.work, conn.durable)
        \/ ~a.ok /\ Is(conn', "lost", {}, conn.durable)
    BY <1>1, <1>2, StatementOutcome
  <1>5. last'.op = "query"
    BY <1>1, <1>3, CallFields
  <1>6. TypeOK' /\ HandlesAccounted' /\ HandlesSound' /\ DownIsClean'
    BY <1>1, <1>2, <1>3, NewStatement, HandlesKept DEF Inv, TypeOK, HandlesInv, HandlesTyped, Succeeded
  <1>7. Sound(conn')
    BY <1>2, <1>4, DbTxAssumption DEF Sound, Is
  <1>8. EffectsRan'
    BY <1>2, <1>4, NewStatement DEF EffectsRan, Is
  <1>9. ASSUME PsqlCommits PROVE InsideTransaction' /\ SinceNotDurable'
    <2>1. InsideTransaction /\ SinceNotDurable
      BY <1>9 DEF Inv
    <2>2. conn.tx # "none"
      BY <1>2, <2>1 DEF InsideTransaction
    <2>3. InsideTransaction'
      BY <1>2, <1>4, <2>1, <2>2 DEF InsideTransaction, Is
    <2>4. conn'.durable = conn.durable /\ (conn'.tx # "lost" => conn.tx # "lost")
      BY <1>4, <2>2 DEF Is
    <2>5. since' \subseteq since \cup {stmts'}
      BY <1>1 DEF Succeeded
    <2>. QED
      BY <1>2, <2>1, <2>3, <2>4, <2>5, NewStatement DEF SinceNotDurable
  <1>10. RollbackUndoes' /\ ExecEffective'
    BY <1>5 DEF RollbackUndoes, ExecEffective
  <1>. QED
    BY <1>6, <1>7, <1>8, <1>9, <1>10 DEF Inv, PsqlCommits, Db2Commits

(* exec(), which on Db2 ends the unit of work.                             *)
LEMMA ExecInv == ASSUME Inv, Exec PROVE Inv'
  <1>1. PICK a \in ExecAnswers(conn, stmts') :
          /\ conn' = a.conn
          /\ since' = IF Backend = "db2" /\ a.ok THEN {} ELSE Succeeded(a.ok, stmts')
          /\ last' = Call("exec", a.ok, {stmts'})
    BY DEF Exec
  <1>2. up /\ stmts < MaxStmts /\ stmts' = stmts + 1 /\ stmts \in 0..MaxStmts
        /\ conn \in Connections(0..MaxStmts) /\ since \subseteq 1..MaxStmts /\ Sound(conn)
        /\ UNCHANGED handles /\ connects' = connects /\ ends' = ends
    BY DEF Exec, Inv, TypeOK
  <1>3. a.ok \in BOOLEAN /\ conn' \in Connections(0..MaxStmts)
    BY <1>1, <1>2, NewStatement, ExecType
  <1>5. last'.op = "exec" /\ last'.ok = a.ok /\ last'.stmts = {stmts'}
    BY <1>1, <1>3, CallFields
  <1>6. TypeOK' /\ HandlesAccounted' /\ HandlesSound' /\ DownIsClean'
    BY <1>1, <1>2, <1>3, NewStatement, HandlesKept DEF Inv, TypeOK, HandlesInv, HandlesTyped, Succeeded
  <1>7. RollbackUndoes'
    BY <1>5 DEF RollbackUndoes
  <1>8. CASE Backend = "psql"
    <2>1. \/ a.ok /\ conn.tx = "open" /\ Is(conn', "open", conn.work \cup {stmts'}, conn.durable)
          \/ a.ok /\ conn.tx = "none" /\ Is(conn', "none", conn.work, conn.durable \cup {stmts'})
          \/ ~a.ok /\ conn.tx = "open" /\ Is(conn', "aborted", conn.work, conn.durable)
          \/ ~a.ok /\ Is(conn', conn.tx, conn.work, conn.durable)
          \/ ~a.ok /\ Is(conn', "lost", {}, conn.durable)
      BY <1>1, <1>2, <1>8, StatementOutcome DEF ExecAnswers
    <2>2. Sound(conn')
      BY <1>2, <1>8, <2>1 DEF Sound, Is
    <2>3. EffectsRan'
      BY <1>2, <2>1, NewStatement DEF EffectsRan, Is
    <2>4. ExecEffective'
      BY <1>5, <2>1 DEF ExecEffective, Is
    <2>5. ASSUME PsqlCommits PROVE InsideTransaction' /\ SinceNotDurable'
      <3>1. InsideTransaction /\ SinceNotDurable
        BY <2>5 DEF Inv
      <3>2. conn.tx # "none"
        BY <1>2, <3>1 DEF InsideTransaction
      <3>3. InsideTransaction'
        BY <1>2, <2>1, <3>1, <3>2 DEF InsideTransaction, Is
      <3>4. conn'.durable = conn.durable /\ (conn'.tx # "lost" => conn.tx # "lost")
        BY <2>1, <3>2 DEF Is
      <3>5. since' \subseteq since \cup {stmts'}
        BY <1>1 DEF Succeeded
      <3>. QED
        BY <1>2, <3>1, <3>3, <3>4, <3>5, NewStatement DEF SinceNotDurable
    <2>. QED
      BY <1>6, <1>7, <2>2, <2>3, <2>4, <2>5 DEF Inv, PsqlCommits, Db2Commits
  <1>9. CASE Backend = "db2"
    <2>1. \/ ~a.ok /\ Is(conn', conn.tx, conn.work, conn.durable)
          \/ ~a.ok /\ conn.tx = "open" /\ Is(conn', "open", {}, conn.durable)
          \/ ~a.ok /\ Is(conn', "lost", {}, conn.durable)
          \/ a.ok /\ Is(conn', "open", {}, conn.durable \cup conn.work \cup {stmts'})
          \/ a.ok /\ CommitMayFail /\ Is(conn', "open", {}, conn.durable)
          \/ a.ok /\ Is(conn', "lost", {}, conn.durable)
          \/ a.ok /\ Is(conn', "lost", {}, conn.durable \cup conn.work \cup {stmts'})
      BY <1>1, <1>2, <1>9, NewStatement, Db2ExecOutcome DEF ExecAnswers
    <2>2. Sound(conn')
      BY <1>2, <1>9, <2>1 DEF Sound, Is
    <2>3. EffectsRan'
      BY <1>2, <2>1, NewStatement DEF EffectsRan, Is
    <2>4. Db2Commits => ExecEffective'
      BY <1>5, <1>9, <2>1 DEF ExecEffective, Is, Db2Commits
    <2>5. InsideTransaction'
      BY <1>9, <2>2 DEF InsideTransaction, Sound
    <2>6. SinceNotDurable'
      <3>1. CASE a.ok
        BY <1>1, <1>9, <3>1 DEF SinceNotDurable
      <3>2. CASE ~a.ok
        <4>1. since' = since /\ conn'.durable = conn.durable
          BY <1>1, <2>1, <3>2 DEF Succeeded, Is
        <4>2. conn.tx = "lost" => conn'.tx = "lost"
          BY <2>1, <3>2 DEF Is
        <4>. QED
          BY <1>9, <4>1, <4>2 DEF SinceNotDurable, Inv, PsqlCommits
      <3>. QED
        BY <1>3, <3>1, <3>2
    <2>. QED
      BY <1>6, <1>7, <2>2, <2>3, <2>4, <2>5, <2>6 DEF Inv, PsqlCommits, Db2Commits
  <1>. QED
    BY <1>8, <1>9, DbTxAssumption

-----------------------------------------------------------------------------
(* What the invariant asks of a call that ends a transaction: nothing is   *)
(* made up, autocommit is not left behind, a failed call commits nothing   *)
(* on a living connection, and a successful rollback() commits nothing.    *)
EndsWell(op, a) ==
  /\ a.ok \in BOOLEAN /\ a.conn \in Connections(0..MaxStmts) /\ Sound(a.conn)
  /\ a.conn.work \subseteq 0..stmts /\ a.conn.durable \subseteq 0..stmts
  /\ a.conn.tx \in {"open", "lost"} \/ (~PsqlCommits /\ a.conn.tx = "none")
  /\ conn.tx = "lost" => a.conn.tx = "lost"
  /\ ~a.ok /\ op # "refresh" => a.conn.tx = "lost" \/ a.conn.durable = conn.durable
  /\ op = "rollback" /\ a.ok => conn.tx # "lost" /\ a.conn.durable = conn.durable

(* A call that ends well keeps the invariant.                              *)
LEMMA EndInv ==
  ASSUME Inv, NEW op \in {"commit", "rollback", "refresh"}, NEW A, EndCall(op, A),
         \A a \in A : EndsWell(op, a)
  PROVE  Inv'
  <1>1. PICK a \in A : /\ conn' = a.conn
                       /\ since' = IF a.ok \/ op = "refresh" THEN {} ELSE since
                       /\ last' = Call(op, a.ok, since)
    BY DEF EndCall
  <1>2. EndsWell(op, a)
    BY <1>1
  <1>3. up /\ UNCHANGED handles /\ stmts' = stmts /\ connects' = connects
        /\ ends < MaxEnds /\ ends' = ends + 1
    BY DEF EndCall
  <1>4. last'.op = op /\ last'.ok = a.ok /\ last'.stmts = since
    BY <1>1, <1>2, CallFields DEF EndsWell
  <1>5. conn' \in Connections(0..MaxStmts) /\ Sound(conn') /\ EffectsRan'
    BY <1>1, <1>2, <1>3 DEF EndsWell, EffectsRan
  <1>6. TypeOK' /\ HandlesAccounted' /\ HandlesSound' /\ DownIsClean'
    <2>1. since' \in SUBSET (1..MaxStmts) /\ ends' \in 0..MaxEnds
      BY <1>1, <1>3, DbConnectionAssumption DEF Inv, TypeOK
    <2>. QED
      BY <1>3, <1>5, <2>1, HandlesKept DEF Inv, TypeOK, HandlesInv, HandlesTyped
  <1>7. ExecEffective'
    BY <1>4 DEF ExecEffective
  <1>8. ASSUME PsqlCommits PROVE InsideTransaction' /\ SinceNotDurable' /\ RollbackUndoes'
    <2>1. SinceNotDurable
      BY <1>8 DEF Inv
    <2>2. conn'.tx \in TxStates
      BY <1>5 DEF Connections
    <2>3. InsideTransaction'
      BY <1>1, <1>2, <1>8, <2>2 DEF InsideTransaction, EndsWell, TxStates
    <2>4. SinceNotDurable'
      BY <1>1, <1>2, <2>1 DEF SinceNotDurable, EndsWell
    <2>5. RollbackUndoes'
      BY <1>1, <1>2, <1>4, <2>1 DEF SinceNotDurable, RollbackUndoes, EndsWell
    <2>. QED
      BY <2>3, <2>4, <2>5
  <1>. QED
    BY <1>5, <1>6, <1>7, <1>8 DEF Inv, PsqlCommits, Db2Commits

(* What the proofs about the ending calls use of the invariant.            *)
LEMMA ConnKnown ==
  ASSUME Inv
  PROVE  /\ conn \in Connections(0..MaxStmts) /\ Sound(conn) /\ conn.tx \in TxStates
         /\ conn.work \subseteq 0..stmts /\ conn.durable \subseteq 0..stmts
  BY DEF Inv, TypeOK, EffectsRan, Connections

(* commit().                                                               *)
LEMMA CommitInv == ASSUME Inv, Commit PROVE Inv'
  <1>1. ASSUME NEW a \in CommitAnswers(conn) PROVE EndsWell("commit", a)
    <2>1. a.ok \in BOOLEAN /\ a.conn \in Connections(0..MaxStmts)
      BY ConnKnown, CommitType
    <2>2. \/ a.ok /\ conn.tx = "open" /\ Is(a.conn, "open", {}, conn.durable \cup conn.work)
          \/ a.ok /\ conn.tx \in {"aborted", "none"} /\ Is(a.conn, "open", {}, conn.durable)
          \/ /\ ~a.ok /\ CommitMayFail /\ conn.tx = "open"
             /\ Is(a.conn, IF Backend = "psql" THEN "none" ELSE "open", {}, conn.durable)
          \/ ~a.ok /\ Is(a.conn, "lost", {}, conn.durable)
          \/ ~a.ok /\ conn.tx = "open" /\ Is(a.conn, "lost", {}, conn.durable \cup conn.work)
      BY ConnKnown, CommitOutcome
    <2>3. Sound(a.conn)
      BY <2>2, DbTxAssumption DEF Sound, Is
    <2>4. a.conn.work \subseteq 0..stmts /\ a.conn.durable \subseteq 0..stmts
      BY <2>2, ConnKnown DEF Is
    <2>. QED
      BY <2>1, <2>2, <2>3, <2>4, DbTxAssumption DEF EndsWell, PsqlCommits, Is
  <1>. QED
    BY <1>1, EndInv DEF Commit

(* rollback().                                                             *)
LEMMA RollbackInv == ASSUME Inv, Rollback PROVE Inv'
  <1>1. ASSUME NEW a \in RollbackAnswers(conn) PROVE EndsWell("rollback", a)
    <2>1. a.ok \in BOOLEAN /\ a.conn \in Connections(0..MaxStmts)
      BY ConnKnown, RollbackType
    <2>2. \/ conn.tx # "lost" /\ Is(a.conn, "open", {}, conn.durable)
          \/ ~a.ok /\ Is(a.conn, "lost", {}, conn.durable)
      BY ConnKnown, RollbackOutcome
    <2>3. Sound(a.conn)
      BY <2>2 DEF Sound, Is
    <2>4. a.conn.work \subseteq 0..stmts /\ a.conn.durable \subseteq 0..stmts
      BY <2>2, ConnKnown DEF Is
    <2>. QED
      BY <2>1, <2>2, <2>3, <2>4 DEF EndsWell, Is
  <1>. QED
    BY <1>1, EndInv DEF Rollback

(* refresh_statistics().                                                   *)
LEMMA RefreshInv == ASSUME Inv, RefreshStatistics PROVE Inv'
  <1>0. 0 \in 0..MaxStmts /\ 0 \in 0..stmts
    BY DbConnectionAssumption DEF Inv, TypeOK
  <1>1. ASSUME NEW a \in RefreshStatisticsAnswers(conn, 0) PROVE EndsWell("refresh", a)
    <2>1. CASE Backend = "psql"
      <3>1. /\ a.ok \in BOOLEAN /\ a.conn \in Connections(0..MaxStmts)
            /\ a.conn.work = {}
            /\ a.conn.durable = conn.durable \/ a.conn.durable = conn.durable \cup conn.work
            /\ a.conn.tx \in {"open", "lost"} \/ (CommitMayFail /\ a.conn.tx = "none")
        BY <2>1, ConnKnown, PsqlRefreshOutcome
      <3>2. conn.tx = "lost" => a.conn.tx = "lost"
        BY <2>1, ConnKnown, PsqlRefreshOutcome
      <3>. QED
        BY <2>1, <3>1, <3>2, ConnKnown DEF EndsWell, PsqlCommits, Sound
    <2>2. CASE Backend = "db2"
      <3>1. a \in Db2ExecAnswers(conn, 0)
        BY <2>2 DEF RefreshStatisticsAnswers
      <3>2. a.ok \in BOOLEAN /\ a.conn \in Connections(0..MaxStmts)
        BY <1>0, <3>1, ConnKnown, Db2ExecType
      <3>3. \/ ~a.ok /\ Is(a.conn, conn.tx, conn.work, conn.durable)
            \/ ~a.ok /\ conn.tx = "open" /\ Is(a.conn, "open", {}, conn.durable)
            \/ ~a.ok /\ Is(a.conn, "lost", {}, conn.durable)
            \/ a.ok /\ conn.tx = "open" /\ Is(a.conn, "open", {}, conn.durable \cup conn.work \cup {0})
            \/ a.ok /\ conn.tx = "open" /\ Is(a.conn, "open", {}, conn.durable)
            \/ a.ok /\ conn.tx = "open" /\ Is(a.conn, "lost", {}, conn.durable)
            \/ a.ok /\ conn.tx = "open" /\ Is(a.conn, "lost", {}, conn.durable \cup conn.work \cup {0})
        BY <1>0, <2>2, <3>1, ConnKnown, Db2ExecOutcome
      <3>4. Sound(a.conn) /\ a.conn.tx \in {"open", "lost"}
        BY <2>2, <3>3, ConnKnown DEF Sound, Is
      <3>5. a.conn.work \subseteq 0..stmts /\ a.conn.durable \subseteq 0..stmts
        BY <1>0, <3>3, ConnKnown DEF Is
      <3>6. conn.tx = "lost" => a.conn.tx = "lost"
        BY <3>3 DEF Is
      <3>. QED
        BY <3>2, <3>4, <3>5, <3>6 DEF EndsWell
    <2>. QED
      BY <2>1, <2>2, DbTxAssumption
  <1>. QED
    BY <1>1, EndInv DEF RefreshStatistics

(* get_sql_metadata().                                                     *)
LEMMA DescribeInv == ASSUME Inv, GetSqlMetadata PROVE Inv'
  <1>1. PICK a \in DescribeAnswers(conn) : conn' = a.conn /\ last' = Call("describe", a.ok, {})
    BY DEF GetSqlMetadata
  <1>2. up /\ UNCHANGED handles /\ stmts' = stmts /\ connects' = connects
        /\ ends < MaxEnds /\ ends' = ends + 1 /\ since' = since
    BY DEF GetSqlMetadata
  <1>3. a.ok \in BOOLEAN /\ conn' \in Connections(0..MaxStmts)
    BY <1>1, ConnKnown, DescribeType
  <1>4. \/ conn.tx = "open" /\ Backend = "psql" /\ Is(conn', "aborted", conn.work, conn.durable)
        \/ Is(conn', conn.tx, conn.work, conn.durable)
        \/ Is(conn', "lost", {}, conn.durable)
    BY <1>1, ConnKnown, DescribeOutcome
  <1>5. last'.op = "describe"
    BY <1>1, <1>3, CallFields
  <1>6. TypeOK' /\ HandlesAccounted' /\ HandlesSound' /\ DownIsClean'
    <2>1. ends' \in 0..MaxEnds
      BY <1>2, DbConnectionAssumption DEF Inv, TypeOK
    <2>. QED
      BY <1>2, <1>3, <2>1, HandlesKept DEF Inv, TypeOK, HandlesInv, HandlesTyped
  <1>7. Sound(conn') /\ EffectsRan'
    BY <1>2, <1>4, ConnKnown DEF Sound, EffectsRan, Is
  <1>8. ExecEffective' /\ RollbackUndoes'
    BY <1>5 DEF ExecEffective, RollbackUndoes
  <1>9. ASSUME PsqlCommits PROVE InsideTransaction' /\ SinceNotDurable'
    BY <1>2, <1>4, <1>9 DEF Inv, InsideTransaction, SinceNotDurable, Is
  <1>. QED
    BY <1>6, <1>7, <1>8, <1>9 DEF Inv, PsqlCommits, Db2Commits

-----------------------------------------------------------------------------
(* The driver's records of handles, and what is allocated and freed.       *)
HandleSets(n) == [env : SUBSET (1..n), dbc : SUBSET (1..n)]
DriverStates(n) == [env : SUBSET (1..n), dbc : SUBSET (1..n), open : SUBSET (1..n)]

LEMMA HandleSetsGrow ==
  ASSUME NEW m \in Nat, NEW n \in Nat, m <= n
  PROVE  1..m \subseteq 1..n /\ HandleSets(m) \subseteq HandleSets(n)
         /\ DriverStates(m) \subseteq DriverStates(n)
  <1>1. 1..m \subseteq 1..n
    OBVIOUS
  <1>. QED
    BY <1>1 DEF HandleSets, DriverStates

LEMMA AddedNoted ==
  ASSUME NEW n \in Nat, NEW d \in HandleSets(n), NEW envs, NEW dbcs
  PROVE  /\ envs \subseteq 0..n /\ dbcs \subseteq 0..n => Added(d, envs, dbcs) \in HandleSets(n)
         /\ Added(d, envs, dbcs).env = d.env \cup (envs \ {0})
         /\ Added(d, envs, dbcs).dbc = d.dbc \cup (dbcs \ {0})
  <1>1. envs \subseteq 0..n /\ dbcs \subseteq 0..n => envs \ {0} \subseteq 1..n /\ dbcs \ {0} \subseteq 1..n
    OBVIOUS
  <1>. QED
    BY <1>1 DEF HandleSets, Added, NoHandle

LEMMA AddedAllocated ==
  ASSUME NEW n \in Nat, NEW d \in DriverStates(n), NEW envs, NEW dbcs
  PROVE  /\ envs \subseteq 0..n /\ dbcs \subseteq 0..n => Added(d, envs, dbcs) \in DriverStates(n)
         /\ Added(d, envs, dbcs).env = d.env \cup (envs \ {0})
         /\ Added(d, envs, dbcs).dbc = d.dbc \cup (dbcs \ {0})
         /\ Added(d, envs, dbcs).open = d.open
  <1>1. envs \subseteq 0..n /\ dbcs \subseteq 0..n => envs \ {0} \subseteq 1..n /\ dbcs \ {0} \subseteq 1..n
    OBVIOUS
  <1>. QED
    BY <1>1 DEF DriverStates, Added, NoHandle

FreedAs(d, h, f) ==
  /\ f.open = d.open
  /\ f.dbc = IF h.dbc \in d.open THEN d.dbc ELSE d.dbc \ {h.dbc}
  /\ f.env = IF h.env \in f.dbc THEN d.env ELSE d.env \ {h.env}

LEMMA FreedFields ==
  ASSUME NEW n \in Nat, NEW d \in DriverStates(n), NEW h
  PROVE  Freed(d, h) \in DriverStates(n) /\ FreedAs(d, h, Freed(d, h))
  <1>. DEFINE c == FreedDbc(d, h.dbc)
  <1>1. /\ c \in DriverStates(n) /\ c.open = d.open /\ c.env = d.env
        /\ c.dbc = IF h.dbc \in d.open THEN d.dbc ELSE d.dbc \ {h.dbc}
    BY DEF FreedDbc, DriverStates
  <1>2. Freed(d, h) = FreedEnv(c, h.env)
    BY DEF Freed
  <1>. HIDE DEF c
  <1>3. /\ FreedEnv(c, h.env) \in DriverStates(n) /\ FreedEnv(c, h.env).open = c.open
        /\ FreedEnv(c, h.env).dbc = c.dbc
        /\ FreedEnv(c, h.env).env = IF h.env \in c.dbc THEN c.env ELSE c.env \ {h.env}
    BY <1>1 DEF FreedEnv, DriverStates
  <1>. QED
    BY <1>1, <1>2, <1>3 DEF FreedAs

(* connect() of db_db2: the handles of this connect() are new ones; those  *)
(* it writes over are noted as replaced, whatever step fails.              *)
LEMMA Db2ConnectHandles ==
  ASSUME Inv, Db2Connect, connects' = connects + 1
  PROVE  HandlesInv' /\ (~up' => held' = NoHandles)
  <1>. DEFINE R == Added(replaced, {held.env} \ {held'.env}, {held.dbc} \ {held'.dbc})
  <1>. PICK n : n = connects'
    OBVIOUS
  <1>0. connects \in Nat /\ n \in Nat /\ connects < n /\ n # 0 /\ connects <= n
        /\ n \in 1..n /\ n \notin 0..connects /\ n \notin 1..connects /\ 0 \in 0..n /\ n \in 0..n
    BY DbConnectionAssumption DEF Inv, TypeOK
  <1>01. n \in Nat /\ {} \subseteq 0..n /\ {n} \subseteq 0..n /\ n # 0
    BY <1>0
  <1>1. PICK step \in Db2Steps : held' = ConnectHolds(step, n) /\ driver' = ConnectLeaves(step, n)
    BY DEF Db2Connect
  <1>2. up' = (held'.dbc # NoHandle) /\ Backend = "db2" /\ replaced' = R /\ refused' = refused
    BY DEF Db2Connect
  <1>3. held \in [env : 0..connects, dbc : 0..connects]
        /\ driver \in DriverStates(connects) /\ replaced \in HandleSets(connects)
        /\ refused \in HandleSets(connects)
    BY DEF Inv, TypeOK, DriverStates, HandleSets
  <1>4. /\ driver \in DriverStates(n) /\ replaced \in HandleSets(n) /\ refused \in HandleSets(n)
        /\ held \in [env : 0..n, dbc : 0..n]
    BY <1>0, <1>3, HandleSetsGrow
  <1>5. /\ n \notin driver.env /\ n \notin driver.dbc /\ n \notin driver.open
        /\ 0 \notin driver.env /\ 0 \notin driver.dbc
    BY <1>0, <1>3 DEF DriverStates
  <1>. DEFINE Outcome(e, d, denv, ddbc, dopen) ==
                /\ held' = [env |-> e, dbc |-> d] /\ driver' \in DriverStates(n)
                /\ driver'.env = denv /\ driver'.dbc = ddbc /\ driver'.open = dopen
  <1>6. \/ Outcome(0, held.dbc, driver.env, driver.dbc, driver.open)
        \/ Outcome(0, 0, driver.env, driver.dbc, driver.open)
        \/ Outcome(n, n, driver.env \cup {n}, driver.dbc \cup {n}, driver.open)
        \/ Outcome(n, n, driver.env \cup {n}, driver.dbc \cup {n}, driver.open \cup {n})
    <2>1. CASE step = "env"
      <3>1. held' = [held EXCEPT !.env = 0] /\ driver' = driver
        BY <1>1, <2>1 DEF ConnectHolds, ConnectLeaves, NoHandle
      <3>. QED
        BY <1>3, <1>4, <3>1
    <2>2. CASE step = "dbc"
      <3>. DEFINE d == Added(driver, {n}, {})
                  h == [env |-> n, dbc |-> 0]
      <3>1. held' = NoHandles /\ driver' = Freed(d, h)
        BY <1>1, <2>2 DEF ConnectHolds, ConnectLeaves, NoHandle
      <3>2. d \in DriverStates(n) /\ d.env = driver.env \cup {n} /\ d.dbc = driver.dbc /\ d.open = driver.open
        <4>1. {n} \ {0} = {n} /\ {} \ {0} = {} /\ {n} \in SUBSET (1..n)
          BY <1>0
        <4>2. d = [driver EXCEPT !.env = @ \cup {n}, !.dbc = @ \cup {}]
          BY <4>1 DEF Added, NoHandle
        <4>3. driver.dbc \cup {} = driver.dbc /\ driver.env \cup {n} \in SUBSET (1..n)
          BY <1>4, <4>1 DEF DriverStates
        <4>4. d = [driver EXCEPT !.env = driver.env \cup {n}, !.dbc = driver.dbc]
          BY <4>2, <4>3
        <4>. HIDE DEF d
        <4>. QED
          BY <1>4, <4>3, <4>4 DEF DriverStates
      <3>3. h \in [env : 0..n, dbc : 0..n] /\ h.env = n /\ h.dbc = 0
        BY <1>0
      <3>. HIDE DEF d, h
      <3>4. Freed(d, h) \in DriverStates(n) /\ FreedAs(d, h, Freed(d, h))
        BY <1>01, <3>2, <3>3, FreedFields
      <3>5. driver'.dbc = driver.dbc
        BY <1>5, <3>1, <3>2, <3>3, <3>4 DEF FreedAs
      <3>6. driver'.env = driver.env
        BY <1>5, <3>1, <3>2, <3>3, <3>4, <3>5 DEF FreedAs
      <3>. QED
        BY <3>1, <3>2, <3>4, <3>5, <3>6 DEF FreedAs, NoHandles, NoHandle
    <2>3. CASE step = "open"
      <3>. DEFINE d == Added(driver, {n}, {n})
                  h == [env |-> n, dbc |-> n]
      <3>1. held' = NoHandles /\ driver' = Freed(d, h)
        BY <1>1, <2>3 DEF ConnectHolds, ConnectLeaves
      <3>2. /\ d \in DriverStates(n) /\ d.env = driver.env \cup {n} /\ d.dbc = driver.dbc \cup {n}
            /\ d.open = driver.open
        BY <1>01, <1>4, <1>5, AddedAllocated
      <3>3. h \in [env : 0..n, dbc : 0..n] /\ h.env = n /\ h.dbc = n
        BY <1>0
      <3>. HIDE DEF d, h
      <3>4. Freed(d, h) \in DriverStates(n) /\ FreedAs(d, h, Freed(d, h))
        BY <1>01, <3>2, <3>3, FreedFields
      <3>5. driver'.dbc = driver.dbc
        BY <1>5, <3>1, <3>2, <3>3, <3>4 DEF FreedAs
      <3>6. driver'.env = driver.env
        BY <1>5, <3>1, <3>2, <3>3, <3>4, <3>5 DEF FreedAs
      <3>. QED
        BY <3>1, <3>2, <3>4, <3>5, <3>6 DEF FreedAs, NoHandles, NoHandle
    <2>4. CASE step \in {"attr", "ok"}
      <3>. DEFINE d == Added(driver, {n}, {n})
      <3>2. /\ d \in DriverStates(n) /\ d.env = driver.env \cup {n} /\ d.dbc = driver.dbc \cup {n}
            /\ d.open = driver.open
        BY <1>01, <1>4, <1>5, AddedAllocated
      <3>. HIDE DEF d
      <3>3. CASE step = "attr"
        <4>1. held' = [env |-> n, dbc |-> n] /\ driver' = d
          BY <1>1, <3>3 DEF ConnectHolds, ConnectLeaves, d
        <4>. QED
          BY <3>2, <4>1
      <3>4. CASE step = "ok"
        <4>1. held' = [env |-> n, dbc |-> n] /\ driver' = [d EXCEPT !.open = @ \cup {n}]
          BY <1>1, <3>4 DEF ConnectHolds, ConnectLeaves, d
        <4>2. /\ driver' \in DriverStates(n) /\ driver'.env = d.env /\ driver'.dbc = d.dbc
              /\ driver'.open = d.open \cup {n}
          BY <1>0, <3>2, <4>1 DEF DriverStates
        <4>. QED
          BY <3>2, <4>1, <4>2
      <3>. QED
        BY <2>4, <3>3, <3>4
    <2>. QED
      BY <2>1, <2>2, <2>3, <2>4 DEF Db2Steps
  <1>7. /\ {held.env} \ {0} \subseteq driver.env /\ {held.dbc} \ {0} \subseteq driver.dbc
        /\ driver.env \subseteq {held.env} \cup replaced.env \cup refused.env
        /\ driver.dbc \subseteq {held.dbc} \cup replaced.dbc \cup refused.dbc
        /\ driver.dbc \subseteq driver.env /\ driver.open \subseteq driver.dbc
    BY DEF Inv, HandlesAccounted, HandlesSound, NoHandle
  <1>8. held' \in [env : 0..n, dbc : 0..n] /\ driver' \in DriverStates(n)
    BY <1>0, <1>4, <1>6
  <1>9. /\ R \in HandleSets(n)
        /\ R.env = replaced.env \cup (({held.env} \ {held'.env}) \ {0})
        /\ R.dbc = replaced.dbc \cup (({held.dbc} \ {held'.dbc}) \ {0})
    <2>1. {held.env} \ {held'.env} \subseteq 0..n /\ {held.dbc} \ {held'.dbc} \subseteq 0..n
      BY <1>4
    <2>. QED
      BY <1>01, <1>4, <2>1, AddedNoted
  <1>. HIDE DEF R
  <1>10. HandlesTyped'
    BY <1>2, <1>4, <1>8, <1>9 DEF HandlesTyped, DriverStates, HandleSets
  <1>11. /\ held'.env # 0 => held'.env = held'.dbc
         /\ driver'.dbc \subseteq driver'.env /\ driver'.open \subseteq driver'.dbc
         /\ held'.dbc = 0 => held'.env = 0
         /\ {held'.env} \ {0} \subseteq driver'.env /\ {held'.dbc} \ {0} \subseteq driver'.dbc
    BY <1>6, <1>7
  <1>12. HandlesSound'
    BY <1>2, <1>11 DEF HandlesSound, NoHandle
  <1>13. /\ driver'.env \subseteq {held'.env} \cup R.env \cup refused.env
         /\ driver'.dbc \subseteq {held'.dbc} \cup R.dbc \cup refused.dbc
    <2>1. driver'.env \subseteq driver.env \cup {held'.env} /\ driver'.dbc \subseteq driver.dbc \cup {held'.dbc}
      BY <1>6
    <2>. QED
      BY <1>5, <1>7, <1>9, <2>1
  <1>14. HandlesAccounted'
    BY <1>2, <1>11, <1>13 DEF HandlesAccounted, NoHandle
  <1>15. ~up' => held' = NoHandles
    BY <1>2, <1>8, <1>11 DEF NoHandles, NoHandle
  <1>. QED
    BY <1>10, <1>12, <1>14, <1>15 DEF HandlesInv

(* disconnect() of db_db2: a refused SQLDisconnect leaves the handles with *)
(* the driver, noted as refused; else both are freed.                      *)
LEMMA Db2DisconnectHandles ==
  ASSUME Inv, Db2Disconnect, up' = FALSE, connects' = connects, replaced' = replaced
  PROVE  HandlesInv' /\ held' = NoHandles
  <1>. DEFINE n == connects
  <1>0. n \in Nat /\ held' = NoHandles /\ NoHandles \in [env : 0..n, dbc : 0..n]
    BY DbConnectionAssumption DEF Inv, TypeOK, Db2Disconnect, NoHandles, NoHandle
  <1>1. /\ held \in [env : 0..n, dbc : 0..n] /\ driver \in DriverStates(n)
        /\ replaced \in HandleSets(n) /\ refused \in HandleSets(n)
    BY DEF Inv, TypeOK, DriverStates, HandleSets
  <1>2. /\ driver.env \subseteq {held.env} \cup replaced.env \cup refused.env
        /\ driver.dbc \subseteq {held.dbc} \cup replaced.dbc \cup refused.dbc
        /\ driver.dbc \subseteq driver.env /\ driver.open \subseteq driver.dbc
        /\ held.env # 0 => held.env = held.dbc
    BY DEF Inv, HandlesAccounted, HandlesSound, NoHandle
  <1>3. 0 \notin driver.env /\ 0 \notin driver.dbc /\ 0 \notin driver.open
    BY <1>1 DEF DriverStates
  <1>4. /\ driver' \in DriverStates(n) /\ refused' \in HandleSets(n)
        /\ driver'.open \subseteq driver'.dbc /\ driver'.dbc \subseteq driver'.env
        /\ driver'.env \subseteq replaced.env \cup refused'.env
        /\ driver'.dbc \subseteq replaced.dbc \cup refused'.dbc
    <2>1. CASE driver' = Freed([driver EXCEPT !.open = @ \ {held.dbc}], held) /\ refused' = refused
      <3>. DEFINE d == [driver EXCEPT !.open = @ \ {held.dbc}]
      <3>1. /\ d \in DriverStates(n) /\ d.env = driver.env /\ d.dbc = driver.dbc
            /\ d.open = driver.open \ {held.dbc}
        BY <1>1 DEF DriverStates
      <3>. HIDE DEF d
      <3>2. Freed(d, held) \in DriverStates(n) /\ FreedAs(d, held, Freed(d, held))
        BY <1>0, <1>1, <3>1, FreedFields
      <3>3. driver'.dbc = driver.dbc \ {held.dbc} /\ driver' = Freed(d, held)
        BY <2>1, <3>1, <3>2 DEF d, FreedAs
      <3>4. held.env \notin driver'.dbc
        BY <1>2, <1>3, <3>3
      <3>5. driver'.env = driver.env \ {held.env}
        BY <3>1, <3>2, <3>3, <3>4 DEF FreedAs
      <3>6. driver'.open = driver.open \ {held.dbc}
        BY <3>1, <3>2, <3>3 DEF FreedAs
      <3>. QED
        BY <1>1, <1>2, <1>3, <2>1, <3>2, <3>3, <3>4, <3>5, <3>6
    <2>2. CASE /\ held.dbc \in driver.open /\ driver' = Freed(driver, held)
               /\ refused' = Added(refused, {held.env}, {held.dbc})
      <3>1. /\ Freed(driver, held) \in DriverStates(n) /\ Freed(driver, held).open = driver.open
            /\ Freed(driver, held).dbc = driver.dbc
            /\ Freed(driver, held).env = IF held.env \in driver.dbc THEN driver.env ELSE driver.env \ {held.env}
        BY <1>0, <1>1, <2>2, FreedFields DEF FreedAs
      <3>2. /\ refused' \in HandleSets(n)
            /\ refused'.env = refused.env \cup ({held.env} \ {0})
            /\ refused'.dbc = refused.dbc \cup ({held.dbc} \ {0})
        <4>1. {held.env} \subseteq 0..n /\ {held.dbc} \subseteq 0..n
          BY <1>1
        <4>. QED
          BY <1>0, <1>1, <2>2, <4>1, AddedNoted
      <3>3. driver'.env = driver.env /\ driver'.dbc = driver.dbc /\ driver'.open = driver.open
        BY <1>2, <1>3, <2>2, <3>1
      <3>. QED
        BY <1>2, <1>3, <2>2, <3>1, <3>2, <3>3
    <2>. QED
      BY <2>1, <2>2 DEF Db2Disconnect
  <1>5. held'.env = 0 /\ held'.dbc = 0
    BY <1>0 DEF NoHandles, NoHandle
  <1>6. HandlesTyped'
    <2>1. up' \in BOOLEAN
      OBVIOUS
    <2>. QED
      BY <1>0, <1>1, <1>4, <2>1 DEF HandlesTyped, DriverStates, HandleSets
  <1>7. HandlesSound'
    <2>1. ~up' /\ held'.dbc = NoHandle
      BY <1>5 DEF NoHandle
    <2>. QED
      BY <1>0, <1>4, <1>5, <2>1 DEF HandlesSound, NoHandle
  <1>8. HandlesAccounted'
    BY <1>4, <1>5 DEF HandlesAccounted, NoHandle
  <1>. QED
    BY <1>0, <1>6, <1>7, <1>8 DEF HandlesInv

-----------------------------------------------------------------------------
(* What connect() leaves behind, for either backend: a session of its own  *)
(* or none, or the one there was.                                          *)
Connects ==
  /\ conn' \in Connections(0..MaxStmts)
  /\ \/ Is(conn', "open", {}, conn.durable) /\ up' /\ since' = {}
     \/ Is(conn', "lost", {}, conn.durable) /\ since' = {}
     \/ conn' = conn /\ up' = up /\ since' = since
  /\ HandlesInv'
  /\ ~up' => held' = NoHandles
  /\ last'.op = "connect"

(* db_psql::connect(): no handle is touched.                               *)
LEMMA PsqlConnects == ASSUME Inv, PsqlConnect, connects' = connects + 1 PROVE Connects
  <1>0. connects \in Nat /\ connects + 1 \in Nat /\ connects <= connects + 1
    BY DbConnectionAssumption DEF Inv, TypeOK
  <1>1. /\ conn \in Connections(0..MaxStmts) /\ (~up => Is(conn, "lost", {}, conn.durable))
        /\ (~up => held = NoHandles) /\ held' = held /\ driver' = driver
        /\ replaced' = replaced /\ refused' = refused
    BY DEF Inv, TypeOK, DownIsClean, Sound, Is, PsqlConnect
  <1>2. up' \in BOOLEAN => HandlesInv'
    <2>1. /\ held \in [env : 0..connects', dbc : 0..connects'] /\ driver \in DriverStates(connects')
          /\ replaced \in HandleSets(connects') /\ refused \in HandleSets(connects')
      <3>1. /\ held \in [env : 0..connects, dbc : 0..connects] /\ driver \in DriverStates(connects)
            /\ replaced \in HandleSets(connects) /\ refused \in HandleSets(connects)
        BY DEF Inv, TypeOK, DriverStates, HandleSets
      <3>2. 0..connects \subseteq 0..(connects + 1)
        BY <1>0
      <3>. QED
        BY <1>0, <3>1, <3>2, HandleSetsGrow
    <2>2. HandlesAccounted' /\ HandlesSound'
      BY <1>1 DEF Inv, HandlesAccounted, HandlesSound, PsqlConnect
    <2>. QED
      BY <1>1, <2>1, <2>2 DEF HandlesInv, HandlesTyped, DriverStates, HandleSets
  <1>3. CASE conn' = conn /\ up' = up /\ since' = since /\ last' = Call("connect", FALSE, {})
    <2>1. last'.op = "connect"
      BY <1>3, CallFields
    <2>2. up' \in BOOLEAN
      BY <1>3 DEF Inv, TypeOK
    <2>. QED
      BY <1>1, <1>2, <1>3, <2>1, <2>2 DEF Connects
  <1>4. CASE /\ ~up /\ up' = TRUE /\ since' = {}
             /\ \E a \in PsqlBeginCommand([conn EXCEPT !.tx = "none"]) :
                  conn' = a.conn /\ last' = Call("connect", a.ok, {})
    <2>0. DEFINE c == [conn EXCEPT !.tx = "none"]
    <2>1. c \in Connections(0..MaxStmts) /\ Is(c, "none", {}, conn.durable)
      BY <1>1, <1>4 DEF Connections, TxStates, Is
    <2>. HIDE DEF c
    <2>2. PICK a \in PsqlBeginCommand(c) : conn' = a.conn /\ last' = Call("connect", a.ok, {})
      BY <1>4 DEF c
    <2>3. a.ok \in BOOLEAN /\ conn' \in Connections(0..MaxStmts)
      BY <2>1, <2>2, BeginType
    <2>4. Is(conn', "open", {}, conn.durable) \/ Is(conn', "lost", {}, conn.durable)
      BY <2>1, <2>2, BeginOutcome DEF Is
    <2>5. last'.op = "connect"
      BY <2>2, <2>3, CallFields
    <2>. QED
      BY <1>1, <1>2, <1>4, <2>3, <2>4, <2>5 DEF Connects
  <1>. QED
    BY <1>3, <1>4 DEF PsqlConnect

(* db_db2::connect(), over handles it holds or not.                        *)
LEMMA Db2Connects == ASSUME Inv, Db2Connect, connects' = connects + 1 PROVE Connects
  <1>1. HandlesInv' /\ (~up' => held' = NoHandles)
    BY Db2ConnectHandles
  <1>2. PICK step \in Db2Steps :
          /\ held' = ConnectHolds(step, connects')
          /\ conn' = ConnectReaches(step)
          /\ since' = IF step = "env" THEN since ELSE {}
          /\ last' = Call("connect", step = "ok", {})
    BY DEF Db2Connect
  <1>3. last'.op = "connect"
    <2>1. (step = "ok") \in BOOLEAN
      OBVIOUS
    <2>. QED
      BY <1>2, <2>1, CallFields
  <1>4. up' = (held'.dbc # NoHandle) /\ (up <=> held.dbc # NoHandle) /\ up \in BOOLEAN
    BY DEF Db2Connect, Inv, TypeOK, HandlesSound
  <1>5. CASE step = "env"
    <2>1. conn' = conn /\ since' = since /\ held' = [held EXCEPT !.env = NoHandle]
      BY <1>2, <1>5 DEF ConnectReaches, ConnectHolds
    <2>2. held'.dbc = held.dbc
      BY <2>1 DEF Inv, TypeOK
    <2>. QED
      BY <1>1, <1>3, <1>4, <2>1, <2>2, ConnKnown DEF Connects
  <1>6. CASE step \in {"dbc", "attr", "open"}
    <2>1. conn' = RolledBack(conn, "lost") /\ since' = {}
      BY <1>2, <1>6 DEF ConnectReaches
    <2>2. Is(conn', "lost", {}, conn.durable) /\ conn' \in Connections(0..MaxStmts)
      BY <2>1, ConnKnown, EndedFields, EndedType DEF TxStates
    <2>. QED
      BY <1>1, <1>3, <2>1, <2>2 DEF Connects
  <1>7. CASE step = "ok"
    <2>1. conn' = RolledBack(conn, "open") /\ since' = {} /\ held' = [env |-> connects', dbc |-> connects']
      BY <1>2, <1>7 DEF ConnectReaches, ConnectHolds
    <2>2. Is(conn', "open", {}, conn.durable) /\ conn' \in Connections(0..MaxStmts)
      BY <2>1, ConnKnown, EndedFields, EndedType DEF TxStates
    <2>3. held'.dbc # NoHandle
      <3>1. connects' # 0
        BY DbConnectionAssumption DEF Inv, TypeOK
      <3>. QED
        BY <2>1, <3>1 DEF NoHandle
    <2>. QED
      BY <1>1, <1>3, <1>4, <2>1, <2>2, <2>3 DEF Connects
  <1>. QED
    BY <1>5, <1>6, <1>7 DEF Db2Steps

(* connect() keeps the invariant.                                          *)
LEMMA ConnectInv == ASSUME Inv, Connect PROVE Inv'
  <1>1. connects < MaxConnects /\ connects' = connects + 1 /\ stmts' = stmts /\ ends' = ends
    BY DEF Connect
  <1>2. Connects
    BY <1>1, PsqlConnects, Db2Connects DEF Connect
  <1>3. TypeOK'
    <2>1. connects' \in 0..MaxConnects
      BY <1>1, DbConnectionAssumption DEF Inv, TypeOK
    <2>2. since' \in SUBSET (1..MaxStmts)
      BY <1>2 DEF Inv, TypeOK, Connects
    <2>. QED
      BY <1>1, <1>2, <2>1, <2>2 DEF Inv, TypeOK, Connects, HandlesInv, HandlesTyped
  <1>4. HandlesAccounted' /\ HandlesSound'
    BY <1>2 DEF Connects, HandlesInv
  <1>5. DownIsClean'
    BY <1>2 DEF Inv, Connects, DownIsClean, Is
  <1>6. Sound(conn') /\ EffectsRan'
    BY <1>1, <1>2, ConnKnown DEF Connects, Sound, EffectsRan, Is
  <1>7. RollbackUndoes' /\ ExecEffective'
    BY <1>2 DEF Connects, RollbackUndoes, ExecEffective
  <1>8. ASSUME PsqlCommits PROVE InsideTransaction' /\ SinceNotDurable'
    BY <1>2, <1>8 DEF Inv, Connects, InsideTransaction, SinceNotDurable, Is
  <1>. QED
    BY <1>3, <1>4, <1>5, <1>6, <1>7, <1>8 DEF Inv, PsqlCommits, Db2Commits

(* disconnect() frees what the object holds, or gives it up.               *)
LEMMA DisconnectInv == ASSUME Inv, Disconnect PROVE Inv'
  <1>1. /\ conn' = RolledBack(conn, "lost") /\ up' = FALSE /\ since' = {} /\ replaced' = replaced
        /\ stmts' = stmts /\ connects' = connects /\ ends' = ends
        /\ PsqlDisconnect \/ Db2Disconnect
    BY DEF Disconnect
  <1>2. Is(conn', "lost", {}, conn.durable) /\ conn' \in Connections(0..MaxStmts)
    BY <1>1, ConnKnown, EndedFields, EndedType DEF TxStates
  <1>3. last'.op = "disconnect"
    <2>1. (held.dbc \in driver.open) \in BOOLEAN
      OBVIOUS
    <2>2. \A ok \in BOOLEAN : Call("disconnect", ok, {}).op = "disconnect"
      BY DEF Call
    <2>3. last' = Call("disconnect", TRUE, {}) \/ last' = Call("disconnect", FALSE, {})
          \/ last' = Call("disconnect", held.dbc \in driver.open, {})
      BY <1>1 DEF PsqlDisconnect, Db2Disconnect
    <2>4. TRUE \in BOOLEAN /\ FALSE \in BOOLEAN
      OBVIOUS
    <2>. QED
      BY <2>1, <2>2, <2>3, <2>4
  <1>4. HandlesInv' /\ held' = NoHandles
    <2>1. CASE PsqlDisconnect
      BY <1>1, <2>1 DEF PsqlDisconnect, Inv, TypeOK, HandlesInv, HandlesTyped, HandlesAccounted, HandlesSound
    <2>2. CASE Db2Disconnect
      BY <1>1, <2>2, Db2DisconnectHandles
    <2>. QED
      BY <1>1, <2>1, <2>2
  <1>5. TypeOK'
    BY <1>1, <1>2, <1>4 DEF Inv, TypeOK, HandlesInv, HandlesTyped
  <1>6. HandlesAccounted' /\ HandlesSound' /\ DownIsClean'
    BY <1>1, <1>2, <1>4 DEF HandlesInv, DownIsClean, Is
  <1>7. Sound(conn') /\ EffectsRan'
    BY <1>1, <1>2, ConnKnown DEF Sound, EffectsRan, Is
  <1>8. InsideTransaction' /\ SinceNotDurable' /\ RollbackUndoes' /\ ExecEffective'
    BY <1>1, <1>2, <1>3 DEF InsideTransaction, SinceNotDurable, RollbackUndoes, ExecEffective, Is
  <1>. QED
    BY <1>5, <1>6, <1>7, <1>8 DEF Inv

(* Every step keeps the invariant.                                         *)
LEMMA NextInv == Inv /\ [Next]_vars => Inv'
  <1>. SUFFICES ASSUME Inv, [Next]_vars PROVE Inv'
    OBVIOUS
  <1>1. CASE UNCHANGED vars
    BY <1>1 DEF vars, Inv, TypeOK, HandlesAccounted, HandlesSound, DownIsClean, EffectsRan, InsideTransaction,
                SinceNotDurable, RollbackUndoes, ExecEffective
  <1>. QED
    BY <1>1, ConnectInv, DisconnectInv, RunQueryInv, ExecInv, CommitInv, RollbackInv, RefreshInv,
       DescribeInv DEF Next, Done

(* The invariant of the connection holds of every behaviour.               *)
LEMMA SpecInv == Spec => []Inv
  BY InitInv, NextInv, PTL DEF Spec

-----------------------------------------------------------------------------
(* Whatever fails, and whatever is called on whatever state, a connect()   *)
(* over a connected db_db2 included: the object holds no freed handle, and *)
(* the driver keeps no handle but the object's and those lost by a         *)
(* connect() that wrote over them or behind a refused SQLDisconnect.       *)
THEOREM HandlesAccountedThm == Spec => [](TypeOK /\ HandlesAccounted)
  <1>1. Inv => TypeOK /\ HandlesAccounted
    BY DEF Inv
  <1>. QED
    BY <1>1, SpecInv, PTL

(* No sequence of calls leaves a living connection outside a transaction,  *)
(* a failed VACUUM of refresh_statistics() included; on PostgreSQL as long *)
(* as the server does not refuse a COMMIT.                                 *)
THEOREM InsideTransactionThm ==
  ASSUME Backend = "psql" => ~CommitMayFail
  PROVE  Spec => []InsideTransaction
  <1>1. Inv => InsideTransaction
    BY DEF Inv, PsqlCommits
  <1>. QED
    BY <1>1, SpecInv, PTL

(* exec() that reports success had its effect, and rollback() that reports *)
(* success undid everything since the last boundary, on both backends, as  *)
(* long as the server does not refuse a COMMIT.                            *)
THEOREM AnswersHonestThm ==
  ASSUME ~CommitMayFail
  PROVE  Spec => []AnswersHonest
  <1>1. Inv => AnswersHonest
    BY DEF Inv, PsqlCommits, Db2Commits, AnswersHonest
  <1>. QED
    BY <1>1, SpecInv, PTL

-----------------------------------------------------------------------------
(* ErrorStatus, under the name E: what the calls of a connection and of    *)
(* its statements report when they fail.                                   *)
(* The rows of the table of codes.                                         *)
LEMMA CodeRows ==
  ASSUME NEW s, NEW x
  PROVE  x \in E!Found(E!ByCode, s) <=>
           \/ s = <<"00", "000">> /\ x = "success"
           \/ s = <<"23", "505">> /\ x = "duplicate_key"
           \/ s = <<"40", "001">> /\ x = "serialization_failure"
           \/ s = <<"40", "P01">> /\ x = "deadlock"
           \/ s = <<"40", "003">> /\ x = "transaction_error"
           \/ s = <<"22", "001">> /\ x = "data_truncated"
           \/ s = <<"53", "100">> /\ x = "disk_full"
           \/ s = <<"53", "200">> /\ x = "memory_error"
           \/ s = <<"53", "400">> /\ x = "quota_exceeded"
           \/ s = <<"57", "014">> /\ x = "timeout"
           \/ s = <<"28", "000">> /\ x = "access_denied"
           \/ s = <<"28", "P01">> /\ x = "access_denied"
  <1>1. PICK t : t = E!ByCode
    OBVIOUS
  <1>2. x \in E!Found(t, s) <=> \E i \in DOMAIN t : t[i][1] = s /\ t[i][2] = x
    BY DEF E!Found, E!Rows
  <1>3. DOMAIN t = 1..12
    BY <1>1 DEF E!ByCode
  <1>4. /\ t[1] = <<<<"00", "000">>, "success">>
        /\ t[2] = <<<<"23", "505">>, "duplicate_key">>
        /\ t[3] = <<<<"40", "001">>, "serialization_failure">>
        /\ t[4] = <<<<"40", "P01">>, "deadlock">>
        /\ t[5] = <<<<"40", "003">>, "transaction_error">>
        /\ t[6] = <<<<"22", "001">>, "data_truncated">>
        /\ t[7] = <<<<"53", "100">>, "disk_full">>
        /\ t[8] = <<<<"53", "200">>, "memory_error">>
        /\ t[9] = <<<<"53", "400">>, "quota_exceeded">>
        /\ t[10] = <<<<"57", "014">>, "timeout">>
        /\ t[11] = <<<<"28", "000">>, "access_denied">>
        /\ t[12] = <<<<"28", "P01">>, "access_denied">>
    BY <1>1 DEF E!ByCode
  <1>5. \A i \in 1..12 : i \in {1, 2, 3, 4, 5, 6, 7, 8, 9, 10, 11, 12}
    OBVIOUS
  <1>6. \A i \in {1, 2, 3, 4, 5, 6, 7, 8, 9, 10, 11, 12} : i \in 1..12
    OBVIOUS
  <1>. QED
    BY <1>1, <1>2, <1>3, <1>4, <1>5, <1>6, SMTT(20)

(* The rows of the table of classes.                                       *)
LEMMA ClassRows ==
  ASSUME NEW c, NEW x
  PROVE  x \in E!Found(E!ByClass, c) <=>
           \/ c = "01" /\ x = "success_with_info"
           \/ c = "02" /\ x = "no_data"
           \/ c = "08" /\ x = "connection_lost"
           \/ c = "0A" /\ x = "not_implemented"
           \/ c = "22" /\ x = "data_conversion_error"
           \/ c = "23" /\ x = "constraint_violation"
           \/ c = "24" /\ x = "invalid_cursor"
           \/ c \in {"25", "40"} /\ x = "transaction_error"
           \/ c = "28" /\ x = "access_denied"
           \/ c = "42" /\ x = "invalid_sql"
           \/ c \in {"53", "54"} /\ x = "resource_error"
           \/ c = "57" /\ x = "admin_error"
           \/ c = "58" /\ x = "os_error"
  <1>1. PICK t : t = E!ByClass
    OBVIOUS
  <1>2. x \in E!Found(t, c) <=> \E i \in DOMAIN t : t[i][1] = c /\ t[i][2] = x
    BY DEF E!Found, E!Rows
  <1>3. DOMAIN t = 1..15
    BY <1>1 DEF E!ByClass
  <1>4. /\ t[1] = <<"01", "success_with_info">> /\ t[2] = <<"02", "no_data">>
        /\ t[3] = <<"08", "connection_lost">> /\ t[4] = <<"0A", "not_implemented">>
        /\ t[5] = <<"22", "data_conversion_error">> /\ t[6] = <<"23", "constraint_violation">>
        /\ t[7] = <<"24", "invalid_cursor">> /\ t[8] = <<"25", "transaction_error">>
        /\ t[9] = <<"28", "access_denied">> /\ t[10] = <<"40", "transaction_error">>
        /\ t[11] = <<"42", "invalid_sql">> /\ t[12] = <<"53", "resource_error">>
        /\ t[13] = <<"54", "resource_error">> /\ t[14] = <<"57", "admin_error">>
        /\ t[15] = <<"58", "os_error">>
    BY <1>1 DEF E!ByClass
  <1>5. \A i \in 1..15 : i \in {1, 2, 3, 4, 5, 6, 7, 8, 9, 10, 11, 12, 13, 14, 15}
    OBVIOUS
  <1>6. \A i \in {1, 2, 3, 4, 5, 6, 7, 8, 9, 10, 11, 12, 13, 14, 15} : i \in 1..15
    OBVIOUS
  <1>. QED
    BY <1>1, <1>2, <1>3, <1>4, <1>5, <1>6

(* A status is read from the code, else from the class, else unknown.      *)
LEMMA StatusCases ==
  ASSUME NEW s, NEW x, x = E!sqlstate_to_db_sts(s)
  PROVE  \/ s = E!NoState /\ x = "error"
         \/ s # E!NoState /\ x \in E!Found(E!ByCode, s)
         \/ s # E!NoState /\ E!Found(E!ByCode, s) = {} /\ x \in E!Found(E!ByClass, s[1])
         \/ s # E!NoState /\ E!Found(E!ByCode, s) = {} /\ E!Found(E!ByClass, s[1]) = {} /\ x = "error"
  <1>1. ASSUME NEW U, U # {} PROVE E!The(U) \in U
    BY <1>1 DEF E!The
  <1>2. CASE s = E!NoState
    BY <1>2 DEF E!sqlstate_to_db_sts
  <1>3. CASE s # E!NoState /\ E!Found(E!ByCode, s) # {}
    <2>1. x = E!The(E!Found(E!ByCode, s))
      BY <1>3 DEF E!sqlstate_to_db_sts
    <2>. QED
      BY <1>1, <1>3, <2>1
  <1>4. CASE s # E!NoState /\ E!Found(E!ByCode, s) = {} /\ E!Found(E!ByClass, s[1]) # {}
    <2>1. x = E!The(E!Found(E!ByClass, s[1]))
      BY <1>4 DEF E!sqlstate_to_db_sts
    <2>. QED
      BY <1>1, <1>4, <2>1
  <1>5. CASE s # E!NoState /\ E!Found(E!ByCode, s) = {} /\ E!Found(E!ByClass, s[1]) = {}
    BY <1>5 DEF E!sqlstate_to_db_sts
  <1>. QED
    BY <1>2, <1>3, <1>4, <1>5

(* sqlstate_to_db_sts(), of every SQLSTATE there is: only 00000 and the    *)
(* class of warnings is a success, a transaction is worth running again    *)
(* for exactly 40001 and 40P01, a key is a duplicate for exactly 23505.    *)
THEOREM StatusOfState ==
  \A s : LET x == E!sqlstate_to_db_sts(s) IN
    /\ E!is_success(x) <=> s = <<"00", "000">> \/ s[1] = "01"
    /\ x \in {"serialization_failure", "deadlock"} <=> s \in {<<"40", "001">>, <<"40", "P01">>}
    /\ x = "duplicate_key" <=> s = <<"23", "505">>
  <1>. SUFFICES ASSUME NEW s, NEW x, x = E!sqlstate_to_db_sts(s)
                PROVE  /\ E!is_success(x) <=> s = <<"00", "000">> \/ s[1] = "01"
                       /\ x \in {"serialization_failure", "deadlock"} <=> s \in {<<"40", "001">>, <<"40", "P01">>}
                       /\ x = "duplicate_key" <=> s = <<"23", "505">>
    OBVIOUS
  <1>1. CASE s = E!NoState /\ x = "error"
    BY <1>1 DEF E!NoState, E!is_success
  <1>2. CASE s # E!NoState /\ x \in E!Found(E!ByCode, s)
    BY <1>2, CodeRows DEF E!is_success
  <1>3. CASE s # E!NoState /\ E!Found(E!ByCode, s) = {} /\ x \in E!Found(E!ByClass, s[1])
    <2>1. /\ s \notin {<<"00", "000">>, <<"40", "001">>, <<"40", "P01">>, <<"23", "505">>}
      BY <1>3, CodeRows
    <2>2. x = "success_with_info" <=> s[1] = "01"
      BY <1>3, ClassRows
    <2>3. x \notin {"success", "serialization_failure", "deadlock", "duplicate_key"}
      BY <1>3, ClassRows
    <2>. QED
      BY <2>1, <2>2, <2>3 DEF E!is_success
  <1>4. CASE /\ s # E!NoState /\ E!Found(E!ByCode, s) = {} /\ E!Found(E!ByClass, s[1]) = {} /\ x = "error"
    <2>1. /\ s \notin {<<"00", "000">>, <<"40", "001">>, <<"40", "P01">>, <<"23", "505">>}
      BY <1>4, CodeRows
    <2>2. s[1] # "01"
      BY <1>4, ClassRows
    <2>. QED
      BY <1>4, <2>1, <2>2 DEF E!is_success
  <1>. QED
    BY <1>1, <1>2, <1>3, <1>4, StatusCases

(* A failed call carries no state of success.                              *)
LEMMA ConditionsFail ==
  ASSUME NEW s \in E!Conditions
  PROVE  s # <<"00", "000">> /\ s[1] # "01"
  <1>1. s # <<"00", "000">> /\ s # <<"01", "999">>
    BY DEF E!Conditions
  <1>2. CASE \E r \in E!Rows(E!ByCode) : s = r[1]
    <2>1. PICK r \in E!Rows(E!ByCode) : s = r[1]
      BY <1>2
    <2>2. r[2] \in E!Found(E!ByCode, s)
      BY <2>1 DEF E!Found
    <2>3. PICK x : x = r[2]
      OBVIOUS
    <2>. QED
      BY <1>1, <2>2, <2>3, CodeRows
  <1>3. CASE \E r \in E!Rows(E!ByClass) : s = <<r[1], "999">>
    <2>1. PICK r \in E!Rows(E!ByClass) : s = <<r[1], "999">>
      BY <1>3
    <2>. QED
      BY <1>1, <2>1
  <1>4. CASE s \in {<<"25", "P02">>, <<"26", "000">>, <<"HY", "001">>, <<"07", "006">>}
    BY <1>4
  <1>. QED
    BY <1>2, <1>3, <1>4 DEF E!Conditions

(* The invariant: what is reported is the translation of a state that is   *)
(* no success.                                                             *)
ReportedStates == E!Conditions \cup {E!General, E!Sequence, E!NoState}
ErrorInv == err = E!None \/ \E s \in ReportedStates : err = E!to_db_error(s)

(* A report keeps it, whatever the site of the fault.                      *)
LEMMA ReportKeeps ==
  ASSUME NEW f, NEW s \in ReportedStates, E!Report(f, s)
  PROVE  ErrorInv'
  <1>1. err' = E!to_db_error(s)
    BY DEF E!Report
  <1>2. \E t \in ReportedStates : err' = E!to_db_error(t)
    BY <1>1
  <1>. QED
    BY <1>2 DEF ErrorInv, ReportedStates, E!None, E!to_db_error

(* odbc_error() reads the state of the call or none at all.                *)
LEMMA DiagnosedState ==
  ASSUME NEW s, NEW i
  PROVE  /\ E!Diagnosed(<<s>>, i) \in {s, E!General} /\ E!Diagnosed(<<s>>, 1) = s
         /\ E!Diagnosed(<<>>, i) = E!General
  <1>1. DOMAIN <<s>> = {1} /\ <<s>>[1] = s /\ DOMAIN <<>> = {}
    OBVIOUS
  <1>. QED
    BY <1>1 DEF E!Diagnosed

(* Every step keeps the invariant.                                         *)
LEMMA ErrorStep ==
  ASSUME ErrorInv, [E!Next]_(E!vars)
  PROVE  ErrorInv'
  <1>1. CASE UNCHANGED E!vars
    BY <1>1 DEF E!vars, ErrorInv
  <1>2. CASE E!Db2Call
    <2>1. PICK s \in E!Conditions : E!Report(E!Fault("call", s), E!Diagnosed(<<s>>, 1))
      BY <1>2 DEF E!Db2Call
    <2>2. E!Diagnosed(<<s>>, 1) \in ReportedStates
      BY DiagnosedState DEF ReportedStates
    <2>. QED
      BY <2>1, <2>2, ReportKeeps
  <1>3. CASE E!Db2Bind
    <2>1. PICK s \in E!Conditions, i \in 1..BoundColumns : E!Report(E!Fault("bind", s), E!Diagnosed(<<s>>, i))
      BY <1>3 DEF E!Db2Bind
    <2>2. E!Diagnosed(<<s>>, i) \in ReportedStates
      BY DiagnosedState DEF ReportedStates
    <2>. QED
      BY <2>1, <2>2, ReportKeeps
  <1>4. CASE E!Db2NotPrepared
    <2>1. E!Report(E!Fault("client", E!NoState), E!General)
      BY <1>4, DiagnosedState DEF E!Db2NotPrepared
    <2>. QED
      BY <2>1, ReportKeeps DEF ReportedStates
  <1>5. CASE E!Db2Layout
    <2>1. E!Report(E!Fault("client", E!NoState), E!Sequence)
      BY <1>5 DEF E!Db2Layout, E!Client
    <2>. QED
      BY <2>1, ReportKeeps DEF ReportedStates
  <1>6. CASE E!PsqlResult
    <2>1. PICK s \in E!Conditions : E!Report(E!Fault("call", s), s)
      BY <1>6 DEF E!PsqlResult
    <2>. QED
      BY <2>1, ReportKeeps DEF ReportedStates
  <1>7. CASE E!PsqlNoResult
    <2>1. E!Report(E!Fault("lost", E!NoState), E!NoState)
      BY <1>7 DEF E!PsqlNoResult
    <2>. QED
      BY <2>1, ReportKeeps DEF ReportedStates
  <1>8. CASE E!Handle
    BY <1>8 DEF E!Handle, ErrorInv
  <1>. QED
    BY <1>1, <1>2, <1>3, <1>4, <1>5, <1>6, <1>7, <1>8 DEF E!Next

(* Failures are failures, and those worth a retry are known as such.       *)
LEMMA ErrorTold ==
  ASSUME ErrorInv
  PROVE  E!FailureIsFailure /\ E!RetryKnown
  <1>. SUFFICES ASSUME err # E!None
                PROVE  E!FailureIsFailure /\ E!RetryKnown
    BY DEF E!FailureIsFailure, E!RetryKnown
  <1>1. PICK s \in ReportedStates : err = E!to_db_error(s)
    BY DEF ErrorInv
  <1>2. err.sts = E!sqlstate_to_db_sts(s) /\ err.state = s
    BY <1>1 DEF E!to_db_error
  <1>3. s # <<"00", "000">> /\ s[1] # "01"
    <2>1. CASE s \in E!Conditions
      BY <2>1, ConditionsFail
    <2>2. CASE s = <<"HY", "000">>
      BY <2>2
    <2>3. CASE s = <<"HY", "010">>
      BY <2>3
    <2>4. CASE s = <<"", "">>
      <3>1. s[1] = ""
        BY <2>4
      <3>2. <<"00", "000">>[1] = "00"
        OBVIOUS
      <3>. QED
        BY <3>1, <3>2
    <2>. QED
      BY <2>1, <2>2, <2>3, <2>4 DEF ReportedStates, E!General, E!Sequence, E!NoState
  <1>4. ~E!is_success(err.sts)
    BY <1>2, <1>3, StatusOfState
  <1>5. /\ err.sts \in {"serialization_failure", "deadlock"} <=> err.state \in {<<"40", "001">>, <<"40", "P01">>}
        /\ err.sts = "duplicate_key" <=> err.state = <<"23", "505">>
    BY <1>2, StatusOfState
  <1>. QED
    BY <1>4, <1>5 DEF E!FailureIsFailure, E!RetryKnown

(* Whatever fails, on either backend and however many columns are bound:   *)
(* the db_error says so, and says whether to try again.                    *)
THEOREM FailuresAreTold == E!Spec => []FailuresHonest
  <1>1. E!Init => ErrorInv
    BY DEF E!Init, ErrorInv
  <1>2. ErrorInv /\ [E!Next]_(E!vars) => ErrorInv'
    BY ErrorStep
  <1>3. ErrorInv => FailuresHonest
    BY ErrorTold DEF FailuresHonest
  <1>. QED
    BY <1>1, <1>2, <1>3, PTL DEF E!Spec

-----------------------------------------------------------------------------
(* Proofs about ValueText and TextTools, by way of Conversions: for every  *)
(* value, text and length.                                                 *)

(* A set of numbers has a least one.                                       *)
LEMMA LeastNumber ==
  ASSUME NEW S \in SUBSET Nat, S # {}
  PROVE  \E n \in S : \A m \in S : n <= m
  <1>1. PICK n \in S : \A m \in S : ~(<<m, n>> \in OpToRel(<, Nat))
    BY WFMin, NatLessThanWellFounded
  <1>2. \A m \in S : ~(m < n)
    BY <1>1 DEF OpToRel
  <1>. QED
    BY <1>2

(* A set of numbers with 0, and with the successor of each, is all of them.*)
LEMMA AllNumbers ==
  ASSUME NEW S \in SUBSET Nat, 0 \in S, \A n \in S : n + 1 \in S
  PROVE  S = Nat
  <1>. SUFFICES ASSUME Nat \ S # {} PROVE FALSE
    OBVIOUS
  <1>1. PICK n \in Nat \ S : \A m \in Nat \ S : n <= m
    <2>1. Nat \ S \in SUBSET Nat
      OBVIOUS
    <2>. QED
      BY <2>1, LeastNumber
  <1>2. n # 0 /\ n - 1 \in Nat /\ n - 1 \in S
    BY <1>1
  <1>. QED
    BY <1>1, <1>2

(* The bytes of a binary value, and the letters hex digits start from.     *)
Octet == 0..255
Letters == {V!Lower, V!Upper}

(* A digit written is a digit, and reads as the same.                      *)
LEMMA HexDigitRead ==
  ASSUME NEW d \in 0..15, NEW a \in Letters
  PROVE  /\ V!HexDigit(d, a) \in Nat /\ V!IsHex(V!HexDigit(d, a))
         /\ V!hex_val(V!HexDigit(d, a)) = d
  BY DEF Letters, V!Lower, V!Upper, V!HexDigit, V!IsHex, V!IsDigit, V!hex_val

(* A byte is its two digits.                                               *)
LEMMA OctetSplit ==
  ASSUME NEW v \in Octet
  PROVE  v \div 16 \in 0..15 /\ v % 16 \in 0..15 /\ 16 * (v \div 16) + (v % 16) = v
  <1>1. v \in Int /\ 0 <= v /\ v <= 255
    BY DEF Octet
  <1>2. v \div 16 \in Int /\ v % 16 \in 0..15
    BY <1>1
  <1>3. v = 16 * (v \div 16) + (v % 16)
    BY <1>1
  <1>4. v \div 16 \in 0..15
    BY <1>1, <1>2, <1>3
  <1>. QED
    BY <1>2, <1>3, <1>4

(* The digits of a binary value, in place.                                 *)
LEMMA HexOfBytes ==
  ASSUME NEW b \in Seq(Octet), NEW a \in Letters, NEW h, h = V!HexOf(b, a)
  PROVE  /\ h \in Seq(Nat) /\ Len(h) = 2 * Len(b)
         /\ \A i \in 1..(2 * Len(b)) : V!IsHex(h[i])
         /\ \A i \in 1..Len(b) : V!ByteAt(h, 2 * i - 1) = b[i]
  <1>. DEFINE n == Len(b)
              D(i) == IF i % 2 = 1 THEN b[(i + 1) \div 2] \div 16 ELSE b[i \div 2] % 16
  <1>1. n \in Nat /\ \A i \in 1..n : b[i] \in Octet
    OBVIOUS
  <1>. HIDE DEF n
  <1>2. h = [i \in 1..(2 * n) |-> V!HexDigit(D(i), a)]
    BY DEF V!HexOf, n
  <1>3. ASSUME NEW i \in 1..(2 * n) PROVE D(i) \in 0..15
    <2>1. CASE i % 2 = 1
      <3>1. (i + 1) \div 2 \in 1..n
        BY <1>1, <2>1
      <3>2. PICK v \in Octet : v = b[(i + 1) \div 2]
        BY <1>1, <3>1
      <3>. QED
        BY <2>1, <3>2, OctetSplit
    <2>2. CASE i % 2 # 1
      <3>1. i \div 2 \in 1..n
        BY <1>1, <2>2
      <3>2. PICK v \in Octet : v = b[i \div 2]
        BY <1>1, <3>1
      <3>. QED
        BY <2>2, <3>2, OctetSplit
    <2>. QED
      BY <2>1, <2>2
  <1>4. ASSUME NEW i \in 1..n
        PROVE  /\ 2 * i - 1 \in 1..(2 * n) /\ 2 * i \in 1..(2 * n)
               /\ D(2 * i - 1) = b[i] \div 16 /\ D(2 * i) = b[i] % 16
    <2>1. /\ 2 * i - 1 \in 1..(2 * n) /\ 2 * i \in 1..(2 * n) /\ (2 * i - 1) % 2 = 1 /\ (2 * i) % 2 = 0
          /\ ((2 * i - 1) + 1) \div 2 = i /\ (2 * i) \div 2 = i
      BY <1>1
    <2>. QED
      BY <2>1
  <1>. HIDE DEF D
  <1>5. \A i \in 1..(2 * n) : h[i] = V!HexDigit(D(i), a) /\ h[i] \in Nat /\ V!IsHex(h[i]) /\ V!hex_val(h[i]) = D(i)
    BY <1>2, <1>3, HexDigitRead
  <1>6. h \in Seq(Nat) /\ Len(h) = 2 * n
    <2>1. 2 * n \in Nat
      BY <1>1
    <2>2. h \in [1..(2 * n) -> Nat]
      BY <1>2, <1>5
    <2>. QED
      BY <2>1, <2>2
  <1>7. ASSUME NEW i \in 1..n PROVE V!ByteAt(h, 2 * i - 1) = b[i]
    <2>1. V!ByteAt(h, 2 * i - 1) = 16 * V!hex_val(h[2 * i - 1]) + V!hex_val(h[2 * i - 1 + 1])
      BY DEF V!ByteAt
    <2>2. 2 * i - 1 + 1 = 2 * i
      BY <1>1
    <2>3. V!hex_val(h[2 * i - 1]) = b[i] \div 16 /\ V!hex_val(h[2 * i]) = b[i] % 16
      BY <1>4, <1>5
    <2>4. PICK v \in Octet : v = b[i]
      BY <1>1
    <2>. QED
      BY <2>1, <2>2, <2>3, <2>4, OctetSplit
  <1>. QED
    BY <1>5, <1>6, <1>7 DEF n

(* What decode_bytea() makes of the digits behind the prefix.              *)
Stops(h, n) ==
  /\ \A i \in 1..(2 * n) : V!IsHex(h[i])
  /\ n = Len(h) \div 2 \/ ~V!IsHex(h[2 * n + 1]) \/ ~V!IsHex(h[2 * n + 2])
Pairs(h) == CHOOSE n \in 0..(Len(h) \div 2) : Stops(h, n)
DecodedHex(h, capacity) ==
  [i \in 1..(IF Pairs(h) < capacity THEN Pairs(h) ELSE capacity) |-> V!ByteAt(h, 2 * i - 1)]
Unprefixed(s) == IF Len(s) >= 2 /\ s[1] = 92 /\ s[2] \in {120, 88} THEN SubSeq(s, 3, Len(s)) ELSE s

(* decode_bytea() takes the prefix off and reads the digits.               *)
LEMMA DecodeSplit ==
  ASSUME NEW s, NEW capacity
  PROVE  V!decode_bytea(s, capacity) = DecodedHex(Unprefixed(s), capacity)
  BY DEF V!decode_bytea, DecodedHex, Unprefixed, Pairs, Stops

(* The digits of a binary value, as HexOfBytes gives them.                 *)
HexShown(b, h) ==
  /\ h \in Seq(Nat) /\ Len(h) = 2 * Len(b)
  /\ \A i \in 1..(2 * Len(b)) : V!IsHex(h[i])
  /\ \A i \in 1..Len(b) : V!ByteAt(h, 2 * i - 1) = b[i]

(* Either letters show the value.                                          *)
LEMMA HexShows ==
  ASSUME NEW b \in Seq(Octet), NEW a \in Letters
  PROVE  HexShown(b, V!HexOf(b, a))
  <1>1. PICK h : h = V!HexOf(b, a)
    OBVIOUS
  <1>2. /\ h \in Seq(Nat) /\ Len(h) = 2 * Len(b)
        /\ \A i \in 1..(2 * Len(b)) : V!IsHex(h[i])
        /\ \A i \in 1..Len(b) : V!ByteAt(h, 2 * i - 1) = b[i]
    BY <1>1, HexOfBytes
  <1>. QED
    BY <1>1, <1>2 DEF HexShown

(* Reading such digits stops at the end or at the capacity.                *)
LEMMA ShownIsRead ==
  ASSUME NEW b \in Seq(Octet), NEW h, HexShown(b, h), NEW capacity \in Nat
  PROVE  DecodedHex(h, capacity) = SubSeq(b, 1, IF Len(b) < capacity THEN Len(b) ELSE capacity)
  <1>2. Len(b) \in Nat
    OBVIOUS
  <1>3. /\ h \in Seq(Nat) /\ Len(h) = 2 * Len(b)
        /\ \A i \in 1..(2 * Len(b)) : V!IsHex(h[i])
        /\ \A i \in 1..Len(b) : V!ByteAt(h, 2 * i - 1) = b[i]
    BY DEF HexShown
  <1>7. Len(h) \div 2 = Len(b)
    BY <1>2, <1>3
  <1>9. Pairs(h) = Len(b)
    <2>1. Len(b) \in 0..(Len(h) \div 2) /\ Stops(h, Len(b))
      BY <1>2, <1>3, <1>7 DEF Stops
    <2>2. Pairs(h) \in 0..(Len(h) \div 2) /\ Stops(h, Pairs(h))
      BY <2>1 DEF Pairs
    <2>3. PICK n \in 0..(Len(h) \div 2) : n = Pairs(h) /\ Stops(h, n)
      BY <2>2
    <2>4. CASE n < Len(b)
      <3>1. 2 * n + 1 \in 1..(2 * Len(b)) /\ 2 * n + 2 \in 1..(2 * Len(b))
        BY <1>2, <1>7, <2>4
      <3>2. V!IsHex(h[2 * n + 1]) /\ V!IsHex(h[2 * n + 2])
        BY <1>3, <3>1
      <3>. QED
        BY <1>2, <1>7, <2>3, <2>4, <3>2 DEF Stops
    <2>. QED
      BY <1>2, <1>7, <2>3, <2>4
  <1>10. PICK m : m = IF Len(b) < capacity THEN Len(b) ELSE capacity
    OBVIOUS
  <1>11. m \in Nat /\ m <= Len(b)
    BY <1>2, <1>10
  <1>12. DecodedHex(h, capacity) = [i \in 1..m |-> V!ByteAt(h, 2 * i - 1)]
    BY <1>9, <1>10 DEF DecodedHex
  <1>13. \A i \in 1..m : V!ByteAt(h, 2 * i - 1) = b[i]
    BY <1>2, <1>3, <1>11
  <1>14. SubSeq(b, 1, m) = [i \in 1..m |-> b[i]]
    <2>1. SubSeq(b, 1, m) \in Seq(Octet) /\ Len(SubSeq(b, 1, m)) = m /\ \A i \in 1..m : SubSeq(b, 1, m)[i] = b[i]
      BY <1>2, <1>11
    <2>. QED
      BY <2>1
  <1>15. [i \in 1..m |-> V!ByteAt(h, 2 * i - 1)] = [i \in 1..m |-> b[i]]
    BY <1>13
  <1>. QED
    BY <1>10, <1>12, <1>14, <1>15

(* encode_bytea() and decode_bytea(), of any value and for any width.      *)
LEMMA ByteaRoundTrip ==
  ASSUME NEW b \in Seq(Octet), NEW capacity \in Nat
  PROVE  V!decode_bytea(V!encode_bytea(b), capacity)
           = SubSeq(b, 1, IF Len(b) < capacity THEN Len(b) ELSE capacity)
  <1>1. PICK h : h = V!HexOf(b, V!Lower)
    OBVIOUS
  <1>2. HexShown(b, h)
    <2>1. V!Lower \in Letters
      BY DEF Letters
    <2>. QED
      BY <1>1, <2>1, HexShows
  <1>3. h \in Seq(Nat)
    BY <1>2 DEF HexShown
  <1>4. PICK s : s = <<92, 120>> \o h
    OBVIOUS
  <1>5. s \in Seq(Nat) /\ Len(s) = 2 + Len(h) /\ s[1] = 92 /\ s[2] = 120 /\ \A i \in 1..Len(h) : s[i + 2] = h[i]
    BY <1>3, <1>4
  <1>6. SubSeq(s, 3, Len(s)) = h
    <2>1. Len(h) \in Nat
      BY <1>3
    <2>2. SubSeq(s, 3, Len(s)) = [i \in 1..Len(h) |-> s[i + 2]]
      BY <1>5, <2>1
    <2>3. h = [i \in 1..Len(h) |-> h[i]]
      BY <1>3
    <2>. QED
      BY <1>5, <2>2, <2>3, ZenonT(40)
  <1>8. V!decode_bytea(s, capacity) = DecodedHex(h, capacity)
    <2>1. Unprefixed(s) = h
      BY <1>3, <1>5, <1>6 DEF Unprefixed
    <2>. QED
      BY <2>1, DecodeSplit
  <1>. QED
    BY <1>1, <1>2, <1>4, <1>8, ShownIsRead DEF V!encode_bytea

(* The powers of ten a number of at most nine places is taken apart with.  *)
Power(k) == 10 ^ k
Ten(k) == IF k = 0 THEN 1 ELSE IF k = 1 THEN 10 ELSE IF k = 2 THEN 100 ELSE IF k = 3 THEN 1000
          ELSE IF k = 4 THEN 10000 ELSE IF k = 5 THEN 100000 ELSE IF k = 6 THEN 1000000
          ELSE IF k = 7 THEN 10000000 ELSE IF k = 8 THEN 100000000 ELSE 1000000000

(* They are what they are, one by one.                                     *)
LEMMA Powers ==
  /\ Power(0) = 1 /\ Power(1) = 10 /\ Power(2) = 100 /\ Power(3) = 1000 /\ Power(4) = 10000
  /\ Power(5) = 100000 /\ Power(6) = 1000000 /\ Power(7) = 10000000 /\ Power(8) = 100000000
  /\ Power(9) = 1000000000
  BY SMT DEF Power

(* Hence the table is right.                                               *)
LEMMA TenPower ==
  ASSUME NEW k \in 0..9
  PROVE  Power(k) = Ten(k) /\ Ten(k) \in Nat /\ Ten(k) # 0
  <1>1. k \in {0, 1, 2, 3, 4, 5, 6, 7, 8, 9}
    BY SMT
  <1>. QED
    BY SMT, <1>1, Powers DEF Ten

(* The nanoseconds of a second.                                            *)
Below == {n \in Nat : n < 1000000000}

(* The places of a number: as many as it needs.                            *)
LEMMA PlacesOf ==
  ASSUME NEW n \in Below
  PROVE  /\ V!Places(n) \in 1..9 /\ n < Ten(V!Places(n))
         /\ V!Places(n) = 1 \/ n >= Ten(V!Places(n) - 1)
  <1>1. ASSUME NEW k \in 1..9
        PROVE  (n < Power(k) /\ (k = 1 \/ n >= Power(k - 1))) <=> (n < Ten(k) /\ (k = 1 \/ n >= Ten(k - 1)))
    <2>1. k - 1 \in 0..9 /\ k \in 0..9
      BY SMT
    <2>. QED
      BY SMT, <2>1, TenPower
  <1>2. \E k \in 1..9 : n < Ten(k) /\ (k = 1 \/ n >= Ten(k - 1))
    <2>1. n \in Int /\ 0 <= n /\ n < 1000000000
      BY SMT DEF Below
    <2>2. CASE n < 10
      BY SMT, <2>2 DEF Ten
    <2>3. CASE n >= 10 /\ n < 100
      BY SMT, <2>3 DEF Ten
    <2>4. CASE n >= 100 /\ n < 1000
      BY SMT, <2>4 DEF Ten
    <2>5. CASE n >= 1000 /\ n < 10000
      BY SMT, <2>5 DEF Ten
    <2>6. CASE n >= 10000 /\ n < 100000
      BY SMT, <2>6 DEF Ten
    <2>7. CASE n >= 100000 /\ n < 1000000
      BY SMT, <2>7 DEF Ten
    <2>8. CASE n >= 1000000 /\ n < 10000000
      BY SMT, <2>8 DEF Ten
    <2>9. CASE n >= 10000000 /\ n < 100000000
      BY SMT, <2>9 DEF Ten
    <2>10. CASE n >= 100000000
      BY SMT, <2>1, <2>10 DEF Ten
    <2>. QED
      BY SMT, <2>1, <2>2, <2>3, <2>4, <2>5, <2>6, <2>7, <2>8, <2>9, <2>10
  <1>3. \E k \in 1..9 : n < Power(k) /\ (k = 1 \/ n >= Power(k - 1))
    BY SMT, <1>1, <1>2
  <1>4. PICK k \in 1..9 : k = V!Places(n) /\ n < Power(k) /\ (k = 1 \/ n >= Power(k - 1))
    <2>1. V!Places(n) = CHOOSE k \in 1..9 : n < Power(k) /\ (k = 1 \/ n >= Power(k - 1))
      BY Zenon DEF V!Places, Power
    <2>. QED
      BY <1>3, <2>1, Zenon
  <1>. QED
    BY SMT, <1>1, <1>4

(* A number below 10^w takes w places.                                     *)
LEMMA PlacesBound ==
  ASSUME NEW n \in Below, NEW w \in 1..9, n < Ten(w)
  PROVE  V!Places(n) <= w
  <1>1. PICK k \in 1..9 : k = V!Places(n) /\ n < Ten(k) /\ (k = 1 \/ n >= Ten(k - 1))
    BY SMT, PlacesOf
  <1>2. ASSUME k > w PROVE FALSE
    <2>1. n \in Int /\ k - 1 >= w /\ k - 1 \in {1, 2, 3, 4, 5, 6, 7, 8} /\ w \in {1, 2, 3, 4, 5, 6, 7, 8, 9} /\ k # 1
      BY SMT, <1>2 DEF Below
    <2>2. Ten(k - 1) >= Ten(w)
      BY SMT, <2>1 DEF Ten
    <2>3. Ten(w) \in Nat /\ Ten(k - 1) \in Nat
      BY SMT, <2>1 DEF Ten
    <2>. QED
      BY SMT, <1>1, <2>1, <2>2, <2>3
  <1>. QED
    BY SMT, <1>1, <1>2

(* The digit of n at 10 ^ k.                                               *)
Digit(n, k) == (n \div Ten(k)) % 10

(* Dec() of it: w digits, in place.                                        *)
LEMMA DecDigits ==
  ASSUME NEW n \in Below, NEW w \in 1..9, n < Ten(w)
  PROVE  /\ V!Dec(n, w) \in Seq(Int) /\ Len(V!Dec(n, w)) = w
         /\ \A i \in 1..w : V!Dec(n, w)[i] = 48 + Digit(n, w - i) /\ Digit(n, w - i) \in 0..9
  <1>1. V!Places(n) \in 1..9 /\ V!Places(n) <= w
    BY SMT, PlacesOf, PlacesBound
  <1>2. (IF V!Places(n) < w THEN w ELSE V!Places(n)) = w
    BY SMT, <1>1
  <1>3. V!Dec(n, w) = [i \in 1..w |-> 48 + ((n \div Power(w - i)) % 10)]
    BY <1>2, Zenon DEF V!Dec, Power
  <1>4. ASSUME NEW i \in 1..w
        PROVE  48 + ((n \div Power(w - i)) % 10) = 48 + Digit(n, w - i) /\ Digit(n, w - i) \in 0..9
    <2>1. w - i \in 0..9
      BY SMT
    <2>2. Power(w - i) = Ten(w - i)
      BY SMT, <2>1, TenPower
    <2>3. Ten(w - i) \in Nat \ {0} /\ n \in Nat
      BY SMT, <2>1 DEF Ten, Below
    <2>4. n \div Ten(w - i) \in Int
      BY SMT, <2>3
    <2>5. (n \div Ten(w - i)) % 10 \in 0..9
      BY SMT, <2>4
    <2>. QED
      BY SMT, <2>2, <2>5 DEF Digit
  <1>5. \A i \in 1..w : V!Dec(n, w)[i] = 48 + Digit(n, w - i) /\ Digit(n, w - i) \in 0..9
    BY SMT, <1>3, <1>4
  <1>6. V!Dec(n, w) \in [1..w -> Int]
    BY SMT, <1>3, <1>5
  <1>. QED
    BY SMT, <1>5, <1>6

(* c is a, of length n, with b, of length m, behind it.                    *)
Behind(c, a, n, b, m) ==
  /\ c \in Seq(Int) /\ Len(c) = n + m
  /\ \A i \in 1..n : c[i] = a[i]
  /\ \A i \in 1..m : c[n + i] = b[i]

(* One text behind another.                                                *)
LEMMA Joined ==
  ASSUME NEW a \in Seq(Int), NEW b \in Seq(Int)
  PROVE  Behind(a \o b, a, Len(a), b, Len(b))
  <1>1. /\ a \o b \in Seq(Int) /\ Len(a \o b) = Len(a) + Len(b)
        /\ \A i \in 1..Len(a) : (a \o b)[i] = a[i]
        /\ \A i \in 1..Len(b) : (a \o b)[Len(a) + i] = b[i]
    BY SMT
  <1>. QED
    BY <1>1, Zenon DEF Behind

(* Three fields, the last two of two digits, with a separator between; and *)
(* what stands where.                                                      *)
Fields(s, k, c, f, g, h) ==
  /\ k \in Nat /\ c \in Int /\ f \in Seq(Int) /\ g \in Seq(Int) /\ h \in Seq(Int)
  /\ Len(f) = k /\ Len(g) = 2 /\ Len(h) = 2 /\ s = f \o <<c>> \o g \o <<c>> \o h
InPlace(s, k, c, f, g, h) ==
  /\ s \in Seq(Int) /\ Len(s) = k + 6 /\ s[k + 1] = c /\ s[k + 4] = c
  /\ \A i \in 1..k : s[i] = f[i]
  /\ \A i \in 1..2 : s[(k + 1) + i] = g[i]
  /\ \A i \in 1..2 : s[(k + 4) + i] = h[i]

(* The fields are in place.                                                *)
LEMMA FieldsInPlace ==
  ASSUME NEW k, NEW c, NEW f, NEW g, NEW h, NEW s, Fields(s, k, c, f, g, h)
  PROVE  InPlace(s, k, c, f, g, h)
  <1>0. /\ k \in Nat /\ c \in Int /\ f \in Seq(Int) /\ g \in Seq(Int) /\ h \in Seq(Int)
        /\ Len(f) = k /\ Len(g) = 2 /\ Len(h) = 2 /\ s = f \o <<c>> \o g \o <<c>> \o h
    BY Zenon DEF Fields
  <1>1. PICK d : d = <<c>>
    OBVIOUS
  <1>2. d \in Seq(Int) /\ Len(d) = 1 /\ d[1] = c
    BY SMT, <1>0, <1>1
  <1>3. PICK t, u, v : t = f \o d /\ u = t \o g /\ v = u \o d
    OBVIOUS
  <1>4. s = v \o h
    BY <1>0, <1>1, <1>3, Zenon
  <1>5. /\ 1 \in Nat /\ 2 \in Nat /\ k + 1 \in Nat /\ k + 3 \in Nat /\ k + 4 \in Nat /\ 1 \in 1..1
        /\ (k + 1) + 2 = k + 3 /\ (k + 3) + 1 = k + 4 /\ (k + 4) + 2 = k + 6
    BY SMT, <1>0
  <1>6. t \in Seq(Int) /\ Len(t) = k + 1 /\ (\A i \in 1..k : t[i] = f[i]) /\ t[k + 1] = c
    <2>1. Behind(t, f, k, d, 1)
      BY <1>0, <1>2, <1>3, Joined, Zenon
    <2>. QED
      BY <1>2, <1>5, <2>1, Zenon DEF Behind
  <1>7. u \in Seq(Int) /\ Len(u) = k + 3 /\ (\A i \in 1..(k + 1) : u[i] = t[i]) /\ (\A i \in 1..2 : u[(k + 1) + i] = g[i])
    <2>1. Behind(u, t, k + 1, g, 2)
      BY <1>0, <1>3, <1>6, Joined, Zenon
    <2>. QED
      BY <1>5, <2>1, Zenon DEF Behind
  <1>8. v \in Seq(Int) /\ Len(v) = k + 4 /\ (\A i \in 1..(k + 3) : v[i] = u[i]) /\ v[k + 4] = c
    <2>1. Behind(v, u, k + 3, d, 1)
      BY <1>2, <1>3, <1>7, Joined, Zenon
    <2>. QED
      BY <1>2, <1>5, <2>1, Zenon DEF Behind
  <1>9. s \in Seq(Int) /\ Len(s) = k + 6 /\ (\A i \in 1..(k + 4) : s[i] = v[i]) /\ (\A i \in 1..2 : s[(k + 4) + i] = h[i])
    <2>1. Behind(s, v, k + 4, h, 2)
      BY <1>0, <1>4, <1>8, Joined, Zenon
    <2>. QED
      BY <1>5, <2>1, Zenon DEF Behind
  <1>10. ASSUME NEW i \in 1..(k + 3) PROVE s[i] = u[i]
    <2>1. i \in 1..(k + 4)
      BY SMT, <1>0
    <2>. QED
      BY <1>8, <1>9, <2>1, Zenon
  <1>11. k + 1 \in 1..(k + 1) /\ k + 1 \in 1..(k + 3) /\ k + 4 \in 1..(k + 4)
    BY SMT, <1>0
  <1>12. s[k + 1] = c /\ s[k + 4] = c
    BY <1>6, <1>7, <1>8, <1>9, <1>10, <1>11, Zenon
  <1>13. ASSUME NEW i \in 1..k PROVE s[i] = f[i]
    <2>1. i \in 1..(k + 3) /\ i \in 1..(k + 1)
      BY SMT, <1>0
    <2>. QED
      BY <1>6, <1>7, <1>10, <2>1, Zenon
  <1>14. ASSUME NEW i \in 1..2 PROVE s[(k + 1) + i] = g[i]
    <2>1. (k + 1) + i \in 1..(k + 3)
      BY SMT, <1>0
    <2>. QED
      BY <1>7, <1>10, <2>1, Zenon
  <1>. QED
    BY <1>9, <1>12, <1>13, <1>14, Zenon DEF InPlace

(* The dates and times a format of fixed width can write.                  *)
Year == 0..9999
Date == [year : Year, month : 0..99, day : 0..99]
Time == [hour : 0..99, minute : 0..99, second : 0..99]

(* s has the digits of n, w of them, behind place p.                       *)
DigitsAt(s, p, n, w) == \A i \in 1..w : s[p + i] = 48 + Digit(n, w - i) /\ Digit(n, w - i) \in 0..9

(* A field that fits is written in its width.                              *)
LEMMA FieldText ==
  ASSUME NEW n \in Nat, NEW w \in 1..9, n < Ten(w)
  PROVE  V!Dec(n, w) \in Seq(Int) /\ Len(V!Dec(n, w)) = w /\ DigitsAt(V!Dec(n, w), 0, n, w)
  <1>1. n \in Below
    <2>1. w \in {1, 2, 3, 4, 5, 6, 7, 8, 9}
      BY SMT
    <2>2. Ten(w) <= 1000000000 /\ Ten(w) \in Nat
      BY SMT, <2>1 DEF Ten
    <2>. QED
      BY SMT, <2>2 DEF Below
  <1>2. PICK t : t = V!Dec(n, w)
    OBVIOUS
  <1>3. t \in Seq(Int) /\ Len(t) = w /\ \A i \in 1..w : t[i] = 48 + Digit(n, w - i) /\ Digit(n, w - i) \in 0..9
    BY <1>1, <1>2, DecDigits, Zenon
  <1>4. \A i \in 1..w : t[0 + i] = t[i]
    BY SMT
  <1>. QED
    BY <1>2, <1>3, <1>4, Zenon DEF DigitsAt

(* Digits that stand in another text, further on.                          *)
LEMMA Shifted ==
  ASSUME NEW s, NEW t, NEW p \in Nat, NEW n, NEW m \in Nat, DigitsAt(t, 0, n, m), \A i \in 1..m : s[p + i] = t[i]
  PROVE  DigitsAt(s, p, n, m)
  <1>1. \A i \in 1..m : 0 + i = i
    BY SMT
  <1>. QED
    BY <1>1, Zenon DEF DigitsAt

(* Three fields by their digits.                                           *)
Written(s, k, c, x, y, z) ==
  /\ s \in Seq(Int) /\ Len(s) = k + 6 /\ s[k + 1] = c /\ s[k + 4] = c
  /\ DigitsAt(s, 0, x, k) /\ DigitsAt(s, k + 1, y, 2) /\ DigitsAt(s, k + 4, z, 2)

(* The digits of three fields are in place.                                *)
LEMMA FieldTexts ==
  ASSUME NEW s, NEW k \in Nat, NEW c, NEW f, NEW g, NEW h, NEW x, NEW y, NEW z, Fields(s, k, c, f, g, h),
         DigitsAt(f, 0, x, k), DigitsAt(g, 0, y, 2), DigitsAt(h, 0, z, 2)
  PROVE  Written(s, k, c, x, y, z)
  <1>1. InPlace(s, k, c, f, g, h)
    BY FieldsInPlace, Zenon
  <1>2. /\ s \in Seq(Int) /\ Len(s) = k + 6 /\ s[k + 1] = c /\ s[k + 4] = c
        /\ \A i \in 1..k : s[i] = f[i]
        /\ \A i \in 1..2 : s[(k + 1) + i] = g[i]
        /\ \A i \in 1..2 : s[(k + 4) + i] = h[i]
    BY <1>1, Zenon DEF InPlace
  <1>3. /\ 0 \in Nat /\ 2 \in Nat /\ k + 1 \in Nat /\ k + 4 \in Nat
    BY SMT
  <1>4. \A i \in 1..k : 0 + i = i
    BY SMT
  <1>5. \A i \in 1..k : s[0 + i] = f[i]
    BY <1>2, <1>4, Zenon
  <1>6. DigitsAt(s, 0, x, k)
    BY <1>3, <1>5, Shifted, Zenon
  <1>7. DigitsAt(s, k + 1, y, 2)
    BY <1>2, <1>3, Shifted, Zenon
  <1>8. DigitsAt(s, k + 4, z, 2)
    BY <1>2, <1>3, Shifted, ZenonT(40)
  <1>. QED
    BY <1>2, <1>6, <1>7, <1>8, Zenon DEF Written

(* The places of a date's text.                                            *)
LEMMA DateText ==
  ASSUME NEW d \in Date, NEW s, s = V!format_date(d)
  PROVE  /\ s \in Seq(Int) /\ Len(s) = 10 /\ s[5] = 45 /\ s[8] = 45
         /\ DigitsAt(s, 0, d.year, 4) /\ DigitsAt(s, 5, d.month, 2) /\ DigitsAt(s, 8, d.day, 2)
  <1>1. PICK y, m, n : y = d.year /\ m = d.month /\ n = d.day
    OBVIOUS
  <1>2. y \in 0..9999 /\ m \in 0..99 /\ n \in 0..99
    BY SMT, <1>1 DEF Date, Year
  <1>3. 4 \in 1..9 /\ 2 \in 1..9 /\ y \in Nat /\ m \in Nat /\ n \in Nat /\ y < Ten(4) /\ m < Ten(2) /\ n < Ten(2)
    BY SMT, <1>2 DEF Ten
  <1>4. PICK f, g, h : f = V!Dec(y, 4) /\ g = V!Dec(m, 2) /\ h = V!Dec(n, 2)
    OBVIOUS
  <1>5. /\ f \in Seq(Int) /\ Len(f) = 4 /\ DigitsAt(f, 0, y, 4)
        /\ g \in Seq(Int) /\ Len(g) = 2 /\ DigitsAt(g, 0, m, 2)
        /\ h \in Seq(Int) /\ Len(h) = 2 /\ DigitsAt(h, 0, n, 2)
    BY <1>3, <1>4, FieldText, Zenon
  <1>6. s = f \o <<45>> \o g \o <<45>> \o h
    BY <1>1, <1>4, Zenon DEF V!format_date, V!Dash
  <1>7. 4 \in Nat /\ 45 \in Int
    BY SMT
  <1>8. Fields(s, 4, 45, f, g, h)
    BY <1>5, <1>6, <1>7, Zenon DEF Fields
  <1>9. Written(s, 4, 45, y, m, n)
    BY <1>5, <1>7, <1>8, FieldTexts, Zenon
  <1>10. /\ s \in Seq(Int) /\ Len(s) = 10 /\ s[5] = 45 /\ s[8] = 45
         /\ DigitsAt(s, 0, y, 4) /\ DigitsAt(s, 5, m, 2) /\ DigitsAt(s, 8, n, 2)
    BY SMT, <1>9 DEF Written
  <1>. QED
    BY <1>1, <1>10, Zenon

(* The places of a time's text.                                            *)
LEMMA TimeText ==
  ASSUME NEW t \in Time, NEW s, s = V!format_time(t)
  PROVE  /\ s \in Seq(Int) /\ Len(s) = 8 /\ s[3] = 58 /\ s[6] = 58
         /\ DigitsAt(s, 0, t.hour, 2) /\ DigitsAt(s, 3, t.minute, 2) /\ DigitsAt(s, 6, t.second, 2)
  <1>1. PICK y, m, n : y = t.hour /\ m = t.minute /\ n = t.second
    OBVIOUS
  <1>2. y \in 0..99 /\ m \in 0..99 /\ n \in 0..99
    BY SMT, <1>1 DEF Time
  <1>3. 2 \in 1..9 /\ 2 \in 1..9 /\ y \in Nat /\ m \in Nat /\ n \in Nat /\ y < Ten(2) /\ m < Ten(2) /\ n < Ten(2)
    BY SMT, <1>2 DEF Ten
  <1>4. PICK f, g, h : f = V!Dec(y, 2) /\ g = V!Dec(m, 2) /\ h = V!Dec(n, 2)
    OBVIOUS
  <1>5. /\ f \in Seq(Int) /\ Len(f) = 2 /\ DigitsAt(f, 0, y, 2)
        /\ g \in Seq(Int) /\ Len(g) = 2 /\ DigitsAt(g, 0, m, 2)
        /\ h \in Seq(Int) /\ Len(h) = 2 /\ DigitsAt(h, 0, n, 2)
    BY <1>3, <1>4, FieldText, Zenon
  <1>6. s = f \o <<58>> \o g \o <<58>> \o h
    BY <1>1, <1>4, Zenon DEF V!format_time, V!Colon
  <1>7. 2 \in Nat /\ 58 \in Int
    BY SMT
  <1>8. Fields(s, 2, 58, f, g, h)
    BY <1>5, <1>6, <1>7, Zenon DEF Fields
  <1>9. Written(s, 2, 58, y, m, n)
    BY <1>5, <1>7, <1>8, FieldTexts, Zenon
  <1>10. /\ s \in Seq(Int) /\ Len(s) = 8 /\ s[3] = 58 /\ s[6] = 58
         /\ DigitsAt(s, 0, y, 2) /\ DigitsAt(s, 3, m, 2) /\ DigitsAt(s, 6, n, 2)
    BY SMT, <1>9 DEF Written
  <1>. QED
    BY <1>1, <1>10, Zenon

(* read_digits() of two digits, and of four.                               *)
LEMMA ReadTwo ==
  ASSUME NEW s, NEW p \in Nat, NEW n \in 0..99, DigitsAt(s, p, n, 2)
  PROVE  V!read_digits(s, p, 2) = n
  <1>1. PICK a, b : a = s[p + 1] - 48 /\ b = s[p + 2] - 48
    OBVIOUS
  <1>2. a = n \div 10 /\ b = n % 10
    <2>1. s[p + 1] = 48 + Digit(n, 2 - 1) /\ Digit(n, 2 - 1) \in 0..9 /\ s[p + 2] = 48 + Digit(n, 2 - 2) /\ Digit(n, 2 - 2) \in 0..9
      BY SMT DEF DigitsAt
    <2>2. Digit(n, 2 - 1) = (n \div 10) % 10 /\ Digit(n, 2 - 2) = (n \div 1) % 10
      BY SMT DEF Digit, Ten
    <2>3. (n \div 10) % 10 = n \div 10 /\ n \div 1 = n
      BY SMT
    <2>. QED
      BY SMT, <1>1, <2>1, <2>2, <2>3
  <1>3. PICK v : v = [i \in 0..2 |-> IF i = 0 THEN 0 ELSE IF i = 1 THEN a ELSE 10 * a + b]
    OBVIOUS
  <1>4. v = [i \in 0..2 |-> IF i = 0 THEN 0 ELSE 10 * v[i - 1] + (s[p + i] - 48)]
    <2>1. v[0] = 0 /\ v[1] = a /\ v[2] = 10 * a + b /\ a \in Int /\ b \in Int
      BY SMT, <1>2, <1>3
    <2>2. ASSUME NEW i \in 0..2 PROVE v[i] = IF i = 0 THEN 0 ELSE 10 * v[i - 1] + (s[p + i] - 48)
      BY SMT, <1>1, <2>1
    <2>. QED
      BY <1>3, <2>2
  <1>5. PICK u : /\ u = [i \in 0..2 |-> IF i = 0 THEN 0 ELSE 10 * u[i - 1] + (s[p + i] - 48)]
                 /\ V!read_digits(s, p, 2) = u[2]
    BY <1>4 DEF V!read_digits
  <1>6. u[0] = 0 /\ u[1] = 10 * u[0] + (s[p + 1] - 48) /\ u[2] = 10 * u[1] + (s[p + 2] - 48)
    <2>1. PICK x : x = [i \in 0..2 |-> IF i = 0 THEN 0 ELSE 10 * u[i - 1] + (s[p + i] - 48)]
      OBVIOUS
    <2>2. x[0] = 0 /\ x[1] = 10 * u[0] + (s[p + 1] - 48) /\ x[2] = 10 * u[1] + (s[p + 2] - 48)
      BY SMT, <2>1
    <2>3. u = x
      BY <1>5, <2>1, Zenon
    <2>. QED
      BY <2>2, <2>3, Zenon
  <1>7. u[2] = 10 * a + b
    BY SMT, <1>1, <1>2, <1>6
  <1>8. 10 * a + b = n
    BY SMT, <1>2
  <1>. QED
    BY <1>5, <1>7, <1>8, Zenon

(* Four digits behind a place, and what they read as.                      *)
FourAt(s, p, a, b, c, d) ==
  /\ a \in Int /\ b \in Int /\ c \in Int /\ d \in Int
  /\ a = s[p + 1] - 48 /\ b = s[p + 2] - 48 /\ c = s[p + 3] - 48 /\ d = s[p + 4] - 48

(* Four digits.                                                            *)
LEMMA FourDigits ==
  ASSUME NEW s, NEW p \in Nat, NEW a, NEW b, NEW c, NEW d, FourAt(s, p, a, b, c, d)
  PROVE  V!read_digits(s, p, 4) = 10 * (10 * (10 * a + b) + c) + d
  <1>. a \in Int /\ b \in Int /\ c \in Int /\ d \in Int
    BY Zenon DEF FourAt
  <1>. a = s[p + 1] - 48 /\ b = s[p + 2] - 48 /\ c = s[p + 3] - 48 /\ d = s[p + 4] - 48
    BY Zenon DEF FourAt
  <1>3. PICK v : v = [i \in 0..4 |-> IF i = 0 THEN 0 ELSE IF i = 1 THEN a ELSE IF i = 2 THEN 10 * a + b
                                     ELSE IF i = 3 THEN 10 * (10 * a + b) + c ELSE 10 * (10 * (10 * a + b) + c) + d]
    OBVIOUS
  <1>4. v = [i \in 0..4 |-> IF i = 0 THEN 0 ELSE 10 * v[i - 1] + (s[p + i] - 48)]
    <2>1. /\ v[0] = 0 /\ v[1] = a /\ v[2] = 10 * a + b /\ v[3] = 10 * (10 * a + b) + c
          /\ v[4] = 10 * (10 * (10 * a + b) + c) + d
      BY SMT, <1>3
    <2>2. ASSUME NEW i \in 0..4 PROVE v[i] = IF i = 0 THEN 0 ELSE 10 * v[i - 1] + (s[p + i] - 48)
      <3>1. i \in {0, 1, 2, 3, 4}
        BY SMT
      <3>. QED
        BY SMT, <2>1, <3>1
    <2>. QED
      BY <1>3, <2>2
  <1>5. PICK u : /\ u = [i \in 0..4 |-> IF i = 0 THEN 0 ELSE 10 * u[i - 1] + (s[p + i] - 48)]
                 /\ V!read_digits(s, p, 4) = u[4]
    BY <1>4 DEF V!read_digits
  <1>6. /\ u[0] = 0 /\ u[1] = 10 * u[0] + (s[p + 1] - 48) /\ u[2] = 10 * u[1] + (s[p + 2] - 48)
        /\ u[3] = 10 * u[2] + (s[p + 3] - 48) /\ u[4] = 10 * u[3] + (s[p + 4] - 48)
    <2>1. PICK x : x = [i \in 0..4 |-> IF i = 0 THEN 0 ELSE 10 * u[i - 1] + (s[p + i] - 48)]
      OBVIOUS
    <2>2. /\ x[0] = 0 /\ x[1] = 10 * u[0] + (s[p + 1] - 48) /\ x[2] = 10 * u[1] + (s[p + 2] - 48)
          /\ x[3] = 10 * u[2] + (s[p + 3] - 48) /\ x[4] = 10 * u[3] + (s[p + 4] - 48)
      BY SMT, <2>1
    <2>3. u = x
      BY <1>5, <2>1, Zenon
    <2>. QED
      BY <2>2, <2>3, Zenon
  <1>7. u[4] = 10 * (10 * (10 * a + b) + c) + d
    <2>1. u[1] = a
      BY SMT, <1>6
    <2>2. u[2] = 10 * a + b
      BY SMT, <1>6, <2>1
    <2>3. u[3] = 10 * (10 * a + b) + c
      BY SMT, <1>6, <2>2
    <2>. QED
      BY SMT, <1>6, <2>3
  <1>. QED
    BY <1>5, <1>7, Zenon

(* A year reads as what it was.                                            *)
LEMMA ReadFour ==
  ASSUME NEW s, NEW p \in Nat, NEW n \in Year, DigitsAt(s, p, n, 4)
  PROVE  V!read_digits(s, p, 4) = n
  <1>. n \in 0..9999
    BY SMT DEF Year
  <1>1. PICK a, b, c, d : a = s[p + 1] - 48 /\ b = s[p + 2] - 48 /\ c = s[p + 3] - 48 /\ d = s[p + 4] - 48
    BY SMT
  <1>2. a = n \div 1000 /\ b = (n \div 100) % 10 /\ c = (n \div 10) % 10 /\ d = n % 10
    <2>1. /\ s[p + 1] = 48 + Digit(n, 4 - 1) /\ Digit(n, 4 - 1) \in 0..9 /\ s[p + 2] = 48 + Digit(n, 4 - 2) /\ Digit(n, 4 - 2) \in 0..9
          /\ s[p + 3] = 48 + Digit(n, 4 - 3) /\ Digit(n, 4 - 3) \in 0..9 /\ s[p + 4] = 48 + Digit(n, 4 - 4) /\ Digit(n, 4 - 4) \in 0..9
      BY SMT DEF DigitsAt
    <2>2. /\ Digit(n, 4 - 1) = (n \div 1000) % 10 /\ Digit(n, 4 - 2) = (n \div 100) % 10
          /\ Digit(n, 4 - 3) = (n \div 10) % 10 /\ Digit(n, 4 - 4) = (n \div 1) % 10
      BY SMT DEF Digit, Ten
    <2>3. (n \div 1000) % 10 = n \div 1000 /\ n \div 1 = n
      BY SMTT(20)
    <2>. QED
      BY SMT, <1>1, <2>1, <2>2, <2>3
  <1>3. a \in Int /\ b \in Int /\ c \in Int /\ d \in Int
    <2>1. n \div 1000 \in Int /\ (n \div 100) % 10 \in Int /\ (n \div 10) % 10 \in Int /\ n % 10 \in Int
      BY SMT
    <2>. QED
      BY SMT, <1>2, <2>1
  <1>4. V!read_digits(s, p, 4) = 10 * (10 * (10 * a + b) + c) + d
    <2>1. FourAt(s, p, a, b, c, d)
      BY SMT, <1>1, <1>3 DEF FourAt
    <2>. QED
      BY SMT, <2>1, FourDigits
  <1>5. 10 * (10 * (10 * a + b) + c) + d = n
    BY <1>2, SMTT(20)
  <1>. QED
    BY SMT, <1>4, <1>5

(* What the first digits of a fraction make, and the next one adds.        *)
Upper(f, k) == Ten(k) * (f \div Ten(k))

(* One digit more.                                                         *)
LEMMA OneDigit ==
  ASSUME NEW f \in Below, NEW k \in 0..8
  PROVE  Upper(f, k) = Upper(f, k + 1) + Digit(f, k) * Ten(k) /\ Upper(f, k) \in Nat /\ Upper(f, k + 1) \in Nat
  <1>1. k \in {0, 1, 2, 3, 4, 5, 6, 7, 8} /\ f \in Nat
    BY SMT DEF Below
  <1>2. CASE k = 0
    BY SMT, <1>1, <1>2 DEF Upper, Digit, Ten
  <1>3. CASE k = 1
    BY SMT, <1>1, <1>3 DEF Upper, Digit, Ten
  <1>4. CASE k = 2
    BY SMT, <1>1, <1>4 DEF Upper, Digit, Ten
  <1>5. CASE k = 3
    BY SMT, <1>1, <1>5 DEF Upper, Digit, Ten
  <1>6. CASE k = 4
    BY SMT, <1>1, <1>6 DEF Upper, Digit, Ten
  <1>7. CASE k = 5
    BY SMT, <1>1, <1>7 DEF Upper, Digit, Ten
  <1>8. CASE k = 6
    BY SMT, <1>1, <1>8 DEF Upper, Digit, Ten
  <1>9. CASE k = 7
    BY SMT, <1>1, <1>9 DEF Upper, Digit, Ten
  <1>10. CASE k = 8
    BY SMT, <1>1, <1>10 DEF Upper, Digit, Ten
  <1>. QED
    BY <1>1, <1>2, <1>3, <1>4, <1>5, <1>6, <1>7, <1>8, <1>9, <1>10, SMT

(* The parts of read_fraction(): how many digits there are, and what they  *)
(* add up to.                                                              *)
LastDigit(s, p) == CHOOSE n \in 0..9 : V!Digits(s, p + 1, n) /\ (n = 9 \/ ~V!Digits(s, p + 1, n + 1))
Sums(s, p, m, h) == h = [i \in 0..m |-> IF i = 0 THEN 0 ELSE h[i - 1] + (s[p + 1 + i] - 48) * Power(9 - i)]

(* A fraction is put together from those two.                              *)
LEMMA FractionParts ==
  ASSUME NEW s, NEW p, V!expect(s, p, V!Dot), \E h : Sums(s, p, LastDigit(s, p), h)
  PROVE  \E h : Sums(s, p, LastDigit(s, p), h) /\ V!read_fraction(s, p) = h[LastDigit(s, p)]
  <1>1. PICK h : h = CHOOSE x : Sums(s, p, LastDigit(s, p), x)
    OBVIOUS
  <1>2. Sums(s, p, LastDigit(s, p), h)
    BY <1>1, Zenon
  <1>3. V!read_fraction(s, p) = h[LastDigit(s, p)]
    BY <1>1, Zenon DEF V!read_fraction, LastDigit, Sums, Power
  <1>. QED
    BY <1>2, <1>3, Zenon

(* s ends in a dot behind place p and the first m digits of f.             *)
FractionAt(s, p, f, m) ==
  /\ Len(s) = p + 1 + m /\ s[p + 1] = 46
  /\ \A i \in 1..m : s[p + 1 + i] = 48 + Digit(f, 9 - i) /\ Digit(f, 9 - i) \in 0..9

(* They are as many as are read.                                           *)
LEMMA DigitsFound ==
  ASSUME NEW s, NEW p \in Nat, NEW f, NEW m \in 1..9, FractionAt(s, p, f, m)
  PROVE  V!expect(s, p, V!Dot) /\ LastDigit(s, p) = m
  <1>1. Len(s) = p + 1 + m /\ s[p + 1] = 46
    BY DEF FractionAt
  <1>2. ASSUME NEW i \in 1..m PROVE V!IsDigit(s[p + 1 + i])
    <2>1. PICK d \in 0..9 : s[p + 1 + i] = 48 + d
      BY Zenon DEF FractionAt
    <2>2. 48 + d \in 48..57
      BY SMT
    <2>. QED
      BY <2>1, <2>2, Zenon DEF V!IsDigit
  <1>3. ASSUME NEW n \in 0..m PROVE V!Digits(s, p + 1, n)
    <2>1. ASSUME NEW i \in ((p + 1) + 1)..((p + 1) + n) PROVE V!IsDigit(s[i])
      <3>1. i - (p + 1) \in 1..m /\ p + 1 + (i - (p + 1)) = i
        BY SMT
      <3>. QED
        BY <1>2, <3>1, Zenon
    <2>2. (p + 1) + n <= Len(s)
      BY SMT, <1>1
    <2>. QED
      BY <2>1, <2>2, Zenon DEF V!Digits
  <1>4. ~V!Digits(s, p + 1, m + 1)
    BY SMT, <1>1 DEF V!Digits
  <1>5. m \in 0..9 /\ m \in 0..m /\ \A n \in 0..9 : n < m => n + 1 \in 0..m /\ n # 9
    BY SMT
  <1>6. ASSUME NEW n \in 0..9, n > m PROVE ~V!Digits(s, p + 1, n)
    <2>1. ~((p + 1) + n <= p + 1 + m)
      BY SMT, <1>6
    <2>. QED
      BY <1>1, <2>1, Zenon DEF V!Digits
  <1>7. V!Digits(s, p + 1, m) /\ (m = 9 \/ ~V!Digits(s, p + 1, m + 1))
    BY <1>3, <1>4, <1>5, Zenon
  <1>8. PICK n \in 0..9 : n = LastDigit(s, p) /\ V!Digits(s, p + 1, n) /\ (n = 9 \/ ~V!Digits(s, p + 1, n + 1))
    BY <1>5, <1>7, Zenon DEF LastDigit
  <1>9. ~(n < m)
    BY <1>3, <1>5, <1>8, Zenon
  <1>10. ~(n > m)
    BY <1>6, <1>8, Zenon
  <1>11. n = m
    BY SMT, <1>9, <1>10
  <1>12. V!expect(s, p, V!Dot)
    BY SMT, <1>1 DEF V!expect, V!Dot
  <1>. QED
    BY <1>8, <1>11, <1>12, Zenon

(* read_fraction() of the first m digits.                                  *)
LEMMA FractionRead ==
  ASSUME NEW s, NEW p \in Nat, NEW f \in Below, NEW m \in 1..9, FractionAt(s, p, f, m)
  PROVE  V!read_fraction(s, p) = Upper(f, 9 - m)
  <1>1. V!expect(s, p, V!Dot) /\ LastDigit(s, p) = m
    BY DigitsFound, Zenon
  <1>2. ASSUME NEW i \in 1..m
        PROVE  /\ Upper(f, 9 - i) = Upper(f, 9 - (i - 1)) + (s[p + 1 + i] - 48) * Power(9 - i)
               /\ Upper(f, 9 - i) \in Nat /\ Upper(f, 9 - (i - 1)) \in Nat
    <2>1. PICK k \in 0..8 : k = 9 - i /\ k + 1 = 9 - (i - 1) /\ k \in 0..9
      BY SMT
    <2>2. Upper(f, k) = Upper(f, k + 1) + Digit(f, k) * Ten(k) /\ Upper(f, k) \in Nat /\ Upper(f, k + 1) \in Nat
      BY SMT, OneDigit
    <2>3. Power(k) = Ten(k)
      BY <2>1, TenPower, Zenon
    <2>4. s[p + 1 + i] = 48 + Digit(f, k) /\ Digit(f, k) \in 0..9
      BY <2>1, Zenon DEF FractionAt
    <2>5. s[p + 1 + i] - 48 = Digit(f, k)
      BY SMT, <2>4
    <2>. QED
      BY <2>1, <2>2, <2>3, <2>5, Zenon
  <1>3. Upper(f, 9 - 0) = 0
    BY SMT DEF Upper, Ten, Below
  <1>4. PICK h : h = [i \in 0..m |-> Upper(f, 9 - i)]
    BY Zenon
  <1>5. Sums(s, p, m, h)
    <2>1. ASSUME NEW i \in 0..m
          PROVE  h[i] = IF i = 0 THEN 0 ELSE h[i - 1] + (s[p + 1 + i] - 48) * Power(9 - i)
      <3>1. CASE i = 0
        BY <1>3, <1>4, <3>1, Zenon
      <3>2. CASE i # 0
        <4>1. i \in 1..m /\ i - 1 \in 0..m
          BY SMT, <3>2
        <4>. QED
          BY <1>2, <1>4, <3>2, <4>1, Zenon
      <3>. QED
        BY <3>1, <3>2
    <2>. QED
      BY <1>4, <2>1, Zenon DEF Sums
  <1>6. PICK g : Sums(s, p, m, g) /\ V!read_fraction(s, p) = g[m]
    <2>1. \E x : Sums(s, p, LastDigit(s, p), x)
      BY <1>1, <1>5, Zenon
    <2>. QED
      BY <1>1, <2>1, FractionParts, Zenon
  <1>7. /\ g[0] = 0
        /\ \A i \in 1..m : g[i] = g[i - 1] + (s[p + 1 + i] - 48) * Power(9 - i)
    <2>1. PICK x : x = [i \in 0..m |-> IF i = 0 THEN 0 ELSE g[i - 1] + (s[p + 1 + i] - 48) * Power(9 - i)]
      BY Zenon
    <2>2. g = x
      BY <1>6, <2>1, Zenon DEF Sums
    <2>3. 0 \in 0..m /\ \A i \in 1..m : i \in 0..m /\ i # 0
      BY SMT
    <2>4. x[0] = 0 /\ \A i \in 1..m : x[i] = g[i - 1] + (s[p + 1 + i] - 48) * Power(9 - i)
      BY <2>1, <2>3, Zenon
    <2>. QED
      BY <2>2, <2>4, Zenon
  <1>8. g[0] = Upper(f, 9 - 0)
    BY <1>3, <1>7, Zenon
  <1>9. ASSUME NEW i \in 1..m, g[i - 1] = Upper(f, 9 - (i - 1)) PROVE g[i] = Upper(f, 9 - i)
    BY <1>2, <1>7, <1>9, Zenon
  <1>10. ASSUME NEW i \in Nat, NEW j \in Nat, j = i + 1, i <= m => g[i] = Upper(f, 9 - i)
         PROVE  j <= m => g[j] = Upper(f, 9 - j)
    <2>. SUFFICES ASSUME j <= m PROVE g[j] = Upper(f, 9 - j)
      BY Zenon
    <2>1. j \in 1..m /\ j - 1 = i /\ i <= m
      BY SMT, <1>10
    <2>. QED
      BY <1>9, <1>10, <2>1, Zenon
  <1>11. 0 <= m => g[0] = Upper(f, 9 - 0)
    BY <1>8, Zenon
  <1>12. 1 <= m => g[1] = Upper(f, 9 - 1)
    <2>1. 0 \in Nat /\ 1 \in Nat /\ 1 = 0 + 1
      BY SMT
    <2>. QED
      BY <1>10, <1>11, <2>1, Zenon
  <1>13. 2 <= m => g[2] = Upper(f, 9 - 2)
    <2>1. 1 \in Nat /\ 2 \in Nat /\ 2 = 1 + 1
      BY SMT
    <2>. QED
      BY <1>10, <1>12, <2>1, Zenon
  <1>14. 3 <= m => g[3] = Upper(f, 9 - 3)
    <2>1. 2 \in Nat /\ 3 \in Nat /\ 3 = 2 + 1
      BY SMT
    <2>. QED
      BY <1>10, <1>13, <2>1, Zenon
  <1>15. 4 <= m => g[4] = Upper(f, 9 - 4)
    <2>1. 3 \in Nat /\ 4 \in Nat /\ 4 = 3 + 1
      BY SMT
    <2>. QED
      BY <1>10, <1>14, <2>1, Zenon
  <1>16. 5 <= m => g[5] = Upper(f, 9 - 5)
    <2>1. 4 \in Nat /\ 5 \in Nat /\ 5 = 4 + 1
      BY SMT
    <2>. QED
      BY <1>10, <1>15, <2>1, Zenon
  <1>17. 6 <= m => g[6] = Upper(f, 9 - 6)
    <2>1. 5 \in Nat /\ 6 \in Nat /\ 6 = 5 + 1
      BY SMT
    <2>. QED
      BY <1>10, <1>16, <2>1, Zenon
  <1>18. 7 <= m => g[7] = Upper(f, 9 - 7)
    <2>1. 6 \in Nat /\ 7 \in Nat /\ 7 = 6 + 1
      BY SMT
    <2>. QED
      BY <1>10, <1>17, <2>1, Zenon
  <1>19. 8 <= m => g[8] = Upper(f, 9 - 8)
    <2>1. 7 \in Nat /\ 8 \in Nat /\ 8 = 7 + 1
      BY SMT
    <2>. QED
      BY <1>10, <1>18, <2>1, Zenon
  <1>20. 9 <= m => g[9] = Upper(f, 9 - 9)
    <2>1. 8 \in Nat /\ 9 \in Nat /\ 9 = 8 + 1
      BY SMT
    <2>. QED
      BY <1>10, <1>19, <2>1, Zenon
  <1>21. m \in {1, 2, 3, 4, 5, 6, 7, 8, 9} /\ m <= m
    BY SMT
  <1>. QED
    BY <1>6, <1>12, <1>13, <1>14, <1>15, <1>16, <1>17, <1>18, <1>19, <1>20, <1>21, Zenon

(* Where a date and a time stand in a text.                                *)
DateAt(s, d) ==
  /\ s[5] = 45 /\ s[8] = 45
  /\ DigitsAt(s, 0, d.year, 4) /\ DigitsAt(s, 5, d.month, 2) /\ DigitsAt(s, 8, d.day, 2)
TimeAt(s, p, t) ==
  /\ s[p + 3] = 58 /\ s[p + 6] = 58
  /\ DigitsAt(s, p, t.hour, 2) /\ DigitsAt(s, p + 3, t.minute, 2) /\ DigitsAt(s, p + 6, t.second, 2)

(* Digits are found, and so is a separator.                                *)
LEMMA FoundDigits ==
  ASSUME NEW s, NEW p \in Nat, NEW n, NEW m \in Nat, DigitsAt(s, p, n, m), Len(s) \in Nat, p + m <= Len(s)
  PROVE  V!Digits(s, p, m)
  <1>1. ASSUME NEW i \in (p + 1)..(p + m) PROVE V!IsDigit(s[i])
    <2>1. i - p \in 1..m /\ p + (i - p) = i
      BY SMT
    <2>2. PICK d \in 0..9 : s[i] = 48 + d
      BY <2>1, Zenon DEF DigitsAt
    <2>3. 48 + d \in 48..57
      BY SMT
    <2>. QED
      BY <2>2, <2>3, Zenon DEF V!IsDigit
  <1>. QED
    BY <1>1, Zenon DEF V!Digits

(* parse_date() of a date where it belongs.                                *)
LEMMA DateParsed ==
  ASSUME NEW s, NEW d \in Date, DateAt(s, d), Len(s) \in Nat, 10 <= Len(s)
  PROVE  V!IsDate(s) /\ V!parse_date(s) = d
  <1>1. /\ 0 \in Nat /\ 5 \in Nat /\ 8 \in Nat /\ 4 \in Nat /\ 2 \in Nat
        /\ 0 + 4 <= Len(s) /\ 5 + 2 <= Len(s) /\ 8 + 2 <= Len(s)
    BY SMT
  <1>2. V!Digits(s, 0, 4) /\ V!Digits(s, 5, 2) /\ V!Digits(s, 8, 2)
    BY <1>1, FoundDigits, Zenon DEF DateAt
  <1>3. V!expect(s, 4, 45) /\ V!expect(s, 7, 45)
    <2>1. 4 < Len(s) /\ 7 < Len(s) /\ 4 + 1 = 5 /\ 7 + 1 = 8
      BY SMT
    <2>2. s[5] = 45 /\ s[8] = 45
      BY Zenon DEF DateAt
    <2>. QED
      BY SMT, <2>1, <2>2 DEF V!expect
  <1>4. V!IsDate(s)
    BY <1>2, <1>3, Zenon DEF V!IsDate, V!Dash
  <1>5. d.year \in Year /\ d.month \in 0..99 /\ d.day \in 0..99
    BY SMT DEF Date
  <1>6. V!read_digits(s, 0, 4) = d.year
    <2>1. DigitsAt(s, 0, d.year, 4)
      BY Zenon DEF DateAt
    <2>. QED
      BY <1>1, <1>5, <2>1, ReadFour, Zenon
  <1>7. V!read_digits(s, 5, 2) = d.month /\ V!read_digits(s, 8, 2) = d.day
    <2>1. DigitsAt(s, 5, d.month, 2) /\ DigitsAt(s, 8, d.day, 2)
      BY Zenon DEF DateAt
    <2>2. d.month \in 0..99 /\ d.day \in 0..99
      BY SMT, <1>5
    <2>. QED
      BY <1>1, <2>1, <2>2, ReadTwo, Zenon
  <1>8. d = [year |-> d.year, month |-> d.month, day |-> d.day]
    BY SMT DEF Date
  <1>. QED
    BY <1>4, <1>6, <1>7, <1>8, Zenon DEF V!parse_date

(* parse_time() of a time where it belongs.                                *)
LEMMA TimeParsed ==
  ASSUME NEW s, NEW p \in Nat, NEW t \in Time, TimeAt(s, p, t), Len(s) \in Nat, p + 8 <= Len(s)
  PROVE  V!IsTime(s, p) /\ V!parse_time(s, p) = t
  <1>1. /\ p \in Nat /\ p + 3 \in Nat /\ p + 6 \in Nat /\ 2 \in Nat
        /\ p + 2 <= Len(s) /\ (p + 3) + 2 <= Len(s) /\ (p + 6) + 2 <= Len(s)
    BY SMT
  <1>2. V!Digits(s, p, 2) /\ V!Digits(s, p + 3, 2) /\ V!Digits(s, p + 6, 2)
    BY <1>1, FoundDigits, Zenon DEF TimeAt
  <1>3. V!expect(s, p + 2, 58) /\ V!expect(s, p + 5, 58)
    <2>1. p + 2 < Len(s) /\ p + 5 < Len(s) /\ (p + 2) + 1 = p + 3 /\ (p + 5) + 1 = p + 6
      BY SMT
    <2>. QED
      BY <2>1, Zenon DEF V!expect, TimeAt
  <1>4. V!IsTime(s, p)
    BY <1>2, <1>3, Zenon DEF V!IsTime, V!Colon
  <1>5. t.hour \in 0..99 /\ t.minute \in 0..99 /\ t.second \in 0..99
    BY SMT DEF Time
  <1>6. V!read_digits(s, p, 2) = t.hour /\ V!read_digits(s, p + 3, 2) = t.minute /\ V!read_digits(s, p + 6, 2) = t.second
    <2>1. DigitsAt(s, p, t.hour, 2) /\ DigitsAt(s, p + 3, t.minute, 2) /\ DigitsAt(s, p + 6, t.second, 2)
      BY Zenon DEF TimeAt
    <2>. QED
      BY <1>1, <1>5, <2>1, ReadTwo, Zenon
  <1>7. t = [hour |-> t.hour, minute |-> t.minute, second |-> t.second]
    BY SMT DEF Time
  <1>. QED
    BY <1>4, <1>6, <1>7, Zenon DEF V!parse_time

(* A timestamp a format of fixed width can write, and where it stands.     *)
Stamp == [date : Date, time : Time, fraction : Below]
StampAt(s, v) == s[11] = 32 /\ DateAt(s, v.date) /\ TimeAt(s, 11, v.time)

(* parse_timestamp() of a timestamp with the fraction's first m digits,    *)
(* when the others are zeroes.                                             *)
LEMMA StampParsed ==
  ASSUME NEW s, NEW v \in Stamp, NEW m \in 1..9, StampAt(s, v), FractionAt(s, 19, v.fraction, m),
         Upper(v.fraction, 9 - m) = v.fraction
  PROVE  V!parse_timestamp(s) = v
  <1>1. v.date \in Date /\ v.time \in Time /\ v.fraction \in Below
    BY Zenon DEF Stamp
  <1>2. Len(s) \in Nat /\ 10 <= Len(s) /\ Len(s) > 10 /\ 11 + 8 <= Len(s) /\ 11 \in Nat /\ 19 \in Nat /\ 11 + 8 = 19
    <2>1. Len(s) = 19 + 1 + m
      BY Zenon DEF FractionAt
    <2>. QED
      BY SMT, <2>1
  <1>3. s[11] = 32 /\ DateAt(s, v.date) /\ TimeAt(s, 11, v.time)
    BY Zenon DEF StampAt
  <1>4. V!IsDate(s) /\ V!parse_date(s) = v.date
    BY <1>1, <1>2, <1>3, DateParsed, Zenon
  <1>5. V!IsTime(s, 11) /\ V!parse_time(s, 11) = v.time
    BY <1>1, <1>2, <1>3, TimeParsed, Zenon
  <1>6. V!read_fraction(s, 11 + 8) = v.fraction
    <2>1. V!read_fraction(s, 19) = v.fraction
      BY <1>1, <1>2, FractionRead, Zenon
    <2>. QED
      BY <1>2, <2>1, Zenon
  <1>7. (IF Len(s) > 10 /\ s[11] \in {V!Blank, 84} THEN 11 ELSE 10) = 11
    BY <1>2, <1>3, Zenon DEF V!Blank
  <1>8. v = [date |-> v.date, time |-> v.time, fraction |-> v.fraction]
    BY SMT DEF Stamp
  <1>. QED
    BY <1>4, <1>5, <1>6, <1>7, <1>8, ZenonT(40) DEF V!parse_timestamp

(* s starts as b does.                                                     *)
Starts(s, b, n) == \A i \in 1..n : s[i] = b[i]

(* Digits within the beginning stay.                                       *)
LEMMA DigitsStay ==
  ASSUME NEW s, NEW b, NEW l \in Nat, Starts(s, b, l), NEW p \in Nat, NEW n, NEW m \in Nat, p + m <= l,
         DigitsAt(b, p, n, m)
  PROVE  DigitsAt(s, p, n, m)
  <1>1. ASSUME NEW i \in 1..m PROVE s[p + i] = b[p + i]
    <2>1. p + i \in 1..l
      BY SMT
    <2>. QED
      BY <2>1, Zenon DEF Starts
  <1>. QED
    BY <1>1, Zenon DEF DigitsAt

(* And so does a whole timestamp.                                          *)
LEMMA StampStays ==
  ASSUME NEW s, NEW b, NEW v, Starts(s, b, 19), StampAt(b, v)
  PROVE  StampAt(s, v)
  <1>1. /\ 19 \in Nat /\ 0 \in Nat /\ 5 \in Nat /\ 8 \in Nat /\ 11 \in Nat /\ 11 + 3 \in Nat /\ 11 + 6 \in Nat /\ 2 \in Nat /\ 4 \in Nat
        /\ 0 + 4 <= 19 /\ 5 + 2 <= 19 /\ 8 + 2 <= 19 /\ 11 + 2 <= 19 /\ (11 + 3) + 2 <= 19 /\ (11 + 6) + 2 <= 19
        /\ 5 \in 1..19 /\ 8 \in 1..19 /\ 11 \in 1..19 /\ 11 + 3 \in 1..19 /\ 11 + 6 \in 1..19
    BY SMT
  <1>2. /\ b[11] = 32 /\ b[5] = 45 /\ b[8] = 45 /\ b[11 + 3] = 58 /\ b[11 + 6] = 58
    BY Zenon DEF StampAt, DateAt, TimeAt
  <1>3. /\ DigitsAt(b, 0, v.date.year, 4) /\ DigitsAt(b, 5, v.date.month, 2) /\ DigitsAt(b, 8, v.date.day, 2)
        /\ DigitsAt(b, 11, v.time.hour, 2) /\ DigitsAt(b, 11 + 3, v.time.minute, 2) /\ DigitsAt(b, 11 + 6, v.time.second, 2)
    BY Zenon DEF StampAt, DateAt, TimeAt
  <1>4. /\ s[11] = 32 /\ s[5] = 45 /\ s[8] = 45 /\ s[11 + 3] = 58 /\ s[11 + 6] = 58
    <2>1. \A i \in 1..19 : s[i] = b[i]
      BY Zenon DEF Starts
    <2>2. 5 \in 1..19 /\ 8 \in 1..19 /\ 11 \in 1..19 /\ 11 + 3 \in 1..19 /\ 11 + 6 \in 1..19
      BY SMT
    <2>3. s[5] = b[5] /\ s[8] = b[8] /\ s[11] = b[11]
      BY <2>1, <2>2, Zenon
    <2>4. s[11 + 3] = b[11 + 3] /\ s[11 + 6] = b[11 + 6]
      BY <2>1, <2>2, Zenon
    <2>. QED
      BY <1>2, <2>3, <2>4, Zenon
  <1>5. DigitsAt(s, 0, v.date.year, 4)
    BY <1>1, <1>3, DigitsStay, ZenonT(40)
  <1>6. DigitsAt(s, 5, v.date.month, 2)
    BY <1>1, <1>3, DigitsStay, ZenonT(40)
  <1>7. DigitsAt(s, 8, v.date.day, 2)
    BY <1>1, <1>3, DigitsStay, ZenonT(40)
  <1>8. DigitsAt(s, 11, v.time.hour, 2)
    BY <1>1, <1>3, DigitsStay, ZenonT(40)
  <1>9. DigitsAt(s, 11 + 3, v.time.minute, 2)
    BY <1>1, <1>3, DigitsStay, ZenonT(40)
  <1>10. DigitsAt(s, 11 + 6, v.time.second, 2)
    BY <1>1, <1>3, DigitsStay, ZenonT(40)
  <1>. QED
    BY <1>4, <1>5, <1>6, <1>7, <1>8, <1>9, <1>10, Zenon DEF StampAt, DateAt, TimeAt

(* The text of a timestamp up to its seconds.                              *)
Seconds(v) == V!format_date(v.date) \o <<V!Blank>> \o V!format_time(v.time)

(* Digits further on.                                                      *)
LEMMA DigitsMove ==
  ASSUME NEW s, NEW t, NEW l \in Nat, NEW e \in Nat, \A i \in 1..l : s[e + i] = t[i],
         NEW p \in Nat, NEW n, NEW m \in Nat, p + m <= l, DigitsAt(t, p, n, m)
  PROVE  DigitsAt(s, e + p, n, m)
  <1>1. ASSUME NEW i \in 1..m PROVE s[(e + p) + i] = t[p + i]
    <2>1. p + i \in 1..l /\ e + (p + i) = (e + p) + i
      BY SMT
    <2>. QED
      BY <2>1, Zenon
  <1>. QED
    BY <1>1, Zenon DEF DigitsAt

(* Its places.                                                             *)
LEMMA SecondsText ==
  ASSUME NEW v \in Stamp
  PROVE  Seconds(v) \in Seq(Int) /\ Len(Seconds(v)) = 19 /\ StampAt(Seconds(v), v)
  <1>1. v.date \in Date /\ v.time \in Time
    BY Zenon DEF Stamp
  <1>2. PICK d, t, e, a, b : d = V!format_date(v.date) /\ t = V!format_time(v.time) /\ e = <<32>> /\ a = d \o e /\ b = a \o t
    BY Zenon
  <1>3. b = Seconds(v)
    BY <1>2, Zenon DEF Seconds, V!Blank
  <1>4. /\ d \in Seq(Int) /\ Len(d) = 10 /\ d[5] = 45 /\ d[8] = 45
        /\ DigitsAt(d, 0, v.date.year, 4) /\ DigitsAt(d, 5, v.date.month, 2) /\ DigitsAt(d, 8, v.date.day, 2)
    BY <1>1, <1>2, DateText, ZenonT(40)
  <1>5. /\ t \in Seq(Int) /\ Len(t) = 8 /\ t[3] = 58 /\ t[6] = 58
        /\ DigitsAt(t, 0, v.time.hour, 2) /\ DigitsAt(t, 3, v.time.minute, 2) /\ DigitsAt(t, 6, v.time.second, 2)
    BY <1>1, <1>2, TimeText, ZenonT(40)
  <1>6. e \in Seq(Int) /\ Len(e) = 1 /\ e[1] = 32
    BY SMT, <1>2
  <1>7. Behind(a, d, 10, e, 1)
    BY <1>2, <1>4, <1>6, Joined, Zenon
  <1>8. a \in Seq(Int) /\ Len(a) = 11 /\ Starts(a, d, 10) /\ a[11] = 32
    <2>1. 10 + 1 = 11 /\ 1 \in 1..1
      BY SMT
    <2>2. a \in Seq(Int) /\ Len(a) = 10 + 1 /\ (\A i \in 1..10 : a[i] = d[i]) /\ a[10 + 1] = e[1]
      BY <1>7, <2>1, Zenon DEF Behind
    <2>3. Starts(a, d, 10)
      BY <2>2, Zenon DEF Starts
    <2>. QED
      BY SMT, <1>6, <2>2, <2>3
  <1>9. Behind(b, a, 11, t, 8)
    BY <1>2, <1>5, <1>8, Joined, ZenonT(40)
  <1>10. b \in Seq(Int) /\ Starts(b, a, 11) /\ \A i \in 1..8 : b[11 + i] = t[i]
    BY <1>9, Zenon DEF Behind, Starts
  <1>11. Len(b) = 19
    <2>1. Len(b) = 11 + 8
      BY <1>9, Zenon DEF Behind
    <2>. QED
      BY SMT, <2>1
  <1>12. Starts(b, d, 10) /\ b[11] = 32
    <2>1. \A i \in 1..10 : i \in 1..11
      BY SMT
    <2>2. 11 \in 1..11
      BY SMT
    <2>. QED
      BY <1>8, <1>10, <2>1, <2>2, Zenon DEF Starts
  <1>13. DateAt(b, v.date)
    <2>1. /\ 10 \in Nat /\ 0 \in Nat /\ 5 \in Nat /\ 8 \in Nat /\ 2 \in Nat /\ 4 \in Nat
          /\ 0 + 4 <= 10 /\ 5 + 2 <= 10 /\ 8 + 2 <= 10 /\ 5 \in 1..10 /\ 8 \in 1..10
      BY SMT
    <2>2. b[5] = 45 /\ b[8] = 45
      BY <1>4, <1>12, <2>1, Zenon DEF Starts
    <2>3. DigitsAt(b, 0, v.date.year, 4)
      BY <1>4, <1>12, <2>1, DigitsStay, ZenonT(40)
    <2>4. DigitsAt(b, 5, v.date.month, 2)
      BY <1>4, <1>12, <2>1, DigitsStay, ZenonT(40)
    <2>5. DigitsAt(b, 8, v.date.day, 2)
      BY <1>4, <1>12, <2>1, DigitsStay, ZenonT(40)
    <2>. QED
      BY <2>2, <2>3, <2>4, <2>5, Zenon DEF DateAt
  <1>14. TimeAt(b, 11, v.time)
    <2>1. /\ 8 \in Nat /\ 11 \in Nat /\ 0 \in Nat /\ 3 \in Nat /\ 6 \in Nat /\ 2 \in Nat
          /\ 0 + 2 <= 8 /\ 3 + 2 <= 8 /\ 6 + 2 <= 8 /\ 3 \in 1..8 /\ 6 \in 1..8
      BY SMT
    <2>2. b[11 + 3] = 58 /\ b[11 + 6] = 58
      BY <1>5, <1>10, <2>1, Zenon
    <2>3. DigitsAt(b, 11, v.time.hour, 2)
      <3>1. DigitsAt(b, 11 + 0, v.time.hour, 2)
        BY <1>5, <1>10, <2>1, DigitsMove, ZenonT(40)
      <3>2. 11 + 0 = 11
        BY SMT
      <3>. QED
        BY SMT, <3>1, <3>2
    <2>4. DigitsAt(b, 11 + 3, v.time.minute, 2)
      BY <1>5, <1>10, <2>1, DigitsMove, ZenonT(40)
    <2>5. DigitsAt(b, 11 + 6, v.time.second, 2)
      BY <1>5, <1>10, <2>1, DigitsMove, ZenonT(40)
    <2>. QED
      BY <2>2, <2>3, <2>4, <2>5, Zenon DEF TimeAt
  <1>. QED
    BY <1>3, <1>10, <1>11, <1>12, <1>13, <1>14, Zenon DEF StampAt

(* Fields of 16 bits, and a text of at most n characters.                  *)
Field == {n \in Nat : n < 65536}
WideStamp ==
  [date : [year : Field, month : Field, day : Field], time : [hour : Field, minute : Field, second : Field],
   fraction : Below]
Short(s, n) == s \in Seq(Int) /\ Len(s) \in Nat /\ Len(s) <= n

(* Short texts make a short one.                                           *)
LEMMA ShortJoin ==
  ASSUME NEW a, NEW b, NEW n \in Nat, NEW m \in Nat, Short(a, n), Short(b, m)
  PROVE  Short(a \o b, n + m)
  <1>1. a \in Seq(Int) /\ Len(a) \in Nat /\ Len(a) <= n /\ b \in Seq(Int) /\ Len(b) \in Nat /\ Len(b) <= m
    BY Zenon DEF Short
  <1>2. a \o b \in Seq(Int) /\ Len(a \o b) = Len(a) + Len(b)
    BY SMT, <1>1
  <1>3. Len(a) + Len(b) \in Nat /\ Len(a) + Len(b) <= n + m
    BY SMT, <1>1
  <1>. QED
    BY <1>2, <1>3, Zenon DEF Short

(* A field takes five places at most.                                      *)
LEMMA FieldShort ==
  ASSUME NEW n \in Field, NEW w \in {2, 4}
  PROVE  Short(V!Dec(n, w), 5)
  <1>1. n \in Nat /\ n < 100000 /\ n \in Below /\ n < Ten(5) /\ 5 \in 1..9
    BY SMT DEF Field, Below, Ten
  <1>2. PICK k : k = IF V!Places(n) < w THEN w ELSE V!Places(n)
    BY SMT
  <1>3. k \in 1..5
    <2>1. V!Places(n) \in 1..9 /\ V!Places(n) <= 5
      BY SMT, <1>1, PlacesOf, PlacesBound
    <2>. QED
      BY SMT, <1>2, <2>1
  <1>4. V!Dec(n, w) = [i \in 1..k |-> 48 + ((n \div Power(k - i)) % 10)]
    BY <1>2, Zenon DEF V!Dec, Power
  <1>5. ASSUME NEW i \in 1..k PROVE 48 + ((n \div Power(k - i)) % 10) \in Int
    <2>1. k - i \in 0..9
      BY SMT, <1>3
    <2>2. PICK e \in Nat : e = Power(k - i) /\ e # 0
      BY SMT, <2>1, TenPower
    <2>3. (n \div e) % 10 \in Int
      BY SMT, <1>1, <2>2
    <2>. QED
      BY SMT, <2>2, <2>3
  <1>6. V!Dec(n, w) \in [1..k -> Int] /\ k \in Nat
    BY SMT, <1>3, <1>4, <1>5
  <1>7. V!Dec(n, w) \in Seq(Int) /\ Len(V!Dec(n, w)) = k
    BY SMT, <1>6
  <1>. QED
    BY SMT, <1>3, <1>7 DEF Short

(* So do its separators one.                                               *)
LEMMA OneShort ==
  ASSUME NEW c \in Int
  PROVE  Short(<<c>>, 1)
  BY SMT DEF Short

(* Three fields of 16 bits with separators.                                *)
LEMMA ThreeShort ==
  ASSUME NEW f, NEW g, NEW h, NEW c \in Int, Short(f, 5), Short(g, 5), Short(h, 5)
  PROVE  Short(f \o <<c>> \o g \o <<c>> \o h, 17)
  <1>1. 1 \in Nat /\ 5 \in Nat /\ 6 \in Nat /\ 11 \in Nat /\ 12 \in Nat
    BY SMT
  <1>2. PICK t, u, v : t = f \o <<c>> /\ u = t \o g /\ v = u \o <<c>>
    BY Zenon
  <1>3. Short(<<c>>, 1)
    BY OneShort, Zenon
  <1>4. Short(t, 5 + 1)
    BY <1>1, <1>2, <1>3, ShortJoin, Zenon
  <1>5. Short(t, 6)
    BY SMT, <1>4
  <1>6. Short(u, 6 + 5)
    BY <1>1, <1>2, <1>5, ShortJoin, Zenon
  <1>7. Short(u, 11)
    BY SMT, <1>6
  <1>8. Short(v, 11 + 1)
    BY <1>1, <1>2, <1>3, <1>7, ShortJoin, Zenon
  <1>9. Short(v, 12)
    BY SMT, <1>8
  <1>10. Short(v \o h, 12 + 5)
    BY <1>1, <1>9, ShortJoin, Zenon
  <1>11. Short(v \o h, 17)
    BY SMT, <1>10
  <1>. QED
    BY <1>2, <1>11, Zenon

(* The text of any timestamp of such fields up to its seconds.             *)
LEMMA SecondsShort ==
  ASSUME NEW v \in WideStamp
  PROVE  Short(V!format_date(v.date), 17) /\ Short(Seconds(v), 35)
  <1>1. /\ v.date \in [year : Field, month : Field, day : Field]
        /\ v.time \in [hour : Field, minute : Field, second : Field]
    BY Zenon DEF WideStamp
  <1>2. /\ v.date.year \in Field /\ v.date.month \in Field /\ v.date.day \in Field
        /\ v.time.hour \in Field /\ v.time.minute \in Field /\ v.time.second \in Field
    BY SMT, <1>1
  <1>3. /\ Short(V!Dec(v.date.year, 4), 5) /\ Short(V!Dec(v.date.month, 2), 5) /\ Short(V!Dec(v.date.day, 2), 5)
        /\ Short(V!Dec(v.time.hour, 2), 5) /\ Short(V!Dec(v.time.minute, 2), 5) /\ Short(V!Dec(v.time.second, 2), 5)
    <2>1. 2 \in {2, 4} /\ 4 \in {2, 4}
      BY SMT
    <2>. QED
      BY <1>2, <2>1, FieldShort, Zenon
  <1>4. 45 \in Int /\ 58 \in Int /\ 32 \in Int /\ 17 \in Nat /\ 1 \in Nat /\ 18 \in Nat
    BY SMT
  <1>5. Short(V!format_date(v.date), 17)
    BY <1>3, <1>4, ThreeShort, Zenon DEF V!format_date, V!Dash
  <1>6. Short(V!format_time(v.time), 17)
    BY <1>3, <1>4, ThreeShort, Zenon DEF V!format_time, V!Colon
  <1>7. PICK d, t, a : d = V!format_date(v.date) /\ t = V!format_time(v.time) /\ a = d \o <<32>>
    BY Zenon
  <1>8. Short(a, 17 + 1)
    <2>1. Short(<<32>>, 1)
      BY <1>4, OneShort, Zenon
    <2>. QED
      BY <1>4, <1>5, <1>7, <2>1, ShortJoin, Zenon
  <1>9. Short(a, 18)
    BY SMT, <1>8
  <1>10. Short(a \o t, 18 + 17)
    BY <1>4, <1>6, <1>7, <1>9, ShortJoin, Zenon
  <1>11. Short(a \o t, 35)
    BY SMT, <1>10
  <1>12. Seconds(v) = a \o t
    BY <1>7, Zenon DEF Seconds, V!Blank
  <1>. QED
    BY <1>5, <1>11, <1>12, Zenon

(* Nothing but zeroes up to l behind place k.                              *)
TrimmedTo(s, first, l, k) == (k = first \/ s[k] # 48) /\ \A i \in (k + 1)..l : s[i] = 48

(* The place trim_fraction() stops at.                                     *)
LEMMA TrimPlace ==
  ASSUME NEW s, NEW first \in Nat, NEW l \in Nat, first <= l
  PROVE  \E k \in first..l : TrimmedTo(s, first, l, k)
  <1>1. PICK S : S = {j \in Nat : j <= l - first /\ (j = l - first \/ s[l - j] # 48)}
    BY Zenon
  <1>2. S \in SUBSET Nat /\ S # {}
    <2>1. l - first \in Nat /\ l - first <= l - first
      BY SMT
    <2>2. l - first \in S
      BY <1>1, <2>1, Zenon
    <2>3. S \subseteq Nat
      BY <1>1, Zenon
    <2>. QED
      BY <2>2, <2>3, Zenon
  <1>3. PICK j \in S : \A m \in S : j <= m
    BY <1>2, LeastNumber, Zenon
  <1>4. j \in Nat /\ j <= l - first /\ (j = l - first \/ s[l - j] # 48)
    BY <1>1, <1>3, Zenon
  <1>5. PICK k \in first..l : k = l - j /\ (j = l - first => k = first)
    BY SMT, <1>4
  <1>6. ASSUME NEW i \in (k + 1)..l, s[i] # 48 PROVE FALSE
    <2>1. l - i \in Nat /\ l - i <= l - first /\ l - (l - i) = i /\ ~(j <= l - i)
      BY SMT, <1>4, <1>5
    <2>2. l - i \in S
      BY <1>1, <1>6, <2>1, Zenon
    <2>. QED
      BY <1>3, <2>1, <2>2, Zenon
  <1>7. k = first \/ s[k] # 48
    BY <1>4, <1>5, Zenon
  <1>. QED
    BY <1>6, <1>7, Zenon DEF TrimmedTo

(* A text that fits its buffer is all there.                               *)
LEMMA Buffered ==
  ASSUME NEW s, NEW c \in Nat, s \in Seq(Int), Len(s) \in Nat, Len(s) < c
  PROVE  V!InBuffer(s, c) = s
  <1>1. V!written_len(Len(s), c) = Len(s)
    BY Zenon DEF V!written_len
  <1>2. SubSeq(s, 1, Len(s)) = s
    BY SMT
  <1>. QED
    BY <1>1, <1>2, Zenon DEF V!InBuffer

(* The fraction's text, and the whole in front of it.                      *)
FractionText(f) == <<V!Dot>> \o V!Dec(f, 9)
Whole(v) == Seconds(v) \o FractionText(v.fraction)

(* What it is made of.                                                     *)
LEMMA FractionIs ==
  ASSUME NEW f \in Below
  PROVE  /\ FractionText(f) \in Seq(Int) /\ Len(FractionText(f)) = 10 /\ FractionText(f)[1] = 46
         /\ \A i \in 1..9 : FractionText(f)[1 + i] = 48 + Digit(f, 9 - i) /\ Digit(f, 9 - i) \in 0..9
  <1>1. PICK d, e, t : d = V!Dec(f, 9) /\ e = <<46>> /\ t = e \o d
    BY Zenon
  <1>2. f \in Nat /\ f < Ten(9) /\ 9 \in 1..9
    BY SMT DEF Below, Ten
  <1>3. d \in Seq(Int) /\ Len(d) = 9 /\ DigitsAt(d, 0, f, 9)
    BY <1>1, <1>2, FieldText, Zenon
  <1>4. e \in Seq(Int) /\ Len(e) = 1 /\ e[1] = 46
    BY SMT, <1>1
  <1>5. Behind(t, e, 1, d, 9)
    BY <1>1, <1>3, <1>4, Joined, ZenonT(40)
  <1>6. t \in Seq(Int) /\ Len(t) = 1 + 9 /\ (\A i \in 1..1 : t[i] = e[i]) /\ \A i \in 1..9 : t[1 + i] = d[i]
    BY <1>5, Zenon DEF Behind
  <1>7. Len(t) = 10 /\ t[1] = 46
    BY SMT, <1>4, <1>6
  <1>8. \A i \in 1..9 : d[i] = 48 + Digit(f, 9 - i) /\ Digit(f, 9 - i) \in 0..9
    <2>1. \A i \in 1..9 : 0 + i = i
      BY SMT
    <2>. QED
      BY <1>3, <2>1, Zenon DEF DigitsAt
  <1>9. t = FractionText(f)
    BY <1>1, Zenon DEF FractionText, V!Dot
  <1>. QED
    BY <1>6, <1>7, <1>8, <1>9, Zenon

(* Where the parts of the whole text stand, and where the display's is cut.*)
WholeIs(v, l) ==
  /\ l \in Nat /\ l <= 35 /\ Whole(v) \in Seq(Int) /\ Len(Whole(v)) = l + 10
  /\ \A i \in 1..l : Whole(v)[i] = Seconds(v)[i]
  /\ \A i \in 1..10 : Whole(v)[l + i] = FractionText(v.fraction)[i]
CutAt(v, l, n) ==
  /\ V!DisplayTimestamp(v) = SubSeq(Whole(v), 1, n)
  /\ \A i \in (n + 1)..(l + 10) : Whole(v)[i] = 48

(* DisplayTimestamp(): the whole text, cut behind its last digit that is   *)
(* no zero, and behind the first digit at the earliest.                    *)
LEMMA Displayed ==
  ASSUME NEW v \in WideStamp, NEW l, l = Len(Seconds(v))
  PROVE  WholeIs(v, l) /\ \E n \in (l + 2)..(l + 10) : CutAt(v, l, n)
  <1>1. PICK b, f, t : b = Seconds(v) /\ f = FractionText(v.fraction) /\ t = Whole(v)
    BY Zenon
  <1>2. b \in Seq(Int) /\ l \in Nat /\ l <= 35 /\ l = Len(b)
    <2>1. Short(b, 35)
      BY <1>1, SecondsShort, Zenon
    <2>. QED
      BY <1>1, <2>1, Zenon DEF Short
  <1>3. f \in Seq(Int) /\ Len(f) = 10
    <2>1. v.fraction \in Below
      BY Zenon DEF WideStamp
    <2>. QED
      BY <1>1, <2>1, FractionIs, Zenon
  <1>4. Behind(t, b, l, f, 10)
    BY <1>1, <1>2, <1>3, Joined, Zenon DEF Whole
  <1>5. t \in Seq(Int) /\ Len(t) = l + 10 /\ (\A i \in 1..l : t[i] = b[i]) /\ \A i \in 1..10 : t[l + i] = f[i]
    BY <1>4, Zenon DEF Behind
  <1>6. V!InBuffer(b, 48) = b
    <2>1. 48 \in Nat /\ l < 48
      BY SMT, <1>2
    <2>. QED
      BY <1>2, <2>1, Buffered, Zenon
  <1>7. V!InBuffer(f, 48 - l) = f
    <2>1. 48 - l \in Nat /\ 10 < 48 - l /\ 10 \in Nat
      BY SMT, <1>2
    <2>. QED
      BY <1>3, <2>1, Buffered, Zenon
  <1>8. V!DisplayTimestamp(v) = SubSeq(t, 1, V!trim_fraction(t, l + 1))
    <2>1. V!DisplayTimestamp(v) = V!append_fraction(b, v.fraction, 48)
      BY <1>1, <1>6, Zenon DEF V!DisplayTimestamp, Seconds
    <2>2. b \o V!InBuffer(<<V!Dot>> \o V!Dec(v.fraction, 9), 48 - Len(b)) = t
      BY <1>1, <1>2, <1>7, Zenon DEF Whole, FractionText
    <2>. QED
      BY <1>2, <2>1, <2>2, Zenon DEF V!append_fraction
  <1>9. PICK k \in (l + 1)..(l + 10) :
           /\ V!trim_fraction(t, l + 1) = IF k = l + 1 THEN (l + 1) + 1 ELSE k
           /\ \A i \in (k + 1)..(l + 10) : t[i] = 48
    <2>1. l + 1 \in Nat /\ l + 10 \in Nat /\ l + 1 <= l + 10
      BY SMT, <1>2
    <2>2. Len(t) \in Nat /\ l + 1 <= Len(t)
      BY <1>5, <2>1, Zenon
    <2>3. \E k \in (l + 1)..Len(t) : TrimmedTo(t, l + 1, Len(t), k)
      BY <2>1, <2>2, TrimPlace, Zenon
    <2>4. PICK k : k = CHOOSE x \in (l + 1)..Len(t) : TrimmedTo(t, l + 1, Len(t), x)
      BY Zenon
    <2>5. k \in (l + 1)..Len(t) /\ TrimmedTo(t, l + 1, Len(t), k)
      BY <2>3, <2>4, Zenon
    <2>6. V!trim_fraction(t, l + 1) = IF k = l + 1 THEN (l + 1) + 1 ELSE k
      BY SMT, <2>4 DEF V!trim_fraction, TrimmedTo
    <2>7. k \in (l + 1)..(l + 10) /\ \A i \in (k + 1)..(l + 10) : t[i] = 48
      BY <1>5, <2>5, Zenon DEF TrimmedTo
    <2>. QED
      BY <2>6, <2>7, Zenon
  <1>10. PICK n : n = IF k = l + 1 THEN (l + 1) + 1 ELSE k
    BY Zenon
  <1>11. n \in (l + 2)..(l + 10) /\ \A i \in (n + 1)..(l + 10) : i \in (k + 1)..(l + 10)
    BY SMT, <1>2, <1>10
  <1>12. V!DisplayTimestamp(v) = SubSeq(t, 1, n) /\ \A i \in (n + 1)..(l + 10) : t[i] = 48
    BY <1>8, <1>9, <1>10, <1>11, Zenon
  <1>. QED
    BY <1>1, <1>2, <1>5, <1>11, <1>12, Zenon DEF WholeIs, CutAt

(* DisplayFits holds of every timestamp of 16-bit fields.                  *)
LEMMA Fits ==
  ASSUME NEW v \in WideStamp
  PROVE  Len(V!DisplayDate(v.date)) < 16 /\ Len(V!DisplayTimestamp(v)) < 48
  <1>1. Len(V!DisplayDate(v.date)) < 16
    <2>1. PICK s : s = V!format_date(v.date)
      BY Zenon
    <2>2. Short(s, 17)
      BY <2>1, SecondsShort, Zenon
    <2>3. s \in Seq(Int) /\ Len(s) \in Nat
      BY <2>2, Zenon DEF Short
    <2>4. PICK m : m = V!written_len(Len(s), 16)
      BY Zenon
    <2>5. m \in Nat /\ m < 16 /\ m <= Len(s)
      BY SMT, <2>3, <2>4 DEF V!written_len
    <2>6. Len(SubSeq(s, 1, m)) = m
      BY SMT, <2>3, <2>5
    <2>7. V!DisplayDate(v.date) = SubSeq(s, 1, m)
      BY <2>1, <2>4, Zenon DEF V!DisplayDate, V!InBuffer
    <2>. QED
      BY <2>5, <2>6, <2>7, Zenon
  <1>2. Len(V!DisplayTimestamp(v)) < 48
    <2>1. PICK l, t : l = Len(Seconds(v)) /\ t = Whole(v)
      BY Zenon
    <2>2. l \in Nat /\ l <= 35 /\ t \in Seq(Int) /\ Len(t) = l + 10
      BY <2>1, Displayed, Zenon DEF WholeIs
    <2>3. PICK n \in (l + 2)..(l + 10) : V!DisplayTimestamp(v) = SubSeq(t, 1, n)
      BY <2>1, Displayed, Zenon DEF CutAt
    <2>4. n \in Nat /\ n < 48 /\ n <= Len(t)
      BY SMT, <2>2
    <2>5. Len(SubSeq(t, 1, n)) = n
      BY SMT, <2>2, <2>4
    <2>. QED
      BY <2>3, <2>4, <2>5, Zenon
  <1>. QED
    BY <1>1, <1>2, Zenon

(* A fraction whose digits behind the first m are zeroes is what those m   *)
(* make.                                                                   *)
LEMMA ZeroTail ==
  ASSUME NEW f \in Below, NEW m \in 1..9, \A i \in (m + 1)..9 : Digit(f, 9 - i) = 0
  PROVE  Upper(f, 9 - m) = f
  <1>1. Upper(f, 0) = f
    BY SMT DEF Upper, Ten, Below
  <1>2. ASSUME NEW k \in 0..8, NEW j, j = k + 1, j <= 9 - m, k <= 9 - m => Upper(f, k) = f
        PROVE  Upper(f, j) = f
    <2>1. 9 - k \in (m + 1)..9 /\ 9 - (9 - k) = k /\ k <= 9 - m
      BY SMT, <1>2
    <2>2. Digit(f, k) = 0
      BY <2>1, Zenon
    <2>3. Upper(f, k) = Upper(f, k + 1) + Digit(f, k) * Ten(k) /\ Upper(f, k + 1) \in Nat
      BY OneDigit, Zenon
    <2>4. Ten(k) \in Nat
      <3>1. k \in 0..9
        BY SMT
      <3>. QED
        BY <3>1, TenPower, Zenon
    <2>5. Upper(f, k) = Upper(f, k + 1)
      BY SMT, <2>2, <2>3, <2>4
    <2>. QED
      BY <1>2, <2>1, <2>5, Zenon
  <1>10. 0 <= 9 - m => Upper(f, 0) = f
    BY <1>1, Zenon
  <1>11. 1 <= 9 - m => Upper(f, 1) = f
    <2>1. 0 \in 0..8 /\ 1 = 0 + 1
      BY SMT
    <2>. QED
      BY <1>2, <1>10, <2>1, Zenon
  <1>12. 2 <= 9 - m => Upper(f, 2) = f
    <2>1. 1 \in 0..8 /\ 2 = 1 + 1
      BY SMT
    <2>. QED
      BY <1>2, <1>11, <2>1, Zenon
  <1>13. 3 <= 9 - m => Upper(f, 3) = f
    <2>1. 2 \in 0..8 /\ 3 = 2 + 1
      BY SMT
    <2>. QED
      BY <1>2, <1>12, <2>1, Zenon
  <1>14. 4 <= 9 - m => Upper(f, 4) = f
    <2>1. 3 \in 0..8 /\ 4 = 3 + 1
      BY SMT
    <2>. QED
      BY <1>2, <1>13, <2>1, Zenon
  <1>15. 5 <= 9 - m => Upper(f, 5) = f
    <2>1. 4 \in 0..8 /\ 5 = 4 + 1
      BY SMT
    <2>. QED
      BY <1>2, <1>14, <2>1, Zenon
  <1>16. 6 <= 9 - m => Upper(f, 6) = f
    <2>1. 5 \in 0..8 /\ 6 = 5 + 1
      BY SMT
    <2>. QED
      BY <1>2, <1>15, <2>1, Zenon
  <1>17. 7 <= 9 - m => Upper(f, 7) = f
    <2>1. 6 \in 0..8 /\ 7 = 6 + 1
      BY SMT
    <2>. QED
      BY <1>2, <1>16, <2>1, Zenon
  <1>18. 8 <= 9 - m => Upper(f, 8) = f
    <2>1. 7 \in 0..8 /\ 8 = 7 + 1
      BY SMT
    <2>. QED
      BY <1>2, <1>17, <2>1, Zenon
  <1>20. PICK k \in {0, 1, 2, 3, 4, 5, 6, 7, 8} : k = 9 - m /\ k <= 9 - m
    BY SMT
  <1>. QED
    BY <1>10, <1>11, <1>12, <1>13, <1>14, <1>15, <1>16, <1>17, <1>18, <1>20, Zenon

(* A timestamp a format of fixed width can write has fields of 16 bits.    *)
LEMMA StampIsWide ==
  ASSUME NEW v \in Stamp
  PROVE  v \in WideStamp
  <1>1. Year \subseteq Field /\ 0..99 \subseteq Field
    BY SMT DEF Year, Field
  <1>2. Date \subseteq [year : Field, month : Field, day : Field]
    BY SMT, <1>1 DEF Date
  <1>3. Time \subseteq [hour : Field, minute : Field, second : Field]
    BY SMT, <1>1 DEF Time
  <1>. QED
    BY SMT, <1>2, <1>3 DEF Stamp, WideStamp

(* Its text, cut behind one of its fraction's digits with nothing but      *)
(* zeroes behind, reads as it.                                             *)
LEMMA CutParsed ==
  ASSUME NEW v \in Stamp, NEW n \in 21..29, \A i \in (n + 1)..29 : Whole(v)[i] = 48,
         NEW s, s = SubSeq(Whole(v), 1, n)
  PROVE  V!parse_timestamp(s) = v /\ V!IsDigit(s[Len(s)])
  <1>1. PICK b, t, f, x : b = Seconds(v) /\ t = Whole(v) /\ f = v.fraction /\ x = FractionText(v.fraction)
    BY Zenon
  <1>2. f \in Below /\ Len(b) = 19 /\ StampAt(b, v)
    BY <1>1, SecondsText, Zenon DEF Stamp
  <1>3. /\ t \in Seq(Int) /\ Len(t) = 19 + 10
        /\ \A i \in 1..19 : t[i] = b[i]
        /\ \A i \in 1..10 : t[19 + i] = x[i]
    <2>1. v \in WideStamp
      BY StampIsWide, Zenon
    <2>2. WholeIs(v, 19)
      BY <1>1, <1>2, <2>1, Displayed, Zenon
    <2>. QED
      BY <1>1, <2>2, Zenon DEF WholeIs
  <1>4. x[1] = 46 /\ \A i \in 1..9 : x[1 + i] = 48 + Digit(f, 9 - i) /\ Digit(f, 9 - i) \in 0..9
    BY <1>1, <1>2, FractionIs, Zenon
  <1>5. Len(s) = n /\ \A i \in 1..n : s[i] = t[i]
    <2>1. n \in Nat /\ n <= 19 + 10
      BY SMT
    <2>2. t \in Seq(Int) /\ n <= Len(t)
      BY <1>3, <2>1, Zenon
    <2>3. s = SubSeq(t, 1, n)
      BY <1>1, Zenon
    <2>. QED
      BY SMT, <2>1, <2>2, <2>3
  <1>6. PICK m \in 1..9 : m = n - 20 /\ n = (19 + 1) + m
    BY SMT
  <1>7. StampAt(s, v)
    <2>1. \A i \in 1..19 : i \in 1..n
      BY SMT
    <2>2. Starts(s, b, 19)
      BY <1>3, <1>5, <2>1, Zenon DEF Starts
    <2>. QED
      BY <1>2, <2>2, StampStays, Zenon
  <1>8. ASSUME NEW i \in 1..9 PROVE t[(19 + 1) + i] = 48 + Digit(f, 9 - i) /\ Digit(f, 9 - i) \in 0..9
    <2>1. 1 + i \in 1..10 /\ 19 + (1 + i) = (19 + 1) + i
      BY SMT
    <2>2. t[19 + (1 + i)] = x[1 + i]
      BY <1>3, <2>1, Zenon
    <2>3. t[(19 + 1) + i] = x[1 + i]
      BY SMT, <2>1, <2>2
    <2>. QED
      BY <1>4, <2>3, Zenon
  <1>9. FractionAt(s, 19, f, m)
    <2>1. 19 + 1 \in 1..n /\ 1 \in 1..10 /\ \A i \in 1..m : i \in 1..9 /\ (19 + 1) + i \in 1..n
      BY SMT, <1>6
    <2>2. s[19 + 1] = 46
      BY <1>3, <1>4, <1>5, <2>1, Zenon
    <2>3. \A i \in 1..m : s[(19 + 1) + i] = 48 + Digit(f, 9 - i) /\ Digit(f, 9 - i) \in 0..9
      BY <1>5, <1>8, <2>1, Zenon
    <2>. QED
      BY <1>5, <1>6, <2>2, <2>3, Zenon DEF FractionAt
  <1>10. Upper(f, 9 - m) = f
    <2>1. ASSUME NEW i \in (m + 1)..9 PROVE Digit(f, 9 - i) = 0
      <3>1. i \in 1..9 /\ (19 + 1) + i \in (n + 1)..29
        BY SMT, <1>6
      <3>2. t[(19 + 1) + i] = 48
        BY <1>1, <3>1, Zenon
      <3>3. PICK d \in 0..9 : d = Digit(f, 9 - i) /\ 48 = 48 + d
        BY <1>8, <3>1, <3>2, ZenonT(40)
      <3>. QED
        BY SMT, <3>3
    <2>. QED
      BY <1>2, <2>1, ZeroTail, Zenon
  <1>11. V!parse_timestamp(s) = v
    BY <1>1, <1>6, <1>7, <1>9, <1>10, StampParsed, Zenon
  <1>12. V!IsDigit(s[Len(s)])
    <2>1. m \in 1..m
      BY SMT
    <2>2. PICK d \in 0..9 : s[(19 + 1) + m] = 48 + d
      BY <1>9, <2>1, Zenon DEF FractionAt
    <2>3. 48 + d \in 48..57
      BY SMT
    <2>. QED
      BY <1>5, <1>6, <2>2, <2>3, Zenon DEF V!IsDigit
  <1>. QED
    BY <1>11, <1>12, Zenon

(* format_timestamp() and parse_timestamp(); and the display's text.       *)
LEMMA StampRoundTrip ==
  ASSUME NEW v \in Stamp
  PROVE  /\ V!parse_timestamp(V!format_timestamp(v)) = v
         /\ V!parse_timestamp(V!DisplayTimestamp(v)) = v
         /\ V!IsDigit(V!DisplayTimestamp(v)[Len(V!DisplayTimestamp(v))])
  <1>1. v \in WideStamp /\ Len(Seconds(v)) = 19 /\ Seconds(v) \in Seq(Int) /\ v.fraction \in Below
    BY StampIsWide, SecondsText, Zenon DEF Stamp
  <1>2. Whole(v) \in Seq(Int) /\ Len(Whole(v)) = 29
    <2>1. Whole(v) \in Seq(Int) /\ Len(Whole(v)) = 19 + 10
      BY <1>1, Displayed, Zenon DEF WholeIs
    <2>. QED
      BY SMT, <2>1
  <1>3. V!format_timestamp(v) = SubSeq(Whole(v), 1, 29)
    <2>1. SubSeq(Whole(v), 1, 29) = Whole(v)
      BY SMT, <1>2
    <2>2. PICK b, d : b = Seconds(v) /\ d = V!Dec(v.fraction, 9)
      BY Zenon
    <2>3. d \in Seq(Int)
      <3>1. v.fraction \in Nat /\ v.fraction < Ten(9) /\ 9 \in 1..9
        BY SMT, <1>1 DEF Below, Ten
      <3>. QED
        BY <2>2, <3>1, FieldText, Zenon
    <2>4. <<46>> \in Seq(Int)
      BY SMT
    <2>5. (b \o <<46>>) \o d = b \o (<<46>> \o d)
      <3>1. b \in Seq(Int)
        BY <1>1, <2>2, Zenon
      <3>. QED
        BY SMT, <2>3, <2>4, <3>1, ConcatAssociative
    <2>. QED
      BY <2>1, <2>2, <2>5, Zenon DEF V!format_timestamp, Seconds, Whole, FractionText, V!Dot
  <1>4. V!parse_timestamp(V!format_timestamp(v)) = v
    <2>1. 29 \in 21..29 /\ \A i \in (29 + 1)..29 : FALSE
      BY SMT
    <2>. QED
      BY <1>3, <2>1, CutParsed, Zenon
  <1>5. PICK n \in 21..29 : /\ V!DisplayTimestamp(v) = SubSeq(Whole(v), 1, n)
                            /\ \A i \in (n + 1)..29 : Whole(v)[i] = 48
    <2>1. PICK n \in (19 + 2)..(19 + 10) : /\ V!DisplayTimestamp(v) = SubSeq(Whole(v), 1, n)
                                           /\ \A i \in (n + 1)..(19 + 10) : Whole(v)[i] = 48
      BY <1>1, Displayed, ZenonT(40) DEF CutAt
    <2>2. n \in 21..29 /\ \A i \in (n + 1)..29 : i \in (n + 1)..(19 + 10)
      BY SMT
    <2>. QED
      BY <2>1, <2>2, ZenonT(40)
  <1>6. /\ V!parse_timestamp(V!DisplayTimestamp(v)) = v
        /\ V!IsDigit(V!DisplayTimestamp(v)[Len(V!DisplayTimestamp(v))])
    BY <1>5, CutParsed, ZenonT(40)
  <1>. QED
    BY <1>4, <1>6, Zenon

(* Inductive: the timestamp at hand has its fields, 16 bits of each.       *)
StampInv ==
  /\ ts \in [date : [year : Years \cup {2024}, month : Months \cup {1}, day : Months \cup {1}],
             time : [hour : Clock \cup {0}, minute : Clock \cup {0}, second : Clock \cup {0}],
             fraction : Fractions \cup {0}]
  /\ blob \in Seq(Bytes) /\ Len(blob) \in 0..MaxBytes

(* The values at hand stay in their sets.                                  *)
LEMMA StampStep ==
  ASSUME MaxBytes \in Nat
  PROVE  V!Spec => []StampInv
  <1>1. V!Init => StampInv
    <2>. SUFFICES ASSUME V!Init PROVE StampInv
      OBVIOUS
    <2>1. blob = <<>> /\ blob \in Seq(Bytes) /\ Len(blob) \in 0..MaxBytes
      BY SMT DEF V!Init
    <2>2. ts = [date |-> [year |-> 2024, month |-> 1, day |-> 1],
                time |-> [hour |-> 0, minute |-> 0, second |-> 0], fraction |-> 0]
      BY Zenon DEF V!Init
    <2>. QED
      BY SMT, <2>1, <2>2 DEF StampInv
  <1>2. StampInv /\ [V!Next]_(V!vars) => StampInv'
    <2>. SUFFICES ASSUME StampInv, [V!Next]_(V!vars) PROVE StampInv'
      OBVIOUS
    <2>1. CASE UNCHANGED V!vars
      BY SMT, <2>1 DEF V!vars, StampInv
    <2>2. CASE V!ChangeDate
      <3>1. PICK y \in Years, m \in Months, d1 \in Months : ts' = [ts EXCEPT !.date = [year |-> y, month |-> m, day |-> d1]]
        BY <2>2, Zenon DEF V!ChangeDate
      <3>2. blob' = blob
        BY <2>2, Zenon DEF V!ChangeDate
      <3>4. PICK r : r = [year |-> y, month |-> m, day |-> d1]
        BY Zenon
      <3>5. r \in [year : Years \cup {2024}, month : Months \cup {1}, day : Months \cup {1}]
        BY SMT, <3>4
      <3>6. ts' = [ts EXCEPT !.date = r]
        BY <3>1, <3>4, Zenon
      <3>. QED
        BY SMT, <3>2, <3>5, <3>6 DEF StampInv
    <2>3. CASE V!ChangeTime
      <3>1. PICK y \in Clock, m \in Clock, d \in Clock : ts' = [ts EXCEPT !.time = [hour |-> y, minute |-> m, second |-> d]]
        BY <2>3, Zenon DEF V!ChangeTime
      <3>2. blob' = blob
        BY <2>3, Zenon DEF V!ChangeTime
      <3>. QED
        BY SMT, <3>1, <3>2 DEF StampInv
    <2>4. CASE V!ChangeFraction
      <3>1. PICK y \in Fractions : ts' = [ts EXCEPT !.fraction = y]
        BY <2>4, Zenon DEF V!ChangeFraction
      <3>2. blob' = blob
        BY <2>4, Zenon DEF V!ChangeFraction
      <3>. QED
        BY SMT, <3>1, <3>2 DEF StampInv
    <2>5. CASE V!AddByte
      <3>1. PICK b \in Bytes : Len(blob) < MaxBytes /\ blob' = Append(blob, b) /\ ts' = ts
        BY <2>5, Zenon DEF V!AddByte
      <3>2. blob \in Seq(Bytes) /\ Len(blob) \in Nat
        BY SMT DEF StampInv
      <3>3. blob' \in Seq(Bytes) /\ Len(blob') \in 0..MaxBytes
        BY SMT, <3>1, <3>2
      <3>4. ts' = ts
        BY <3>1, Zenon
      <3>. QED
        BY SMT, <3>3, <3>4 DEF StampInv
    <2>. QED
      BY <2>1, <2>2, <2>3, <2>4, <2>5, Zenon DEF V!Next
  <1>. QED
    BY <1>1, <1>2, PTL DEF V!Spec

(* A timestamp reads back to the nanosecond, from what a parameter is sent *)
(* as and from what it is displayed as, whatever its date, time and        *)
(* fraction: for years of four digits and a clock of two, which is what    *)
(* the server has.                                                         *)
THEOREM TimestampsAreKept ==
  ASSUME MaxBytes \in Nat, Years \subseteq Year, Months \subseteq Field, Clock \subseteq 0..99, Fractions \subseteq Below
  PROVE  V!Spec => [](V!TimestampRoundTrip /\ V!DisplayExact)
  <1>1. StampInv => V!TimestampRoundTrip /\ V!DisplayExact
    <2>. SUFFICES ASSUME StampInv, V!Legible PROVE V!TimestampRoundTrip /\ V!DisplayExact
      BY Zenon DEF V!TimestampRoundTrip, V!DisplayExact
    <2>1. ts \in Stamp
      <3>1. PICK d, t : d = ts.date /\ t = ts.time
        BY Zenon
      <3>2. /\ d \in [year : Years \cup {2024}, month : Months \cup {1}, day : Months \cup {1}]
            /\ t \in [hour : Clock \cup {0}, minute : Clock \cup {0}, second : Clock \cup {0}]
            /\ ts.fraction \in Fractions \cup {0}
            /\ ts = [date |-> d, time |-> t, fraction |-> ts.fraction]
        BY SMT, <3>1 DEF StampInv
      <3>3. d.month < 100 /\ d.day < 100
        BY <3>1, Zenon DEF V!Legible
      <3>4. 2024 \in Year /\ {0, 1} \subseteq 0..99 /\ 0 \in Below /\ 1 \in Field
        BY SMT DEF Year, Below, Field
      <3>5. d.month \in Field /\ d.day \in Field /\ d.year \in Year /\ d = [year |-> d.year, month |-> d.month, day |-> d.day]
        BY SMT, <3>2, <3>4
      <3>6. d.month \in 0..99 /\ d.day \in 0..99
        BY SMT, <3>3, <3>5 DEF Field
      <3>7. d \in Date
        BY SMT, <3>5, <3>6 DEF Date
      <3>8. t \in Time
        BY SMT, <3>2, <3>4 DEF Time
      <3>9. ts.fraction \in Below
        BY SMT, <3>2, <3>4
      <3>. QED
        BY SMT, <3>2, <3>7, <3>8, <3>9 DEF Stamp
    <2>. QED
      BY <2>1, StampRoundTrip, Zenon DEF V!TimestampRoundTrip, V!DisplayExact
  <1>. QED
    BY <1>1, StampStep, PTL

(* No timestamp prints past the buffer behind it, whatever 16 bits a field *)
(* of it holds.                                                            *)
THEOREM DisplaysFit ==
  ASSUME MaxBytes \in Nat, Years \subseteq Field, Months \subseteq Field, Clock \subseteq Field, Fractions \subseteq Below
  PROVE  V!Spec => []V!DisplayFits
  <1>1. StampInv => V!DisplayFits
    <2>. SUFFICES ASSUME StampInv PROVE V!DisplayFits
      OBVIOUS
    <2>1. ts \in WideStamp
      <3>1. {0, 1, 2024} \subseteq Field /\ 0 \in Below
        BY SMT DEF Field, Below
      <3>2. Years \cup {2024} \subseteq Field /\ Months \cup {1} \subseteq Field /\ Clock \cup {0} \subseteq Field /\ Fractions \cup {0} \subseteq Below
        BY SMT, <3>1
      <3>. QED
        BY SMT, <3>2 DEF StampInv, WideStamp
    <2>. QED
      BY <2>1, Fits, Zenon DEF V!DisplayFits
  <1>. QED
    BY <1>1, StampStep, PTL

(* A binary value comes back byte for byte, up to the width of the column, *)
(* whatever its bytes and however many.                                    *)
THEOREM BlobsAreKept ==
  ASSUME MaxBytes \in Nat, Bytes \subseteq Octet
  PROVE  V!Spec => []V!BlobRoundTrip
  <1>1. StampInv => V!BlobRoundTrip
    <2>. SUFFICES ASSUME StampInv PROVE V!BlobRoundTrip
      OBVIOUS
    <2>1. blob \in Seq(Octet)
      BY SMT DEF StampInv
    <2>2. \A c \in 0..(MaxBytes + 1) : c \in Nat
      BY SMT
    <2>. QED
      BY <2>1, <2>2, ByteaRoundTrip, Zenon DEF V!BlobRoundTrip
  <1>. QED
    BY <1>1, StampStep, PTL

(* c counts the digits of h kept of s up to each place: dashes stand in    *)
(* front of a byte.                                                        *)
KeptOf(s, n, h, c) ==
  /\ n \in Nat /\ Len(s) = n /\ h \in Seq(Nat) /\ c[0] = 0
  /\ \A i \in 0..n : c[i] \in 0..Len(h)
  /\ \A i \in 1..n : \/ s[i] = 45 /\ c[i] = c[i - 1] /\ c[i - 1] % 2 = 0
                     \/ s[i] # 45 /\ c[i] = c[i - 1] + 1 /\ s[i] = h[c[i]]
Undashing(s, g) ==
  g = [i \in 0..Len(s) |->
         IF i = 0 THEN <<>> ELSE IF s[i] = 45 /\ Len(g[i - 1]) % 2 = 0 THEN g[i - 1] ELSE Append(g[i - 1], s[i])]
OneStep(s, d, e, i) == d = IF s[i] = 45 /\ Len(e) % 2 = 0 THEN e ELSE Append(e, s[i])

(* A beginning, and one character more of it.                              *)
LEMMA OneMore ==
  ASSUME NEW h \in Seq(Nat), NEW k \in Nat, k <= Len(h)
  PROVE  /\ Len(SubSeq(h, 1, k)) = k /\ SubSeq(h, 1, 0) = <<>>
         /\ \A j \in Nat : j = k + 1 /\ j <= Len(h) => SubSeq(h, 1, j) = Append(SubSeq(h, 1, k), h[j])
  BY SMT

(* Undashed() of a text of which the digits are kept.                      *)
LEMMA UndashedIs ==
  ASSUME NEW s, NEW n, NEW h, NEW c, KeptOf(s, n, h, c)
  PROVE  V!Undashed(s) = SubSeq(h, 1, c[n])
  <1>1. /\ n \in Nat /\ Len(s) = n /\ h \in Seq(Nat) /\ c[0] = 0
        /\ \A i \in 0..n : c[i] \in 0..Len(h)
        /\ \A i \in 1..n : \/ s[i] = 45 /\ c[i] = c[i - 1] /\ c[i - 1] % 2 = 0
                           \/ s[i] # 45 /\ c[i] = c[i - 1] + 1 /\ s[i] = h[c[i]]
    BY Zenon DEF KeptOf
  <1>2. PICK w : w = [i \in 0..n |-> SubSeq(h, 1, c[i])]
    BY Zenon
  <1>3. 0 \in 0..n /\ \A i \in 1..n : i \in 0..n /\ i - 1 \in 0..n /\ i # 0
    BY SMT, <1>1
  <1>4. w[0] = <<>>
    <2>1. 0 \in Nat /\ 0 <= Len(h)
      BY SMT, <1>1
    <2>. QED
      BY <1>1, <1>2, <1>3, <2>1, OneMore, Zenon
  <1>5. ASSUME NEW i \in 1..n PROVE OneStep(s, w[i], w[i - 1], i)
    <2>1. PICK k, j : k = c[i - 1] /\ j = c[i]
      BY Zenon
    <2>2. k \in 0..Len(h) /\ j \in 0..Len(h) /\ w[i - 1] = SubSeq(h, 1, k) /\ w[i] = SubSeq(h, 1, j)
      BY <1>1, <1>2, <1>3, <2>1, Zenon
    <2>3. k \in Nat /\ k <= Len(h) /\ j \in Nat /\ j <= Len(h)
      BY SMT, <1>1, <2>2
    <2>4. Len(w[i - 1]) = k /\ (j = k + 1 => w[i] = Append(w[i - 1], h[j]))
      <3>1. /\ Len(SubSeq(h, 1, k)) = k
            /\ \A x \in Nat : x = k + 1 /\ x <= Len(h) => SubSeq(h, 1, x) = Append(SubSeq(h, 1, k), h[x])
        BY <1>1, <2>3, OneMore, Zenon
      <3>. QED
        BY <2>2, <2>3, <3>1, Zenon
    <2>5. \/ s[i] = 45 /\ j = k /\ k % 2 = 0
          \/ s[i] # 45 /\ j = k + 1 /\ s[i] = h[j]
      BY <1>1, <2>1, Zenon
    <2>. QED
      BY <2>2, <2>4, <2>5, Zenon DEF OneStep
  <1>6. Undashing(s, w)
    <2>1. ASSUME NEW i \in 0..n
          PROVE  w[i] = IF i = 0 THEN <<>>
                        ELSE IF s[i] = 45 /\ Len(w[i - 1]) % 2 = 0 THEN w[i - 1] ELSE Append(w[i - 1], s[i])
      <3>1. CASE i = 0
        BY <1>4, <3>1, Zenon
      <3>2. CASE i # 0
        <4>1. i \in 1..n
          BY SMT, <3>2
        <4>. QED
          BY <1>5, <3>2, <4>1, Zenon DEF OneStep
      <3>. QED
        BY <3>1, <3>2, Zenon
    <2>. QED
      BY <1>1, <1>2, <2>1, Zenon DEF Undashing
  <1>7. PICK g : Undashing(s, g) /\ V!Undashed(s) = g[Len(s)]
    <2>1. PICK g : g = CHOOSE x : Undashing(s, x)
      BY Zenon
    <2>2. Undashing(s, g)
      BY <1>6, <2>1, Zenon
    <2>3. V!Undashed(s) = g[Len(s)]
      BY <2>1, Zenon DEF V!Undashed, V!Dash, Undashing
    <2>. QED
      BY <2>2, <2>3, Zenon
  <1>8. g[0] = <<>> /\ \A i \in 1..n : OneStep(s, g[i], g[i - 1], i)
    <2>1. PICK x : x = [i \in 0..Len(s) |->
                          IF i = 0 THEN <<>>
                          ELSE IF s[i] = 45 /\ Len(g[i - 1]) % 2 = 0 THEN g[i - 1] ELSE Append(g[i - 1], s[i])]
      BY Zenon
    <2>2. g = x
      BY <1>7, <2>1, Zenon DEF Undashing
    <2>3. x[0] = <<>> /\ \A i \in 1..n : OneStep(s, x[i], g[i - 1], i)
      BY <1>1, <1>3, <2>1, Zenon DEF OneStep
    <2>. QED
      BY <2>2, <2>3, Zenon
  <1>9. PICK S : S = {i \in Nat : i <= n => g[i] = w[i]}
    BY Zenon
  <1>10. S = Nat
    <2>1. 0 \in S
      BY <1>4, <1>8, <1>9, Zenon
    <2>2. ASSUME NEW i \in S PROVE i + 1 \in S
      <3>1. i \in Nat /\ i + 1 \in Nat
        BY SMT, <1>9
      <3>2. ASSUME i + 1 <= n PROVE g[i + 1] = w[i + 1]
        <4>1. PICK j \in 1..n : j = i + 1 /\ j - 1 = i /\ i <= n
          BY SMT, <1>1, <3>1, <3>2
        <4>2. g[i] = w[i]
          BY <1>9, <4>1, Zenon
        <4>. QED
          BY <1>5, <1>8, <4>1, <4>2, Zenon DEF OneStep
      <3>. QED
        BY <1>9, <3>1, <3>2, Zenon
    <2>3. S \in SUBSET Nat
      BY <1>9, Zenon
    <2>. QED
      BY <2>1, <2>2, <2>3, AllNumbers, Zenon
  <1>11. n \in S /\ n <= n
    BY SMT, <1>1, <1>10
  <1>12. g[n] = w[n]
    BY <1>9, <1>11, Zenon
  <1>13. n \in 0..n
    BY SMT, <1>1
  <1>. QED
    BY <1>1, <1>2, <1>7, <1>12, <1>13, Zenon

(* No digit is a dash.                                                     *)
LEMMA NoDash ==
  ASSUME NEW x \in Nat, V!IsHex(x)
  PROVE  x # 45 /\ x # 92
  BY SMT DEF V!IsHex, V!IsDigit

(* The digits of a guid in front of each place of its text, and its text.  *)
GuidDigits(i) == i - (IF i < 9 THEN 0 ELSE IF i < 14 THEN 1 ELSE IF i < 19 THEN 2 ELSE IF i < 24 THEN 3 ELSE 4)
GuidAt(h, i) == IF i \in {9, 14, 19, 24} THEN 45 ELSE h[GuidDigits(i)]
GuidUpTo(t, n, h) == t \in Seq(Int) /\ Len(t) = n /\ \A i \in 1..n : t[i] = GuidAt(h, i)

(* A part that goes behind the first n characters.                         *)
GuidStep(e, h, n, m) == e \in Seq(Int) /\ Len(e) = m /\ m \in Nat /\ \A j \in 1..m : e[j] = GuidAt(h, n + j)

(* A part more of it.                                                      *)
LEMMA GuidPart ==
  ASSUME NEW h, NEW n \in Nat, NEW t, NEW m \in Nat, NEW e, GuidUpTo(t, n, h), GuidStep(e, h, n, m)
  PROVE  GuidUpTo(t \o e, n + m, h)
  <1>1. t \in Seq(Int) /\ Len(t) = n /\ \A i \in 1..n : t[i] = GuidAt(h, i)
    BY Zenon DEF GuidUpTo
  <1>a. e \in Seq(Int) /\ Len(e) = m /\ m \in Nat /\ \A j \in 1..m : e[j] = GuidAt(h, n + j)
    BY Zenon DEF GuidStep
  <1>2. Behind(t \o e, t, n, e, m)
    BY <1>1, <1>a, Joined, Zenon
  <1>3. PICK x : x = t \o e
    BY Zenon
  <1>4. x \in Seq(Int) /\ Len(x) = n + m /\ (\A i \in 1..n : x[i] = t[i]) /\ \A j \in 1..m : x[n + j] = e[j]
    BY <1>2, <1>3, Zenon DEF Behind
  <1>5. ASSUME NEW i \in 1..(n + m) PROVE x[i] = GuidAt(h, i)
    <2>1. CASE i \in 1..n
      BY <1>1, <1>4, <2>1, Zenon
    <2>2. CASE i \notin 1..n
      <3>1. i - n \in 1..m /\ n + (i - n) = i
        BY SMT, <2>2
      <3>. QED
        BY <1>a, <1>4, <3>1, Zenon
    <2>. QED
      BY <2>1, <2>2, Zenon
  <1>. QED
    BY <1>3, <1>4, <1>5, Zenon DEF GuidUpTo

(* The elements of a sequence of known length.                             *)
LEMMA Elements ==
  ASSUME NEW S, NEW s \in Seq(S), NEW n, Len(s) = n
  PROVE  \A j \in 1..n : s[j] \in S
  OBVIOUS

(* The m digits from the a-th on.                                          *)
LEMMA DigitPart ==
  ASSUME NEW h \in Seq(Nat), Len(h) = 32, NEW a \in Nat, NEW m \in Nat, 1 <= a, a + m <= 33, NEW n \in Nat,
         \A j \in 1..m : GuidAt(h, n + j) = h[a + j - 1]
  PROVE  GuidStep(SubSeq(h, a, a + m - 1), h, n, m)
  <1>1. PICK b : b = a + m - 1
    BY Zenon
  <1>2. b \in Int /\ b - a + 1 = m /\ b <= 32
    BY SMT, <1>1
  <1>3. PICK e : e = SubSeq(h, a, b)
    BY Zenon
  <1>4. \A i \in a..b : h[i] \in Int
    <2>1. \A i \in a..b : i \in 1..32
      BY SMT, <1>2
    <2>2. \A x \in Nat : x \in Int
      BY SMT
    <2>. QED
      BY <2>1, <2>2, Elements, Zenon
  <1>5. /\ e \in Seq(Int) /\ Len(e) = IF a <= b THEN b - a + 1 ELSE 0
        /\ \A i \in 1..(b - a + 1) : e[i] = h[a + i - 1]
    <2>1. a \in Int
      BY SMT
    <2>2. b \in Int
      BY <1>2, Zenon
    <2>. QED
      BY <1>3, <1>4, <2>1, <2>2, SubSeqProperties
  <1>6. Len(e) = m
    BY SMT, <1>2, <1>5
  <1>. QED
    BY <1>1, <1>2, <1>3, <1>5, <1>6, Zenon DEF GuidStep

(* format_guid() puts them together.                                       *)
LEMMA GuidText ==
  ASSUME NEW g, NEW h \in Seq(Nat), Len(h) = 32, h = V!HexOf(g, V!Lower)
  PROVE  GuidUpTo(V!format_guid(g), 36, h)
  <1>1. PICK d, e1, e2, e3, e4, e5 :
           /\ d = <<45>> /\ e1 = SubSeq(h, 1, 8) /\ e2 = SubSeq(h, 9, 12) /\ e3 = SubSeq(h, 13, 16)
           /\ e4 = SubSeq(h, 17, 20) /\ e5 = SubSeq(h, 21, 32)
    BY Zenon
  <1>2. PICK t1, t2, t3, t4, t5, t6, t7, t8, t9 :
           /\ t1 = e1 /\ t2 = t1 \o d /\ t3 = t2 \o e2 /\ t4 = t3 \o d /\ t5 = t4 \o e3
           /\ t6 = t5 \o d /\ t7 = t6 \o e4 /\ t8 = t7 \o d /\ t9 = t8 \o e5
    BY Zenon
  <1>3. V!format_guid(g) = t9
    BY <1>1, <1>2, Zenon DEF V!format_guid, V!Dash
  <1>4. d \in Seq(Int) /\ Len(d) = 1 /\ 1 \in Nat /\ \A j \in 1..1 : d[j] = 45 /\ j = 1
    BY SMT, <1>1
  <1>5. ASSUME NEW n \in Nat, GuidAt(h, n + 1) = 45 PROVE GuidStep(d, h, n, 1)
    BY <1>4, <1>5, Zenon DEF GuidStep
  <1>6. GuidStep(e1, h, 0, 8)
    <2>1. 1 \in Nat /\ 8 \in Nat /\ 0 \in Nat /\ 1 <= 1 /\ 1 + 8 <= 33 /\ 1 + 8 - 1 = 8
      BY SMT
    <2>2. \A j \in 1..8 : GuidAt(h, 0 + j) = h[1 + j - 1]
      BY SMT DEF GuidAt, GuidDigits
    <2>3. GuidStep(SubSeq(h, 1, 1 + 8 - 1), h, 0, 8)
      BY <2>1, <2>2, DigitPart, Zenon
    <2>. QED
      BY <1>1, <2>1, <2>3, Zenon
  <1>7. GuidStep(e2, h, 9, 4)
    <2>1. 9 \in Nat /\ 4 \in Nat /\ 9 \in Nat /\ 1 <= 9 /\ 9 + 4 <= 33 /\ 9 + 4 - 1 = 12
      BY SMT
    <2>2. \A j \in 1..4 : GuidAt(h, 9 + j) = h[9 + j - 1]
      BY SMT DEF GuidAt, GuidDigits
    <2>3. GuidStep(SubSeq(h, 9, 9 + 4 - 1), h, 9, 4)
      BY <2>1, <2>2, DigitPart, Zenon
    <2>. QED
      BY <1>1, <2>1, <2>3, Zenon
  <1>8. GuidStep(e3, h, 14, 4)
    <2>1. 13 \in Nat /\ 4 \in Nat /\ 14 \in Nat /\ 1 <= 13 /\ 13 + 4 <= 33 /\ 13 + 4 - 1 = 16
      BY SMT
    <2>2. \A j \in 1..4 : GuidAt(h, 14 + j) = h[13 + j - 1]
      BY SMT DEF GuidAt, GuidDigits
    <2>3. GuidStep(SubSeq(h, 13, 13 + 4 - 1), h, 14, 4)
      BY <2>1, <2>2, DigitPart, Zenon
    <2>. QED
      BY <1>1, <2>1, <2>3, Zenon
  <1>9. GuidStep(e4, h, 19, 4)
    <2>1. 17 \in Nat /\ 4 \in Nat /\ 19 \in Nat /\ 1 <= 17 /\ 17 + 4 <= 33 /\ 17 + 4 - 1 = 20
      BY SMT
    <2>2. \A j \in 1..4 : GuidAt(h, 19 + j) = h[17 + j - 1]
      BY SMT DEF GuidAt, GuidDigits
    <2>3. GuidStep(SubSeq(h, 17, 17 + 4 - 1), h, 19, 4)
      BY <2>1, <2>2, DigitPart, Zenon
    <2>. QED
      BY <1>1, <2>1, <2>3, Zenon
  <1>10. GuidStep(e5, h, 24, 12)
    <2>1. 21 \in Nat /\ 12 \in Nat /\ 24 \in Nat /\ 1 <= 21 /\ 21 + 12 <= 33 /\ 21 + 12 - 1 = 32
      BY SMT
    <2>2. \A j \in 1..12 : GuidAt(h, 24 + j) = h[21 + j - 1]
      BY SMT DEF GuidAt, GuidDigits
    <2>3. GuidStep(SubSeq(h, 21, 21 + 12 - 1), h, 24, 12)
      BY <2>1, <2>2, DigitPart, Zenon
    <2>. QED
      BY <1>1, <2>1, <2>3, Zenon
  <1>11. GuidUpTo(t1, 8, h)
    <2>1. e1 \in Seq(Int) /\ Len(e1) = 8 /\ \A j \in 1..8 : e1[j] = GuidAt(h, 0 + j)
      BY <1>6, Zenon DEF GuidStep
    <2>2. \A j \in 1..8 : 0 + j = j
      BY SMT
    <2>. QED
      BY <1>2, <2>1, <2>2, Zenon DEF GuidUpTo
  <1>12. GuidUpTo(t2, 9, h)
    <2>1. 8 \in Nat /\ 1 \in Nat /\ 8 + 1 = 9 /\ GuidAt(h, 8 + 1) = 45
      BY SMT DEF GuidAt
    <2>2. GuidStep(d, h, 8, 1)
      BY <1>5, <2>1, Zenon
    <2>3. GuidUpTo(t1 \o d, 8 + 1, h)
      BY <1>11, <2>1, <2>2, GuidPart, Zenon
    <2>. QED
      BY <1>2, <2>1, <2>3, Zenon
  <1>13. GuidUpTo(t3, 13, h)
    <2>1. 9 \in Nat /\ 4 \in Nat /\ 9 + 4 = 13
      BY SMT
    <2>2. GuidUpTo(t2 \o e2, 9 + 4, h)
      BY <1>7, <1>12, <2>1, GuidPart, Zenon
    <2>. QED
      BY <1>2, <2>1, <2>2, Zenon
  <1>14. GuidUpTo(t4, 14, h)
    <2>1. 13 \in Nat /\ 1 \in Nat /\ 13 + 1 = 14 /\ GuidAt(h, 13 + 1) = 45
      BY SMT DEF GuidAt
    <2>2. GuidStep(d, h, 13, 1)
      BY <1>5, <2>1, Zenon
    <2>3. GuidUpTo(t3 \o d, 13 + 1, h)
      BY <1>13, <2>1, <2>2, GuidPart, Zenon
    <2>. QED
      BY <1>2, <2>1, <2>3, Zenon
  <1>15. GuidUpTo(t5, 18, h)
    <2>1. 14 \in Nat /\ 4 \in Nat /\ 14 + 4 = 18
      BY SMT
    <2>2. GuidUpTo(t4 \o e3, 14 + 4, h)
      BY <1>8, <1>14, <2>1, GuidPart, Zenon
    <2>. QED
      BY <1>2, <2>1, <2>2, Zenon
  <1>16. GuidUpTo(t6, 19, h)
    <2>1. 18 \in Nat /\ 1 \in Nat /\ 18 + 1 = 19 /\ GuidAt(h, 18 + 1) = 45
      BY SMT DEF GuidAt
    <2>2. GuidStep(d, h, 18, 1)
      BY <1>5, <2>1, Zenon
    <2>3. GuidUpTo(t5 \o d, 18 + 1, h)
      BY <1>15, <2>1, <2>2, GuidPart, Zenon
    <2>. QED
      BY <1>2, <2>1, <2>3, Zenon
  <1>17. GuidUpTo(t7, 23, h)
    <2>1. 19 \in Nat /\ 4 \in Nat /\ 19 + 4 = 23
      BY SMT
    <2>2. GuidUpTo(t6 \o e4, 19 + 4, h)
      BY <1>9, <1>16, <2>1, GuidPart, Zenon
    <2>. QED
      BY <1>2, <2>1, <2>2, Zenon
  <1>18. GuidUpTo(t8, 24, h)
    <2>1. 23 \in Nat /\ 1 \in Nat /\ 23 + 1 = 24 /\ GuidAt(h, 23 + 1) = 45
      BY SMT DEF GuidAt
    <2>2. GuidStep(d, h, 23, 1)
      BY <1>5, <2>1, Zenon
    <2>3. GuidUpTo(t7 \o d, 23 + 1, h)
      BY <1>17, <2>1, <2>2, GuidPart, Zenon
    <2>. QED
      BY <1>2, <2>1, <2>3, Zenon
  <1>19. GuidUpTo(t9, 36, h)
    <2>1. 24 \in Nat /\ 12 \in Nat /\ 24 + 12 = 36
      BY SMT
    <2>2. GuidUpTo(t8 \o e5, 24 + 12, h)
      BY <1>10, <1>18, <2>1, GuidPart, Zenon
    <2>. QED
      BY <1>2, <2>1, <2>2, Zenon
  <1>. QED
    BY <1>3, <1>19, Zenon

(* A guid reads back as written.                                           *)
LEMMA GuidIsKept ==
  ASSUME NEW g \in Seq(Octet), Len(g) = 16
  PROVE  V!parse_guid(V!format_guid(g)) = g
  <1>1. PICK h, s : h = V!HexOf(g, V!Lower) /\ s = V!format_guid(g)
    BY Zenon
  <1>2. /\ h \in Seq(Nat) /\ Len(h) = 32
        /\ (\A i \in 1..32 : V!IsHex(h[i]))
        /\ \A i \in 1..16 : V!ByteAt(h, 2 * i - 1) = g[i]
    <2>1. V!Lower \in Letters /\ 2 * 16 = 32
      BY SMT DEF Letters, V!Lower
    <2>2. HexShown(g, h)
      BY <1>1, <2>1, HexShows, Zenon
    <2>3. /\ h \in Seq(Nat) /\ Len(h) = 2 * Len(g)
          /\ (\A i \in 1..(2 * Len(g)) : V!IsHex(h[i]))
          /\ \A i \in 1..Len(g) : V!ByteAt(h, 2 * i - 1) = g[i]
      BY <2>2, Zenon DEF HexShown
    <2>. QED
      BY SMT, <2>1, <2>3
  <1>3. s \in Seq(Int) /\ Len(s) = 36 /\ \A i \in 1..36 : s[i] = GuidAt(h, i)
    BY <1>1, <1>2, GuidText, ZenonT(40) DEF GuidUpTo
  <1>4. PICK c : c = [i \in 0..36 |-> GuidDigits(i)]
    BY Zenon
  <1>5. KeptOf(s, 36, h, c)
    <2>1. 0 \in 0..36 /\ 36 \in Nat /\ GuidDigits(0) = 0 /\ \A i \in 0..36 : GuidDigits(i) \in 0..32
      BY SMT DEF GuidDigits
    <2>2. ASSUME NEW i \in 1..36
          PROVE  \/ s[i] = 45 /\ c[i] = c[i - 1] /\ c[i - 1] % 2 = 0
                 \/ s[i] # 45 /\ c[i] = c[i - 1] + 1 /\ s[i] = h[c[i]]
      <3>1. i \in 0..36 /\ i - 1 \in 0..36
        BY SMT
      <3>2. c[i] = GuidDigits(i) /\ c[i - 1] = GuidDigits(i - 1)
        BY <1>4, <3>1, Zenon
      <3>3. CASE i \in {9, 14, 19, 24}
        <4>1. GuidDigits(i) = GuidDigits(i - 1) /\ GuidDigits(i - 1) % 2 = 0
          BY SMT, <3>3 DEF GuidDigits
        <4>. QED
          BY <1>3, <3>2, <3>3, <4>1, Zenon DEF GuidAt
      <3>4. CASE i \notin {9, 14, 19, 24}
        <4>1. GuidDigits(i) = GuidDigits(i - 1) + 1 /\ GuidDigits(i) \in 1..32
          BY SMT, <3>4 DEF GuidDigits
        <4>2. s[i] = h[GuidDigits(i)]
          BY <1>3, <3>4, Zenon DEF GuidAt
        <4>a. \A j \in 1..32 : h[j] \in Nat
          BY <1>2, Elements, Zenon
        <4>3. h[GuidDigits(i)] \in Nat /\ V!IsHex(h[GuidDigits(i)])
          BY <1>2, <4>1, <4>a, Zenon
        <4>4. s[i] # 45
          BY <4>2, <4>3, NoDash, Zenon
        <4>. QED
          BY <3>2, <4>1, <4>2, <4>4, Zenon
      <3>. QED
        BY <3>3, <3>4, Zenon
    <2>. QED
      BY <1>2, <1>3, <1>4, <2>1, <2>2, Zenon DEF KeptOf
  <1>6. V!Undashed(s) = h
    <2>1. 36 \in 0..36 /\ GuidDigits(36) = 32
      BY SMT DEF GuidDigits
    <2>2. c[36] = 32
      BY <1>4, <2>1, Zenon
    <2>3. SubSeq(h, 1, 32) = h
      BY SMT, <1>2
    <2>. QED
      BY <1>5, <2>2, <2>3, UndashedIs, Zenon
  <1>7. Len(h) >= 32
    BY SMT, <1>2
  <1>8. V!parse_guid(s) = [i \in 1..16 |-> V!ByteAt(h, 2 * i - 1)]
    BY <1>2, <1>6, <1>7, Zenon DEF V!parse_guid
  <1>9. [i \in 1..16 |-> V!ByteAt(h, 2 * i - 1)] = [i \in 1..16 |-> g[i]]
    BY <1>2, Zenon
  <1>10. g = [i \in 1..16 |-> g[i]]
    BY SMT
  <1>. QED
    BY <1>1, <1>8, <1>9, <1>10, Zenon

(* The digits of a dump in front of each place of its text.                *)
DumpDigits(i) == i - i \div 3

(* How they count: a separator in front of every third digit but the       *)
(* first, always between two bytes.                                        *)
LEMMA DumpCount ==
  ASSUME NEW i \in Nat, i >= 1
  PROVE  /\ i % 3 = 0 => DumpDigits(i) = DumpDigits(i - 1) /\ DumpDigits(i - 1) % 2 = 0
         /\ i % 3 # 0 => DumpDigits(i) = DumpDigits(i - 1) + 1 /\ DumpDigits(i) = 2 * (i \div 3) + (i % 3)
  <1>1. PICK q, r : q = i \div 3 /\ r = i % 3
    BY Zenon
  <1>2. q \in Nat /\ r \in 0..2 /\ i = 3 * q + r
    BY SMT, <1>1
  <1>3. DumpDigits(i) = i - q
    BY <1>1, Zenon DEF DumpDigits
  <1>4. CASE r = 0
    <2>1. (i - 1) \div 3 = q - 1
      BY SMT, <1>2, <1>4
    <2>2. DumpDigits(i - 1) = (i - 1) - (q - 1)
      BY <2>1, Zenon DEF DumpDigits
    <2>3. (i - 1) - (q - 1) = 2 * q /\ i - q = 2 * q /\ (2 * q) % 2 = 0
      BY SMT, <1>2, <1>4
    <2>. QED
      BY <1>1, <1>3, <1>4, <2>2, <2>3, Zenon
  <1>5. CASE r # 0
    <2>1. (i - 1) \div 3 = q
      BY SMT, <1>2, <1>5
    <2>2. DumpDigits(i - 1) = (i - 1) - q
      BY <2>1, Zenon DEF DumpDigits
    <2>3. i - q = ((i - 1) - q) + 1 /\ i - q = 2 * q + r
      BY SMT, <1>2, <1>5
    <2>. QED
      BY <1>1, <1>3, <1>5, <2>2, <2>3, Zenon
  <1>. QED
    BY <1>4, <1>5, Zenon

(* Within the text, they are digits there are.                             *)
LEMMA DumpRange ==
  ASSUME NEW n \in Nat, n >= 1
  PROVE  /\ 3 * n - 1 \in Nat /\ DumpDigits(0) = 0 /\ DumpDigits(3 * n - 1) = 2 * n
         /\ \A i \in 0..(3 * n - 1) : DumpDigits(i) \in 0..(2 * n)
         /\ \A i \in 1..(3 * n - 1) : i % 3 # 0 => DumpDigits(i) \in 1..(2 * n)
  <1>1. ASSUME NEW i \in 0..(3 * n - 1)
        PROVE  DumpDigits(i) \in 0..(2 * n) /\ (i % 3 # 0 => DumpDigits(i) \in 1..(2 * n))
    <2>1. PICK q, r : q = i \div 3 /\ r = i % 3
      BY Zenon
    <2>2. q \in Nat /\ r \in 0..2 /\ i = 3 * q + r /\ i <= 3 * n - 1
      BY SMT, <2>1
    <2>3. DumpDigits(i) = i - q
      BY <2>1, Zenon DEF DumpDigits
    <2>4. i - q \in 0..(2 * n) /\ (r # 0 => i - q \in 1..(2 * n))
      BY SMT, <2>2
    <2>. QED
      BY <2>1, <2>3, <2>4, Zenon
  <1>2. 3 * n - 1 \in Nat /\ \A i \in 1..(3 * n - 1) : i \in 0..(3 * n - 1)
    BY SMT
  <1>3. DumpDigits(0) = 0
    BY SMT DEF DumpDigits
  <1>4. DumpDigits(3 * n - 1) = 2 * n
    <2>1. (3 * n - 1) \div 3 = n - 1
      BY SMT
    <2>2. (3 * n - 1) - (n - 1) = 2 * n
      BY SMT
    <2>. QED
      BY <2>1, <2>2, Zenon DEF DumpDigits
  <1>. QED
    BY <1>1, <1>2, <1>3, <1>4, Zenon

(* The text of a dump, place by place.                                     *)
DumpOf(s, m, h) == Len(s) = m /\ \A i \in 1..m : s[i] = IF i % 3 = 0 THEN 45 ELSE h[2 * (i \div 3) + (i % 3)]

(* to_hex() writes it.                                                     *)
LEMMA DumpText ==
  ASSUME NEW b, NEW m \in Nat, m = 3 * Len(b) - 1
  PROVE  DumpOf(V!to_hex(b, V!Dash), m, V!HexOf(b, V!Upper))
  <1>1. PICK F, h : F = [i \in 1..m |-> IF i % 3 = 0 THEN 45 ELSE h[2 * (i \div 3) + (i % 3)]] /\ h = V!HexOf(b, V!Upper)
    BY Zenon
  <1>2. V!to_hex(b, V!Dash) = F
    BY <1>1, Zenon DEF V!to_hex, V!Dash
  <1>3. DOMAIN F = 1..m
    BY <1>1, Zenon
  <1>4. Len(F) = m
    <2>1. F = [i \in 1..m |-> F[i]]
      BY <1>1, Zenon
    <2>. QED
      BY SMT, <2>1
  <1>5. \A i \in 1..m : F[i] = IF i % 3 = 0 THEN 45 ELSE h[2 * (i \div 3) + (i % 3)]
    BY <1>1, Zenon
  <1>. QED
    BY <1>1, <1>2, <1>4, <1>5, Zenon DEF DumpOf

(* Its digits are those of the value.                                      *)
LEMMA DumpUndashed ==
  ASSUME NEW b \in Seq(Octet), Len(b) >= 1, NEW h, h = V!HexOf(b, V!Upper)
  PROVE  V!Undashed(V!to_hex(b, V!Dash)) = h /\ HexShown(b, h)
  <1>1. PICK n, m, s : n = Len(b) /\ m = 3 * n - 1 /\ s = V!to_hex(b, V!Dash)
    BY Zenon
  <1>2. n \in Nat /\ n >= 1
    BY SMT, <1>1
  <1>3. HexShown(b, h)
    <2>1. V!Upper \in Letters
      BY Zenon DEF Letters
    <2>. QED
      BY <2>1, HexShows, Zenon
  <1>4. h \in Seq(Nat) /\ Len(h) = 2 * n /\ \A i \in 1..(2 * n) : V!IsHex(h[i])
    BY <1>1, <1>3, Zenon DEF HexShown
  <1>5. /\ m \in Nat /\ DumpDigits(0) = 0 /\ DumpDigits(m) = 2 * n
        /\ (\A i \in 0..m : DumpDigits(i) \in 0..(2 * n))
        /\ \A i \in 1..m : i % 3 # 0 => DumpDigits(i) \in 1..(2 * n)
    BY <1>1, <1>2, DumpRange, Zenon
  <1>6. Len(s) = m /\ \A i \in 1..m : s[i] = IF i % 3 = 0 THEN 45 ELSE h[2 * (i \div 3) + (i % 3)]
    <2>1. n = Len(b) /\ m = 3 * Len(b) - 1
      BY <1>1, Zenon
    <2>. QED
      BY <1>1, <1>5, <2>1, DumpText, Zenon DEF DumpOf
  <1>7. PICK c : c = [i \in 0..m |-> DumpDigits(i)]
    BY Zenon
  <1>8. \A j \in 1..(2 * n) : h[j] \in Nat
    BY <1>4, Elements, Zenon
  <1>9. ASSUME NEW i \in 1..m
        PROVE  \/ s[i] = 45 /\ c[i] = c[i - 1] /\ c[i - 1] % 2 = 0
               \/ s[i] # 45 /\ c[i] = c[i - 1] + 1 /\ s[i] = h[c[i]]
    <2>1. i \in 0..m /\ i - 1 \in 0..m /\ i \in Nat /\ i >= 1
      BY SMT, <1>5
    <2>2. c[i] = DumpDigits(i) /\ c[i - 1] = DumpDigits(i - 1)
      BY <1>7, <2>1, Zenon
    <2>3. /\ i % 3 = 0 => DumpDigits(i) = DumpDigits(i - 1) /\ DumpDigits(i - 1) % 2 = 0
          /\ i % 3 # 0 => DumpDigits(i) = DumpDigits(i - 1) + 1 /\ DumpDigits(i) = 2 * (i \div 3) + (i % 3)
      BY <2>1, DumpCount, Zenon
    <2>4. CASE i % 3 = 0
      BY <1>6, <2>2, <2>3, <2>4, Zenon
    <2>5. CASE i % 3 # 0
      <3>1. s[i] = h[DumpDigits(i)] /\ DumpDigits(i) \in 1..(2 * n)
        BY <1>5, <1>6, <2>3, <2>5, Zenon
      <3>2. h[DumpDigits(i)] \in Nat /\ V!IsHex(h[DumpDigits(i)])
        BY <1>4, <1>8, <3>1, Zenon
      <3>3. s[i] # 45
        BY <3>1, <3>2, NoDash, Zenon
      <3>. QED
        BY <2>2, <2>3, <2>5, <3>1, <3>3, Zenon
    <2>. QED
      BY <2>4, <2>5, Zenon
  <1>10. 0 \in 0..m /\ m \in 0..m
    BY SMT, <1>5
  <1>11. c[m] = 2 * n
    BY <1>5, <1>7, <1>10, Zenon
  <1>12. KeptOf(s, m, h, c)
    BY <1>4, <1>5, <1>6, <1>7, <1>9, <1>10, Zenon DEF KeptOf
  <1>13. V!Undashed(s) = SubSeq(h, 1, 2 * n)
    BY <1>11, <1>12, UndashedIs, Zenon
  <1>14. SubSeq(h, 1, 2 * n) = h
    BY SMT, <1>2, <1>4
  <1>. QED
    BY <1>1, <1>3, <1>13, <1>14, Zenon

(* Reading them back gives the value, if it is not longer than the column. *)
LEMMA DumpIsKept ==
  ASSUME NEW b \in Seq(Octet), Len(b) >= 1, NEW capacity \in Nat, Len(b) <= capacity
  PROVE  V!decode_bytea(V!Undashed(V!to_hex(b, V!Dash)), capacity) = b
  <1>1. PICK h : h = V!HexOf(b, V!Upper)
    BY Zenon
  <1>2. V!Undashed(V!to_hex(b, V!Dash)) = h /\ HexShown(b, h)
    BY <1>1, DumpUndashed, Zenon
  <1>3. h \in Seq(Nat) /\ Len(h) = 2 * Len(b) /\ \A i \in 1..(2 * Len(b)) : V!IsHex(h[i])
    BY <1>2, Zenon DEF HexShown
  <1>4. h[1] # 92
    <2>1. 1 \in 1..(2 * Len(b)) /\ \A j \in 1..Len(h) : h[j] \in Nat
      BY SMT, <1>3
    <2>2. h[1] \in Nat /\ V!IsHex(h[1])
      BY <1>3, <2>1, Zenon
    <2>. QED
      BY <2>2, NoDash, Zenon
  <1>5. V!decode_bytea(h, capacity) = DecodedHex(h, capacity)
    <2>1. Unprefixed(h) = h
      BY <1>4, Zenon DEF Unprefixed
    <2>. QED
      BY <2>1, DecodeSplit, Zenon
  <1>6. DecodedHex(h, capacity) = SubSeq(b, 1, IF Len(b) < capacity THEN Len(b) ELSE capacity)
    BY <1>2, ShownIsRead, Zenon
  <1>7. SubSeq(b, 1, IF Len(b) < capacity THEN Len(b) ELSE capacity) = b
    BY SMT
  <1>. QED
    BY <1>2, <1>5, <1>6, <1>7, Zenon

(* The bytes guids are made of.                                            *)
LEMMA GuidBytes ==
  ASSUME blob \in Seq(Octet)
  PROVE  V!Guid \in Seq(Octet) /\ Len(V!Guid) = 16
  <1>1. \A i \in 1..16 : (IF i <= Len(blob) THEN blob[i] ELSE 16 * (i - 1)) \in Octet
    <2>1. ASSUME NEW i \in 1..16 PROVE 16 * (i - 1) \in Octet
      BY SMT DEF Octet
    <2>2. ASSUME NEW i \in 1..16, i <= Len(blob) PROVE blob[i] \in Octet
      <3>1. i \in 1..Len(blob)
        BY <2>2
      <3>. QED
        BY <3>1, Elements, Zenon
    <2>. QED
      BY <2>1, <2>2, Zenon
  <1>2. V!Guid \in [1..16 -> Octet]
    BY <1>1, Zenon DEF V!Guid
  <1>3. PICK n : n = 16
    BY Zenon
  <1>4. \A g \in [1..n -> Octet] : n \in Nat => g \in Seq(Octet) /\ Len(g) = n
    OBVIOUS
  <1>5. n \in Nat
    BY SMT, <1>3
  <1>. QED
    BY <1>2, <1>3, <1>4, <1>5, Zenon

(* A guid written as text and read back is the same sixteen bytes, and the *)
(* dump of a binary value holds its bytes: their digits, read around the   *)
(* separators.                                                             *)
THEOREM DumpsAreFaithful ==
  ASSUME MaxBytes \in Nat, Bytes \subseteq Octet
  PROVE  V!Spec => [](V!GuidRoundTrip /\ V!HexFaithful)
  <1>1. StampInv => blob \in Seq(Octet) /\ Len(blob) <= MaxBytes
    BY SMT DEF StampInv
  <1>2. StampInv => V!GuidRoundTrip
    <2>. SUFFICES ASSUME StampInv PROVE V!GuidRoundTrip
      OBVIOUS
    <2>. QED
      BY <1>1, GuidBytes, GuidIsKept, Zenon DEF V!GuidRoundTrip
  <1>3. StampInv => V!HexFaithful
    <2>. SUFFICES ASSUME StampInv, blob # <<>> PROVE V!decode_bytea(V!Undashed(V!to_hex(blob, V!Dash)), MaxBytes) = blob
      BY Zenon DEF V!HexFaithful
    <2>1. blob \in Seq(Octet) /\ Len(blob) <= MaxBytes
      BY <1>1, Zenon
    <2>2. Len(blob) >= 1
      BY <2>1
    <2>. QED
      BY <2>1, <2>2, DumpIsKept, Zenon
  <1>. QED
    BY <1>2, <1>3, StampStep, PTL

(* f puts the texts of w together from the front.                          *)
FlatUpTo(w, f, n) == f = [i \in 1..n |-> IF i = 1 THEN w[i] ELSE f[i-1] \o w[i]]

(* There is such an f.                                                     *)
LEMMA FlatExists ==
  ASSUME NEW w, NEW n \in Nat
  PROVE  \E f : FlatUpTo(w, f, n)
  <1>1. PICK S : S = {m \in Nat : \E f : FlatUpTo(w, f, m)}
    OBVIOUS
  <1>2. 0 \in S
    <2>1. FlatUpTo(w, [i \in 1..0 |-> 0], 0)
      BY DEF FlatUpTo
    <2>. QED
      BY <1>1, <2>1
  <1>3. ASSUME NEW m \in S PROVE m + 1 \in S
    <2>1. PICK f : FlatUpTo(w, f, m)
      BY <1>1
    <2>2. PICK g : g = [i \in 1..(m + 1) |-> IF i = 1 THEN w[i] ELSE f[i-1] \o w[i]]
      OBVIOUS
    <2>3. m \in Nat
      BY <1>1
    <2>4. \A i \in 1..m : g[i] = f[i]
      <3>1. PICK h : h = [i \in 1..m |-> IF i = 1 THEN w[i] ELSE f[i-1] \o w[i]]
        OBVIOUS
      <3>2. \A i \in 1..m : h[i] = IF i = 1 THEN w[i] ELSE f[i-1] \o w[i]
        BY <3>1
      <3>3. \A i \in 1..m : g[i] = IF i = 1 THEN w[i] ELSE f[i-1] \o w[i]
        BY <2>2, <2>3
      <3>4. f = h
        BY <2>1, <3>1 DEF FlatUpTo
      <3>. QED
        BY <3>2, <3>3, <3>4
    <2>5. \A i \in 1..(m + 1) : i # 1 => i - 1 \in 1..m
      BY <2>3
    <2>6. \A i \in 1..(m + 1) : g[i] = IF i = 1 THEN w[i] ELSE g[i-1] \o w[i]
      BY <2>2, <2>4, <2>5
    <2>7. FlatUpTo(w, g, m + 1)
      BY <2>2, <2>6 DEF FlatUpTo
    <2>. QED
      BY <1>1, <2>3, <2>7
  <1>4. S = Nat
    BY <1>1, <1>2, <1>3, AllNumbers
  <1>. QED
    BY <1>1, <1>4

(* FlattenSeq() is the last of it.                                         *)
LEMMA Flattened ==
  ASSUME NEW w, Len(w) \in Nat, Len(w) # 0
  PROVE  \E f : FlatUpTo(w, f, Len(w)) /\ T!FlattenSeq(w) = f[Len(w)]
  <1>1. PICK g : g = [i \in 1..Len(w) |-> IF i = 1 THEN w[i] ELSE g[i-1] \o w[i]]
    BY FlatExists DEF FlatUpTo
  <1>2. PICK f : /\ f = [i \in 1..Len(w) |-> IF i = 1 THEN w[i] ELSE f[i-1] \o w[i]]
                 /\ T!FlattenSeq(w) = f[Len(w)]
    BY <1>1 DEF T!FlattenSeq
  <1>. QED
    BY <1>2 DEF FlatUpTo

(* A code point that is no surrogate.                                      *)
Scalar == Nat \ (55296..57343)

(* The character that starts at place i, and the places of a text where    *)
(* characters start, its end included.                                     *)
OneChar(s, i) ==
  /\ T!Announced(s[i]) \in 1..4 /\ i + T!Announced(s[i]) <= Len(s) + 1
  /\ \A j \in (i + 1)..(i + T!Announced(s[i]) - 1) : s[j] \in 128..191
  /\ s[i] = 237 => s[i + 1] < 160
Cuts(s, B) ==
  /\ s \in Seq(Nat) /\ B \subseteq 1..(Len(s) + 1) /\ 1 \in B /\ Len(s) + 1 \in B
  /\ \A i \in B : i # Len(s) + 1 => OneChar(s, i) /\ i + T!Announced(s[i]) \in B
  /\ \A i \in 1..Len(s) : i \notin B => s[i] \in 128..191

(* to_utf8() of one code point is one character.                           *)
LEMMA EncodedIsOne ==
  ASSUME NEW c \in Scalar, NEW e, e = T!Encoded(c)
  PROVE  /\ e \in Seq(Nat) /\ Len(e) \in 1..4 /\ T!Announced(e[1]) = Len(e)
         /\ \A j \in 2..Len(e) : e[j] \in 128..191
         /\ e[1] = 237 => e[2] < 160
  <1>1. c \in Nat /\ (c < 55296 \/ c > 57343)
    BY DEF Scalar
  <1>2. ASSUME NEW d \in Nat PROVE 128 + (d % 64) \in 128..191
    BY <1>2
  <1>3. CASE c < 128
    <2>1. e = <<c>>
      BY <1>1, <1>3 DEF T!Encoded
    <2>. QED
      BY <1>1, <1>3, <2>1 DEF T!Announced
  <1>4. CASE c >= 128 /\ c < 2048
    <2>1. e = <<192 + (c \div 64), 128 + ((c \div 1) % 64)>>
      BY <1>1, <1>4 DEF T!Encoded, T!Tail6
    <2>2. c \div 64 \in 2..31 /\ c \div 1 \in Nat
      BY <1>1, <1>4
    <2>3. 192 + (c \div 64) \in 194..223 /\ 128 + ((c \div 1) % 64) \in 128..191
      BY <1>2, <2>2
    <2>4. T!Announced(192 + (c \div 64)) = 2
      BY <2>3 DEF T!Announced
    <2>. QED
      BY <2>1, <2>3, <2>4
  <1>5. CASE c >= 2048 /\ c < 65536
    <2>1. e = <<224 + (c \div 4096), 128 + ((c \div 64) % 64), 128 + ((c \div 1) % 64)>>
      BY <1>1, <1>5 DEF T!Encoded, T!Tail6
    <2>2. c \div 4096 \in 0..15 /\ c \div 64 \in Nat /\ c \div 1 \in Nat
      BY <1>1, <1>5
    <2>3. /\ 224 + (c \div 4096) \in 224..239 /\ 128 + ((c \div 64) % 64) \in 128..191
          /\ 128 + ((c \div 1) % 64) \in 128..191
      BY <1>2, <2>2
    <2>4. T!Announced(224 + (c \div 4096)) = 3
      BY <2>3 DEF T!Announced
    <2>5. 224 + (c \div 4096) = 237 => 128 + ((c \div 64) % 64) < 160
      BY <1>1, <1>5
    <2>. QED
      BY <2>1, <2>3, <2>4, <2>5
  <1>6. CASE c >= 65536 /\ c <= 1114111
    <2>1. e = <<240 + (c \div 262144), 128 + ((c \div 4096) % 64), 128 + ((c \div 64) % 64), 128 + ((c \div 1) % 64)>>
      BY <1>1, <1>6 DEF T!Encoded, T!Tail6
    <2>2. c \div 262144 \in 0..4 /\ c \div 4096 \in Nat /\ c \div 64 \in Nat /\ c \div 1 \in Nat
      BY <1>1, <1>6
    <2>3. /\ 240 + (c \div 262144) \in 240..244 /\ 128 + ((c \div 4096) % 64) \in 128..191
          /\ 128 + ((c \div 64) % 64) \in 128..191 /\ 128 + ((c \div 1) % 64) \in 128..191
      BY <1>2, <2>2
    <2>4. T!Announced(240 + (c \div 262144)) = 4
      BY <2>3 DEF T!Announced
    <2>. QED
      BY <2>1, <2>3, <2>4
  <1>7. CASE c > 1114111
    <2>1. e = <<239, 191, 189>>
      BY <1>1, <1>7 DEF T!Encoded
    <2>2. T!Announced(239) = 3
      BY DEF T!Announced
    <2>. QED
      BY <2>1, <2>2
  <1>. QED
    BY <1>1, <1>3, <1>4, <1>5, <1>6, <1>7

(* A character more behind a text cut into characters.                     *)
LEMMA CutsAppend ==
  ASSUME NEW s, NEW B, Cuts(s, B), NEW c \in Scalar
  PROVE  \E D : Cuts(s \o T!Encoded(c), D)
  <1>1. PICK e : e = T!Encoded(c)
    OBVIOUS
  <1>2. /\ e \in Seq(Nat) /\ Len(e) \in 1..4 /\ T!Announced(e[1]) = Len(e)
        /\ \A j \in 2..Len(e) : e[j] \in 128..191
        /\ e[1] = 237 => e[2] < 160
    BY <1>1, EncodedIsOne, ZenonT(40)
  <1>3. PICK n, m : n = Len(s) /\ m = Len(e)
    OBVIOUS
  <1>4. s \in Seq(Nat) /\ n \in Nat /\ m \in 1..4 /\ B \subseteq 1..(n + 1) /\ 1 \in B /\ n + 1 \in B
    BY <1>2, <1>3, SMTT(20) DEF Cuts
  <1>5. PICK t : t = s \o e
    OBVIOUS
  <1>6. /\ t \in Seq(Nat) /\ Len(t) = n + m /\ \A i \in 1..n : t[i] = s[i]
        /\ \A j \in 1..m : t[n + j] = e[j]
    BY <1>2, <1>3, <1>4, <1>5
  <1>7. PICK D : D = B \cup {n + m + 1}
    OBVIOUS
  <1>8. D \subseteq 1..(Len(t) + 1) /\ 1 \in D /\ Len(t) + 1 \in D
    BY <1>4, <1>6, <1>7
  <1>9. ASSUME NEW i \in D, i # Len(t) + 1
        PROVE  OneChar(t, i) /\ i + T!Announced(t[i]) \in D
    <2>1. i \in B /\ i \in 1..(n + 1)
      BY <1>4, <1>6, <1>7, <1>9
    <2>2. CASE i # n + 1
      <3>1. i \in 1..n /\ t[i] = s[i] /\ OneChar(s, i) /\ i + T!Announced(s[i]) \in B
        BY <1>3, <1>4, <1>6, <2>1, <2>2 DEF Cuts
      <3>2. PICK a : a = T!Announced(s[i])
        OBVIOUS
      <3>3. /\ a \in 1..4 /\ i + a <= n + 1 /\ \A j \in (i + 1)..(i + a - 1) : s[j] \in 128..191
            /\ s[i] = 237 => s[i + 1] < 160
        BY <1>3, <3>1, <3>2 DEF OneChar
      <3>4. \A j \in (i + 1)..(i + a - 1) : t[j] \in 128..191
        <4>1. \A j \in (i + 1)..(i + a - 1) : j \in 1..n
          BY <1>4, <3>1, <3>3
        <4>. QED
          BY <1>6, <3>3, <4>1
      <3>5. t[i] = 237 => t[i + 1] < 160
        <4>1. T!Announced(237) = 3
          BY DEF T!Announced
        <4>2. s[i] = 237 => i + 1 \in 1..n
          BY <1>4, <3>1, <3>2, <3>3, <4>1
        <4>. QED
          BY <1>6, <3>1, <3>3, <4>2
      <3>6. i + a <= Len(t) + 1 /\ a = T!Announced(t[i]) /\ i + a \in D
        BY <1>4, <1>6, <1>7, <3>1, <3>2, <3>3
      <3>. QED
        BY <3>3, <3>4, <3>5, <3>6 DEF OneChar
    <2>3. CASE i = n + 1
      <3>1. t[i] = e[1] /\ T!Announced(t[i]) = m /\ i + m = n + m + 1
        BY <1>2, <1>3, <1>4, <1>6, <2>3
      <3>2. \A j \in (i + 1)..(i + m - 1) : t[j] \in 128..191
        <4>1. ASSUME NEW j \in (i + 1)..(i + m - 1) PROVE t[j] \in 128..191
          <5>1. j - n \in 2..m /\ n + (j - n) = j /\ j - n \in 1..m
            BY <1>4, <2>3
          <5>2. t[n + (j - n)] = e[j - n]
            BY <1>6, <5>1
          <5>. QED
            BY <1>2, <1>3, <5>1, <5>2
        <4>. QED
          BY <4>1
      <3>3. t[i] = 237 => t[i + 1] < 160
        <4>1. T!Announced(237) = 3
          BY DEF T!Announced
        <4>2. t[i] = 237 => m = 3
          BY <3>1, <4>1
        <4>3. m = 3 => t[n + 2] = e[2]
          BY <1>6
        <4>. QED
          BY <1>2, <1>4, <2>3, <3>1, <4>2, <4>3
      <3>4. i + m <= Len(t) + 1 /\ i + m \in D
        BY <1>4, <1>6, <1>7, <2>3
      <3>. QED
        BY <1>4, <3>1, <3>2, <3>3, <3>4 DEF OneChar
    <2>. QED
      BY <2>2, <2>3
  <1>10. ASSUME NEW i \in 1..Len(t), i \notin D PROVE t[i] \in 128..191
    <2>1. CASE i \in 1..n
      <3>1. i \notin B
        BY <1>7, <1>10
      <3>. QED
        BY <1>3, <1>6, <2>1, <3>1, ZenonT(40) DEF Cuts
    <2>2. CASE i \notin 1..n
      <3>1. i # n + 1
        BY <1>4, <1>7, <1>10
      <3>2. i - n \in 2..m /\ n + (i - n) = i /\ i - n \in 1..m
        <4>1. n \in Nat /\ m \in Nat /\ i \in 1..(n + m)
          BY <1>4, <1>6
        <4>. QED
          BY SMT, <2>2, <3>1, <4>1
      <3>3. t[n + (i - n)] = e[i - n]
        BY <1>6, <3>2
      <3>. QED
        BY <1>2, <1>3, <3>2, <3>3
    <2>. QED
      BY <2>1, <2>2
  <1>11. Cuts(t, D)
    BY <1>6, <1>8, <1>9, <1>10 DEF Cuts
  <1>. QED
    BY <1>1, <1>5, <1>11

(* The encoding of any wide string can be cut into characters.             *)
LEMMA Utf8Cut ==
  ASSUME NEW w \in Seq(Scalar)
  PROVE  \E B : Cuts(T!to_utf8(w), B)
  <1>1. PICK v : v = [k \in DOMAIN w |-> T!Encoded(w[k])]
    OBVIOUS
  <1>2. PICK n : n = Len(w)
    OBVIOUS
  <1>3. n \in Nat /\ DOMAIN w = 1..n /\ \A k \in 1..n : w[k] \in Scalar
    BY <1>2
  <1>4. v \in Seq({T!Encoded(w[k]) : k \in 1..n}) /\ Len(v) = n /\ \A k \in 1..n : v[k] = T!Encoded(w[k])
    <2>1. v \in [1..n -> {T!Encoded(w[k]) : k \in 1..n}] /\ \A k \in 1..n : v[k] = T!Encoded(w[k])
      BY <1>1, <1>3
    <2>. QED
      BY <1>3, <2>1
  <1>5. T!to_utf8(w) = T!FlattenSeq(v)
    BY <1>1 DEF T!to_utf8
  <1>6. Cuts(<<>>, {1})
    BY DEF Cuts
  <1>7. CASE n = 0
    <2>1. T!FlattenSeq(v) = v /\ v = <<>>
      BY <1>4, <1>7 DEF T!FlattenSeq
    <2>. QED
      BY <1>5, <1>6, <2>1
  <1>8. CASE n # 0
    <2>1. PICK f : FlatUpTo(v, f, n) /\ T!FlattenSeq(v) = f[n]
      BY <1>3, <1>4, <1>8, Flattened
    <2>2. \A i \in 1..n : f[i] = IF i = 1 THEN v[i] ELSE f[i-1] \o v[i]
      <3>1. PICK h : h = [i \in 1..n |-> IF i = 1 THEN v[i] ELSE f[i-1] \o v[i]]
        OBVIOUS
      <3>2. f = h
        BY <2>1, <3>1 DEF FlatUpTo
      <3>3. \A i \in 1..n : h[i] = IF i = 1 THEN v[i] ELSE f[i-1] \o v[i]
        BY <3>1
      <3>. QED
        BY <3>2, <3>3
    <2>3. PICK S : S = {m \in Nat : m + 1 <= n => \E B : Cuts(f[m + 1], B)}
      OBVIOUS
    <2>4. 0 \in S
      <3>1. 1 \in 1..n
        BY <1>3, <1>8
      <3>2. f[1] = T!Encoded(w[1]) /\ w[1] \in Scalar
        BY <1>3, <1>4, <2>2, <3>1
      <3>3. PICK c \in Scalar : c = w[1]
        BY <3>2
      <3>4. T!Encoded(c) \in Seq(Nat)
        BY EncodedIsOne
      <3>5. <<>> \o T!Encoded(c) = T!Encoded(c)
        BY <3>4
      <3>6. \E B : Cuts(<<>> \o T!Encoded(c), B)
        BY <1>6, CutsAppend
      <3>7. \E B : Cuts(f[0 + 1], B)
        BY <3>2, <3>3, <3>5, <3>6
      <3>. QED
        BY <2>3, <3>7
    <2>5. ASSUME NEW m \in S PROVE m + 1 \in S
      <3>1. m \in Nat /\ (m + 1 <= n => \E B : Cuts(f[m + 1], B))
        BY <2>3
      <3>2. CASE m + 2 <= n
        <4>1. PICK B : Cuts(f[m + 1], B)
          BY <1>3, <3>1, <3>2
        <4>2. m + 2 \in 1..n /\ m + 2 # 1 /\ (m + 2) - 1 = m + 1 /\ (m + 1) + 1 = m + 2
          BY <1>3, <3>1, <3>2
        <4>3. f[m + 2] = f[m + 1] \o v[m + 2]
          BY <2>2, <4>2
        <4>4. PICK c \in Scalar : c = w[m + 2] /\ v[m + 2] = T!Encoded(c)
          BY <1>3, <1>4, <4>2
        <4>5. \E D : Cuts(f[m + 1] \o T!Encoded(c), D)
          BY <4>1, CutsAppend
        <4>6. \E D : Cuts(f[(m + 1) + 1], D)
          BY <4>2, <4>3, <4>4, <4>5
        <4>. QED
          BY <2>3, <3>1, <4>6
      <3>3. CASE ~(m + 2 <= n)
        <4>1. ~((m + 1) + 1 <= n) /\ m + 1 \in Nat
          BY <1>3, <3>1, <3>3
        <4>. QED
          BY <2>3, <4>1
      <3>. QED
        BY <3>2, <3>3
    <2>6. S = Nat
      <3>1. S \in SUBSET Nat
        BY <2>3
      <3>. QED
        BY <2>4, <2>5, <3>1, AllNumbers
    <2>7. n - 1 \in S /\ (n - 1) + 1 = n
      BY <1>3, <1>8, <2>6
    <2>8. \E B : Cuts(f[n], B)
      BY <1>3, <2>3, <2>7
    <2>. QED
      BY <1>5, <2>1, <2>8
  <1>. QED
    BY <1>7, <1>8

(* The recursion of WellFormed(), and what solves it.                      *)
Char(s, f, i) ==
  LET n == T!Announced(s[i]) IN
  /\ n > 0 /\ i + n <= Len(s) + 1
  /\ \A j \in (i + 1)..(i + n - 1) : s[j] \in 128..191
  /\ s[i] = 237 => s[i + 1] < 160
  /\ f[i + n]
Ok(s, f) == f = [i \in 1..(Len(s) + 1) |-> i = Len(s) + 1 \/ Char(s, f, i)]

(* A solution is true wherever a character starts.                         *)
LEMMA CutsAreOk ==
  ASSUME NEW s, NEW B, Cuts(s, B), NEW f, Ok(s, f)
  PROVE  f[1] = TRUE
  <1>1. PICK n : n = Len(s)
    OBVIOUS
  <1>2. s \in Seq(Nat) /\ n \in Nat /\ B \subseteq 1..(n + 1) /\ 1 \in B /\ n + 1 \in B
    BY <1>1 DEF Cuts
  <1>3. \A i \in 1..(n + 1) : f[i] = (i = n + 1 \/ Char(s, f, i))
    <2>1. PICK h : h = [i \in 1..(n + 1) |-> i = n + 1 \/ Char(s, f, i)]
      OBVIOUS
    <2>2. f = h
      BY <1>1, <2>1 DEF Ok
    <2>3. \A i \in 1..(n + 1) : h[i] = (i = n + 1 \/ Char(s, f, i))
      BY <2>1
    <2>. QED
      BY <2>2, <2>3
  <1>4. PICK S : S = {m \in Nat : \E i \in B : m = n + 1 - i /\ ~(f[i] = TRUE)}
    OBVIOUS
  <1>5. S = {}
    <2>. SUFFICES ASSUME S # {} PROVE FALSE
      OBVIOUS
    <2>1. PICK m \in S : \A k \in S : m <= k
      <3>1. S \in SUBSET Nat
        BY <1>4
      <3>. QED
        BY <3>1, LeastNumber
    <2>2. PICK i \in B : m = n + 1 - i /\ ~(f[i] = TRUE)
      BY <1>4
    <2>3. i \in 1..(n + 1) /\ i # n + 1
      BY <1>2, <1>3, <2>2
    <2>4. OneChar(s, i) /\ i + T!Announced(s[i]) \in B
      BY <1>1, <2>3 DEF Cuts
    <2>5. PICK a : a = T!Announced(s[i])
      OBVIOUS
    <2>6. /\ a \in 1..4 /\ i + a <= n + 1 /\ i + a \in B
          /\ \A j \in (i + 1)..(i + a - 1) : s[j] \in 128..191
          /\ s[i] = 237 => s[i + 1] < 160
      BY <1>1, <2>4, <2>5 DEF OneChar
    <2>7. f[i + a] = TRUE
      <3>1. n + 1 - (i + a) \in Nat /\ ~(m <= n + 1 - (i + a))
        BY <1>2, <2>2, <2>3, <2>6
      <3>2. n + 1 - (i + a) \notin S
        BY <2>1, <3>1
      <3>. QED
        BY <1>4, <2>6, <3>1, <3>2
    <2>8. Char(s, f, i)
      BY <1>1, <2>5, <2>6, <2>7 DEF Char
    <2>9. f[i] = TRUE
      BY <1>3, <2>3, <2>8
    <2>. QED
      BY <2>2, <2>9
  <1>6. n + 1 - 1 \in Nat
    BY <1>2
  <1>. QED
    BY <1>2, <1>4, <1>5, <1>6

(* There is one: true at the starts, false at what continues.              *)
LEMMA OkExists ==
  ASSUME NEW s, NEW B, Cuts(s, B)
  PROVE  \E f : Ok(s, f)
  <1>1. PICK n : n = Len(s)
    OBVIOUS
  <1>2. s \in Seq(Nat) /\ n \in Nat /\ B \subseteq 1..(n + 1) /\ 1 \in B /\ n + 1 \in B
    BY <1>1 DEF Cuts
  <1>3. PICK f : f = [i \in 1..(n + 1) |-> i \in B]
    OBVIOUS
  <1>4. ASSUME NEW i \in 1..(n + 1) PROVE (i \in B) = (i = n + 1 \/ Char(s, f, i))
    <2>1. CASE i = n + 1
      BY <1>2, <2>1
    <2>2. CASE i # n + 1 /\ i \in B
      <3>1. OneChar(s, i) /\ i + T!Announced(s[i]) \in B
        BY <1>1, <2>2 DEF Cuts
      <3>2. PICK a : a = T!Announced(s[i])
        OBVIOUS
      <3>3. /\ a \in 1..4 /\ i + a <= n + 1 /\ i + a \in B /\ i + a \in 1..(n + 1)
            /\ \A j \in (i + 1)..(i + a - 1) : s[j] \in 128..191
            /\ s[i] = 237 => s[i + 1] < 160
        BY <1>1, <1>2, <3>1, <3>2 DEF OneChar
      <3>4. f[i + a] = TRUE
        BY <1>3, <3>3
      <3>5. Char(s, f, i)
        BY <1>1, <3>2, <3>3, <3>4 DEF Char
      <3>. QED
        BY <2>2, <3>5
    <2>3. CASE i # n + 1 /\ i \notin B
      <3>1. i \in 1..n
        BY <1>2, <2>3
      <3>2. s[i] \in 128..191
        BY <1>1, <2>3, <3>1 DEF Cuts
      <3>3. T!Announced(s[i]) = 0
        BY <3>2 DEF T!Announced
      <3>4. ~Char(s, f, i)
        BY <3>3 DEF Char
      <3>. QED
        BY <2>3, <3>4
    <2>. QED
      BY <2>1, <2>2, <2>3
  <1>5. f = [i \in 1..(n + 1) |-> i = n + 1 \/ Char(s, f, i)]
    BY <1>3, <1>4
  <1>6. Ok(s, f)
    BY <1>1, <1>5 DEF Ok
  <1>. QED
    BY <1>6

(* WellFormed() accepts what can be cut into characters.                   *)
LEMMA CutsWellFormed ==
  ASSUME NEW s, NEW B, Cuts(s, B)
  PROVE  T!WellFormed(s)
  <1>1. \E f : Ok(s, f)
    BY OkExists
  <1>2. T!WellFormed(s) = (CHOOSE f : Ok(s, f))[1]
    BY DEF T!WellFormed, Ok, Char
  <1>3. Ok(s, CHOOSE f : Ok(s, f))
    BY <1>1
  <1>4. (CHOOSE f : Ok(s, f))[1] = TRUE
    BY <1>3, CutsAreOk
  <1>. QED
    BY <1>2, <1>4

(* to_utf8() of any wide string without a surrogate is well-formed UTF-8,  *)
(* whatever its length and its code points.                                *)
THEOREM Utf8OfAnyText ==
  \A w \in Seq(Scalar) : T!WellFormed(T!to_utf8(w))
  BY Utf8Cut, CutsWellFormed

(* A set of places of a text has a last one.                               *)
LEMMA LastPlace ==
  ASSUME NEW n \in Nat, NEW S \in SUBSET (1..n), S # {}
  PROVE  T!Max(S) \in S /\ \A i \in S : T!Max(S) >= i
  <1>1. PICK R : R = {n - i : i \in S}
    OBVIOUS
  <1>2. R \in SUBSET Nat /\ R # {}
    <2>1. \A i \in S : i \in 1..n /\ n - i \in Nat
      OBVIOUS
    <2>2. R \subseteq Nat
      BY <1>1, <2>1
    <2>3. PICK i \in S : TRUE
      OBVIOUS
    <2>4. n - i \in R
      BY <1>1
    <2>. QED
      BY <2>2, <2>4
  <1>3. PICK r \in R : \A q \in R : r <= q
    BY <1>2, LeastNumber
  <1>4. PICK x \in S : r = n - x
    BY <1>1, <1>3
  <1>5. \A i \in S : x >= i
    <2>1. ASSUME NEW i \in S PROVE x >= i
      <3>1. n - i \in R /\ i \in Int /\ x \in Int
        BY <1>1
      <3>2. r <= n - i
        BY <1>3, <3>1
      <3>. QED
        BY <1>4, <3>1, <3>2
    <2>. QED
      BY <2>1
  <1>. QED
    BY <1>4, <1>5 DEF T!Max

(* Trimming from the right, of any text.                                   *)
LEMMA TrimRight ==
  ASSUME NEW s \in Seq(Nat), NEW t, t = T!trim_trailing_whitespace_view(s)
  PROVE  T!IsPrefix(t, s) /\ (t # <<>> => ~T!IsSpace(T!Last(t))) /\ T!Inked(t) = T!Inked(s)
  <1>1. PICK n : n = Len(s)
    OBVIOUS
  <1>2. n \in Nat /\ DOMAIN s = 1..n /\ T!Inked(s) = {i \in 1..n : ~T!IsSpace(s[i])}
    BY <1>1 DEF T!Inked
  <1>3. CASE T!Inked(s) = {}
    <2>1. t = <<>>
      BY <1>3 DEF T!trim_trailing_whitespace_view
    <2>2. T!Inked(<<>>) = {}
      BY DEF T!Inked
    <2>3. T!IsPrefix(<<>>, s)
      <3>1. Len(<<>>) = 0 /\ SubSeq(<<>>, 1, 0) = <<>> /\ SubSeq(s, 1, 0) = <<>>
        OBVIOUS
      <3>. QED
        BY <1>1, <1>2, <3>1 DEF T!IsPrefix
    <2>. QED
      BY <1>3, <2>1, <2>2, <2>3
  <1>4. CASE T!Inked(s) # {}
    <2>1. PICK m : m = T!Max(T!Inked(s))
      OBVIOUS
    <2>2. m \in T!Inked(s) /\ \A i \in T!Inked(s) : m >= i
      <3>1. T!Inked(s) \in SUBSET (1..n)
        BY <1>2
      <3>. QED
        BY <1>2, <1>4, <2>1, <3>1, LastPlace
    <2>3. t = SubSeq(s, 1, m)
      BY <1>4, <2>1 DEF T!trim_trailing_whitespace_view
    <2>4. m \in 1..n /\ ~T!IsSpace(s[m])
      BY <1>2, <2>2
    <2>5. t \in Seq(Nat) /\ Len(t) = m /\ DOMAIN t = 1..m /\ \A i \in 1..m : t[i] = s[i]
      BY <1>1, <1>2, <2>3, <2>4
    <2>6. T!IsPrefix(t, s)
      <3>1. SubSeq(t, 1, Len(t)) = t
        BY <2>4, <2>5
      <3>2. SubSeq(s, 1, Len(t)) = t
        BY <2>3, <2>5
      <3>. QED
        BY <1>1, <2>4, <2>5, <3>1, <3>2 DEF T!IsPrefix
    <2>7. ~T!IsSpace(T!Last(t))
      BY <2>4, <2>5 DEF T!Last
    <2>8. T!Inked(t) = {i \in 1..m : ~T!IsSpace(t[i])}
      BY <2>5 DEF T!Inked
    <2>9. \A i : i \in T!Inked(t) <=> i \in T!Inked(s)
      BY <1>2, <2>2, <2>4, <2>5, <2>8
    <2>. QED
      BY <2>6, <2>7, <2>9
  <1>. QED
    BY <1>3, <1>4

(* FlattenSeq() of nothing, and of one text more.                          *)
LEMMA FlatNone ==
  T!FlattenSeq(<<>>) = <<>>
  <1>1. Len(<<>>) = 0
    OBVIOUS
  <1>. QED
    BY <1>1, Zenon DEF T!FlattenSeq

(* FlattenSeq() of one text more.                                          *)
LEMMA FlatAppend ==
  ASSUME NEW w \in Seq(Seq(Nat)), NEW x \in Seq(Nat)
  PROVE  T!FlattenSeq(Append(w, x)) = T!FlattenSeq(w) \o x
  <1>1. PICK v, n : v = Append(w, x) /\ n = Len(w)
    BY Zenon
  <1>2. n \in Nat /\ Len(v) = n + 1 /\ v[n + 1] = x /\ \A i \in 1..n : v[i] = w[i]
    BY <1>1
  <1>3. Len(v) \in Nat /\ Len(v) # 0
    BY <1>2
  <1>4. PICK g : FlatUpTo(v, g, n + 1) /\ T!FlattenSeq(v) = g[n + 1]
    BY <1>2, <1>3, Flattened, Zenon
  <1>5. \A i \in 1..(n + 1) : g[i] = IF i = 1 THEN v[i] ELSE g[i - 1] \o v[i]
    <2>1. PICK h : h = [i \in 1..(n + 1) |-> IF i = 1 THEN v[i] ELSE g[i - 1] \o v[i]]
      BY Zenon
    <2>2. g = h
      BY <1>4, <2>1, Zenon DEF FlatUpTo
    <2>3. \A i \in 1..(n + 1) : h[i] = IF i = 1 THEN v[i] ELSE g[i - 1] \o v[i]
      BY <2>1, Zenon
    <2>. QED
      BY <2>2, <2>3, Zenon
  <1>6. CASE n = 0
    <2>0. w = <<>>
      BY <1>1, <1>6, EmptySeq, Zenon
    <2>1. w = <<>> /\ 1 \in 1..(n + 1) /\ n + 1 = 1
      BY SMT, <1>2, <1>6, <2>0
    <2>2. g[1] = v[1]
      BY <1>5, <2>1, Zenon
    <2>3. <<>> \o x = x
      OBVIOUS
    <2>. QED
      BY <1>1, <1>2, <1>4, <2>1, <2>2, <2>3, FlatNone, Zenon
  <1>7. CASE n # 0
    <2>1. PICK f : FlatUpTo(w, f, n) /\ T!FlattenSeq(w) = f[n]
      <3>1. Len(w) \in Nat /\ Len(w) # 0
        BY <1>1, <1>2, <1>7, Zenon
      <3>. QED
        BY <1>1, <3>1, Flattened, Zenon
    <2>2. \A i \in 1..n : f[i] = IF i = 1 THEN w[i] ELSE f[i - 1] \o w[i]
      <3>1. PICK h : h = [i \in 1..n |-> IF i = 1 THEN w[i] ELSE f[i - 1] \o w[i]]
        BY Zenon
      <3>2. f = h
        BY <2>1, <3>1, Zenon DEF FlatUpTo
      <3>3. \A i \in 1..n : h[i] = IF i = 1 THEN w[i] ELSE f[i - 1] \o w[i]
        BY <3>1, Zenon
      <3>. QED
        BY <3>2, <3>3, Zenon
    <2>3. PICK S : S = {m \in Nat : m \in 1..n => g[m] = f[m]}
      BY Zenon
    <2>4. 0 \in S
      BY SMT, <2>3
    <2>5. ASSUME NEW m \in S PROVE m + 1 \in S
      <3>1. m \in Nat /\ (m \in 1..n => g[m] = f[m])
        BY <2>3, <2>5, Zenon
      <3>2. ASSUME m + 1 \in 1..n PROVE g[m + 1] = f[m + 1]
        <4>1. m + 1 \in 1..(n + 1) /\ (m + 1) - 1 = m /\ (m + 1 # 1 => m \in 1..n)
          BY SMT, <1>2, <3>1, <3>2
        <4>2. g[m + 1] = IF m + 1 = 1 THEN v[m + 1] ELSE g[m] \o v[m + 1]
          BY <1>5, <4>1, Zenon
        <4>3. f[m + 1] = IF m + 1 = 1 THEN w[m + 1] ELSE f[m] \o w[m + 1]
          BY <2>2, <3>2, <4>1, Zenon
        <4>. QED
          BY <1>2, <3>1, <3>2, <4>1, <4>2, <4>3, Zenon
      <3>3. m + 1 \in Nat
        BY SMT, <3>1
      <3>. QED
        BY <2>3, <3>2, <3>3, Zenon
    <2>6. S = Nat
      <3>1. S \in SUBSET Nat
        BY <2>3, Zenon
      <3>. QED
        BY <2>4, <2>5, <3>1, AllNumbers, Zenon
    <2>7. n \in 1..n /\ n + 1 \in 1..(n + 1) /\ n + 1 # 1 /\ (n + 1) - 1 = n
      BY SMT, <1>2, <1>7
    <2>8. g[n] = f[n]
      BY <1>2, <2>3, <2>6, <2>7, Zenon
    <2>9. g[n + 1] = g[n] \o v[n + 1]
      BY <1>5, <2>7, Zenon
    <2>. QED
      BY <1>1, <1>2, <1>4, <2>1, <2>8, <2>9, Zenon
  <1>. QED
    BY <1>6, <1>7, Zenon

(* What std::getline() has read of a text before each place of it.         *)
Reading(s, d, n, g) ==
  g = [i \in 0..n |-> IF i = 0 THEN [segments |-> <<>>, segment |-> <<>>] ELSE T!getline(g[i - 1], s[i], d)]

(* Such a reading exists.                                                  *)
LEMMA ReadingExists ==
  ASSUME NEW s, NEW d, NEW n \in Nat
  PROVE  \E g : Reading(s, d, n, g)
  <1>1. PICK S, o : S = {m \in Nat : \E g : Reading(s, d, m, g)} /\ o = [segments |-> <<>>, segment |-> <<>>]
    BY Zenon
  <1>2. 0 \in S
    <2>1. PICK g : g = [i \in 0..0 |-> o]
      BY Zenon
    <2>2. 0 \in Nat /\ \A i \in 0..0 : i = 0
      BY SMT
    <2>3. g = [i \in 0..0 |-> IF i = 0 THEN o ELSE T!getline(g[i - 1], s[i], d)]
      BY <2>1, <2>2, Zenon
    <2>. QED
      BY <1>1, <2>2, <2>3, Zenon DEF Reading
  <1>3. ASSUME NEW m \in S PROVE m + 1 \in S
    <2>1. m \in Nat
      BY <1>1, Zenon
    <2>2. PICK f : Reading(s, d, m, f)
      BY <1>1, Zenon
    <2>3. PICK g : g = [i \in 0..(m + 1) |-> IF i = 0 THEN o ELSE T!getline(f[i - 1], s[i], d)]
      BY Zenon
    <2>4. \A i \in 0..m : i \in 0..(m + 1)
      BY SMT, <2>1
    <2>5. ASSUME NEW i \in 0..m PROVE g[i] = f[i]
      <3>1. PICK h : h = [j \in 0..m |-> IF j = 0 THEN o ELSE T!getline(f[j - 1], s[j], d)]
        BY Zenon
      <3>2. f = h
        BY <1>1, <2>2, <3>1, Zenon DEF Reading
      <3>3. h[i] = IF i = 0 THEN o ELSE T!getline(f[i - 1], s[i], d)
        BY <3>1, Zenon
      <3>4. g[i] = IF i = 0 THEN o ELSE T!getline(f[i - 1], s[i], d)
        BY <2>3, <2>4, Zenon
      <3>. QED
        BY <3>2, <3>3, <3>4, Zenon
    <2>6. \A i \in 0..(m + 1) : i # 0 => i - 1 \in 0..m
      BY SMT, <2>1
    <2>7. g = [i \in 0..(m + 1) |-> IF i = 0 THEN o ELSE T!getline(g[i - 1], s[i], d)]
      <3>1. \A i \in 0..(m + 1) : (IF i = 0 THEN o ELSE T!getline(f[i - 1], s[i], d))
                                     = IF i = 0 THEN o ELSE T!getline(g[i - 1], s[i], d)
        BY <2>5, <2>6, Zenon
      <3>. QED
        BY <2>3, <3>1, Zenon
    <2>8. m + 1 \in Nat
      BY SMT, <2>1
    <2>. QED
      BY <1>1, <2>7, <2>8, Zenon DEF Reading
  <1>4. S = Nat
    <2>1. S \in SUBSET Nat
      BY <1>1, Zenon
    <2>. QED
      BY <1>2, <1>3, <2>1, AllNumbers, Zenon
  <1>. QED
    BY <1>1, <1>4, Zenon

(* The lines that have been read at the end.                               *)
ReadAll(s, d, n, g) ==
  /\ g[0] = [segments |-> <<>>, segment |-> <<>>]
  /\ \A i \in 1..n : g[i] = T!getline(g[i - 1], s[i], d)
  /\ T!Segments(s, d) = IF g[n].segment = <<>> THEN g[n].segments ELSE Append(g[n].segments, g[n].segment)

(* Segments() is what the last of it holds.                                *)
LEMMA SegmentsRead ==
  ASSUME NEW s, NEW d, NEW n \in Nat, Len(s) = n
  PROVE  \E g : ReadAll(s, d, n, g)
  <1>1. PICK g : g = CHOOSE x : Reading(s, d, Len(s), x)
    BY Zenon
  <1>2. Reading(s, d, n, g)
    BY <1>1, ReadingExists, Zenon
  <1>3. T!Segments(s, d) = IF g[n].segment = <<>> THEN g[n].segments ELSE Append(g[n].segments, g[n].segment)
    <2>1. T!Segments(s, d) = IF g[Len(s)].segment = <<>> THEN g[Len(s)].segments
                             ELSE Append(g[Len(s)].segments, g[Len(s)].segment)
      <3>1. PICK r : r = CHOOSE x : x = [i \in 0..Len(s) |-> IF i = 0 THEN [segments |-> <<>>, segment |-> <<>>]
                                                             ELSE T!getline(x[i - 1], s[i], d)]
        BY Zenon
      <3>2. r = g
        BY <1>1, <3>1 DEF Reading
      <3>3. T!Segments(s, d) = IF r[Len(s)].segment = <<>> THEN r[Len(s)].segments
                               ELSE Append(r[Len(s)].segments, r[Len(s)].segment)
        BY <3>1 DEF T!Segments
      <3>. QED
        BY <3>2, <3>3, Zenon
    <2>. QED
      BY <2>1, Zenon
  <1>4. PICK h : h = [i \in 0..n |-> IF i = 0 THEN [segments |-> <<>>, segment |-> <<>>] ELSE T!getline(g[i - 1], s[i], d)]
    BY Zenon
  <1>5. g = h
    BY <1>2, <1>4, Zenon DEF Reading
  <1>6. 0 \in 0..n /\ \A i \in 1..n : i \in 0..n /\ i # 0
    BY SMT
  <1>7. h[0] = [segments |-> <<>>, segment |-> <<>>] /\ \A i \in 1..n : h[i] = T!getline(g[i - 1], s[i], d)
    BY <1>4, <1>6, Zenon
  <1>. QED
    BY <1>3, <1>5, <1>7, Zenon DEF ReadAll

(* Lines, and the text they make with a newline behind each.               *)
NoBreak(x) == x \in Seq(Nat) /\ \A j \in 1..Len(x) : x[j] # 10
LinesOf(L) == L \in Seq(Seq(Nat)) /\ \A k \in 1..Len(L) : NoBreak(L[k])
Broken(L) == [k \in DOMAIN L |-> L[k] \o <<10>>]

(* A function on 1..n is a sequence.                                       *)
LEMMA SeqOf ==
  ASSUME NEW S, NEW n \in Nat, NEW b \in [1..n -> S]
  PROVE  b \in Seq(S) /\ Len(b) = n
  OBVIOUS

(* Append(), place by place.                                               *)
AppendedTo(b, y) == Append(b, y) = [k \in 1..(Len(b) + 1) |-> IF k <= Len(b) THEN b[k] ELSE y]

(* That is what it is.                                                     *)
LEMMA AppendIs ==
  ASSUME NEW S, NEW b \in Seq(S), NEW y \in S
  PROVE  AppendedTo(b, y)
  <1>1. PICK z, n : z = Append(b, y) /\ n = Len(b)
    BY Zenon
  <1>2. n \in Nat /\ z \in Seq(S) /\ Len(z) = n + 1 /\ z[n + 1] = y /\ \A k \in 1..n : z[k] = b[k]
    BY <1>1
  <1>3. z = [k \in 1..(n + 1) |-> z[k]]
    BY <1>2
  <1>4. ASSUME NEW k \in 1..(n + 1) PROVE z[k] = IF k <= n THEN b[k] ELSE y
    <2>1. (k <= n => k \in 1..n) /\ (~(k <= n) => k = n + 1)
      BY SMT, <1>2
    <2>. QED
      BY <1>2, <2>1, Zenon
  <1>. QED
    BY <1>1, <1>3, <1>4, Zenon DEF AppendedTo

(* A line more.                                                            *)
LEMMA BrokenAppend ==
  ASSUME NEW L \in Seq(Seq(Nat)), NEW x \in Seq(Nat)
  PROVE  Broken(L) \in Seq(Seq(Nat)) /\ Broken(Append(L, x)) = Append(Broken(L), x \o <<10>>)
  <1>1. PICK n, M, y, b : n = Len(L) /\ M = Append(L, x) /\ y = x \o <<10>> /\ b = Broken(L)
    BY Zenon
  <1>2. n \in Nat /\ DOMAIN L = 1..n /\ DOMAIN M = 1..(n + 1) /\ M[n + 1] = x /\ \A k \in 1..n : M[k] = L[k]
    BY <1>1
  <1>3. \A z \in Seq(Nat) : z \o <<10>> \in Seq(Nat)
    OBVIOUS
  <1>4. b = [k \in 1..n |-> L[k] \o <<10>>] /\ \A k \in 1..n : b[k] = L[k] \o <<10>> /\ b[k] \in Seq(Nat)
    <2>1. b = [k \in 1..n |-> L[k] \o <<10>>]
      BY <1>1, <1>2, Zenon DEF Broken
    <2>2. \A k \in 1..n : L[k] \in Seq(Nat)
      BY <1>1
    <2>. QED
      BY <1>3, <2>1, <2>2, Zenon
  <1>5. b \in Seq(Seq(Nat)) /\ Len(b) = n
    <2>1. b \in [1..n -> Seq(Nat)]
      BY <1>4, Zenon
    <2>. QED
      BY <1>2, <2>1, SeqOf, Zenon
  <1>6. Broken(M) = [k \in 1..(n + 1) |-> M[k] \o <<10>>]
    BY <1>2, Zenon DEF Broken
  <1>7. Append(b, y) = [k \in 1..(n + 1) |-> IF k <= n THEN b[k] ELSE y]
    <2>1. y \in Seq(Nat)
      BY <1>1, <1>3, Zenon
    <2>2. Append(b, y) = [k \in 1..(Len(b) + 1) |-> IF k <= Len(b) THEN b[k] ELSE y]
      <3>1. AppendedTo(b, y)
        BY <1>5, <2>1, AppendIs
      <3>. QED
        BY <3>1, Zenon DEF AppendedTo
    <2>. QED
      BY <1>5, <2>2, Zenon
  <1>8. \A k \in 1..(n + 1) : M[k] \o <<10>> = IF k <= n THEN b[k] ELSE y
    <2>1. ASSUME NEW k \in 1..(n + 1) PROVE M[k] \o <<10>> = IF k <= n THEN b[k] ELSE y
      <3>1. CASE k <= n
        <4>1. k \in 1..n
          BY SMT, <1>2, <3>1
        <4>. QED
          BY <1>2, <1>4, <3>1, <4>1, Zenon
      <3>2. CASE ~(k <= n)
        <4>1. k = n + 1
          BY SMT, <1>2, <3>2
        <4>. QED
          BY <1>1, <1>2, <3>2, <4>1, Zenon
      <3>. QED
        BY <3>1, <3>2, Zenon
    <2>. QED
      BY <2>1, Zenon
  <1>9. Broken(M) = Append(b, y)
    BY <1>6, <1>7, <1>8, Zenon
  <1>. QED
    BY <1>1, <1>5, <1>9, Zenon

(* The text of the lines, a line more.                                     *)
LinesText(L) == T!FlattenSeq(Broken(L))

(* It is the text so far, the line and its newline.                        *)
LEMMA TextAppend ==
  ASSUME NEW L \in Seq(Seq(Nat)), NEW x \in Seq(Nat)
  PROVE  LinesText(Append(L, x)) = LinesText(L) \o (x \o <<10>>)
  <1>1. x \o <<10>> \in Seq(Nat)
    OBVIOUS
  <1>. QED
    BY <1>1, BrokenAppend, FlatAppend, Zenon DEF LinesText

(* What std::getline() has read in front of a place, and what is left of   *)
(* the line.                                                               *)
ReadTo(s, i, r) ==
  /\ LinesOf(r.segments) /\ NoBreak(r.segment)
  /\ LinesText(r.segments) \in Seq(Nat) /\ LinesText(r.segments) \o r.segment = SubSeq(s, 1, i)

(* Sequences one character at a time.                                      *)
LEMMA CharMore ==
  ASSUME NEW a \in Seq(Nat), NEW b \in Seq(Nat), NEW c \in Nat
  PROVE  /\ (a \o b) \o <<c>> = a \o (b \o <<c>>) /\ Append(b, c) = b \o <<c>>
         /\ b \o <<c>> \in Seq(Nat) /\ a \o b \in Seq(Nat) /\ (a \o b) \o <<>> = a \o b
  OBVIOUS

(* Every character is read.                                                *)
LEMMA LineRead ==
  ASSUME NEW s \in Seq(Nat), NEW i \in 1..Len(s), NEW r, ReadTo(s, i - 1, r)
  PROVE  ReadTo(s, i, T!getline(r, s[i], 10))
  <1>1. PICK L, x, t, c, q : L = r.segments /\ x = r.segment /\ t = LinesText(L) /\ c = s[i] /\ q = T!getline(r, c, 10)
    BY Zenon
  <1>2. /\ L \in Seq(Seq(Nat)) /\ (\A k \in 1..Len(L) : NoBreak(L[k]))
        /\ x \in Seq(Nat) /\ (\A j \in 1..Len(x) : x[j] # 10)
        /\ t \in Seq(Nat) /\ t \o x = SubSeq(s, 1, i - 1)
    BY <1>1, Zenon DEF ReadTo, LinesOf, NoBreak
  <1>3. c \in Nat /\ SubSeq(s, 1, i) = SubSeq(s, 1, i - 1) \o <<c>>
    BY <1>1
  <1>4. CASE c = 10
    <2>1. q = [segments |-> Append(L, x), segment |-> <<>>]
      BY <1>1, <1>4, Zenon DEF T!getline
    <2>2. q.segments = Append(L, x) /\ q.segment = <<>>
      BY <2>1, Zenon
    <2>3. LinesText(Append(L, x)) = t \o (x \o <<10>>)
      BY <1>1, <1>2, TextAppend, Zenon
    <2>a. (t \o x) \o <<c>> = t \o (x \o <<c>>)
      BY <1>2, <1>3, CharMore, Zenon
    <2>4. LinesText(Append(L, x)) = SubSeq(s, 1, i)
      BY <1>2, <1>3, <1>4, <2>3, <2>a, Zenon
    <2>5. SubSeq(s, 1, i) \in Seq(Nat) /\ SubSeq(s, 1, i) \o <<>> = SubSeq(s, 1, i)
      OBVIOUS
    <2>6. LinesOf(Append(L, x))
      <3>1. /\ Append(L, x) \in Seq(Seq(Nat)) /\ Len(Append(L, x)) = Len(L) + 1
            /\ \A k \in 1..(Len(L) + 1) : k \in 1..Len(L) \/ k = Len(L) + 1
            /\ Append(L, x)[Len(L) + 1] = x /\ \A k \in 1..Len(L) : Append(L, x)[k] = L[k]
        BY <1>2
      <3>2. NoBreak(x)
        BY <1>2, Zenon DEF NoBreak
      <3>. QED
        BY <1>2, <3>1, <3>2, Zenon DEF LinesOf
    <2>7. NoBreak(<<>>)
      BY DEF NoBreak
    <2>. QED
      BY <1>1, <2>2, <2>4, <2>5, <2>6, <2>7, Zenon DEF ReadTo
  <1>5. CASE c # 10
    <2>1. q = [segments |-> L, segment |-> Append(x, c)]
      BY <1>1, <1>5, Zenon DEF T!getline
    <2>2. q.segments = L /\ q.segment = Append(x, c)
      BY <2>1, Zenon
    <2>a. (t \o x) \o <<c>> = t \o (x \o <<c>>) /\ Append(x, c) = x \o <<c>>
      BY <1>2, <1>3, CharMore, Zenon
    <2>3. t \o Append(x, c) = SubSeq(s, 1, i)
      BY <1>2, <1>3, <2>a, Zenon
    <2>4. NoBreak(Append(x, c))
      <3>1. Append(x, c) \in Seq(Nat) /\ \A j \in 1..Len(Append(x, c)) : Append(x, c)[j] # 10
        BY <1>2, <1>3, <1>5
      <3>. QED
        BY <3>1, Zenon DEF NoBreak
    <2>5. LinesOf(L)
      BY <1>2, Zenon DEF LinesOf
    <2>. QED
      BY <1>1, <1>2, <2>2, <2>3, <2>4, <2>5, Zenon DEF ReadTo
  <1>. QED
    BY <1>4, <1>5, Zenon

(* prefix_split() splits any text into lines, and they make the text again *)
(* if it ends in a character that is no newline.                           *)
Split(s, L) ==
  /\ LinesOf(L) /\ (s = <<>> => L = <<>>)
  /\ s # <<>> /\ s[Len(s)] # 10 => LinesText(L) = s \o <<10>>

(* Segments() does that.                                                   *)
LEMMA SegmentsSplit ==
  ASSUME NEW s \in Seq(Nat)
  PROVE  Split(s, T!Segments(s, 10))
  <1>1. PICK n : n = Len(s)
    BY Zenon
  <1>2. n \in Nat
    BY <1>1
  <1>3. PICK g : /\ g[0] = [segments |-> <<>>, segment |-> <<>>]
                 /\ \A i \in 1..n : g[i] = T!getline(g[i - 1], s[i], 10)
                 /\ T!Segments(s, 10) = IF g[n].segment = <<>> THEN g[n].segments
                                        ELSE Append(g[n].segments, g[n].segment)
    <2>1. PICK g : ReadAll(s, 10, n, g)
      BY <1>1, <1>2, SegmentsRead, Zenon
    <2>. QED
      BY <2>1, Zenon DEF ReadAll
  <1>4. ReadTo(s, 0, g[0])
    <2>1. g[0].segments = <<>> /\ g[0].segment = <<>>
      BY <1>3
    <2>2. Broken(<<>>) = <<>>
      BY DEF Broken
    <2>3. LinesText(<<>>) = <<>>
      BY <2>2, FlatNone, Zenon DEF LinesText
    <2>4. /\ <<>> \in Seq(Nat) /\ <<>> \in Seq(Seq(Nat)) /\ <<>> \o <<>> = <<>> /\ SubSeq(s, 1, 0) = <<>>
          /\ Len(<<>>) = 0 /\ \A k : k \notin 1..0
      OBVIOUS
    <2>5. LinesOf(<<>>) /\ NoBreak(<<>>)
      BY <2>4, Zenon DEF LinesOf, NoBreak
    <2>. QED
      BY <2>1, <2>3, <2>4, <2>5, Zenon DEF ReadTo
  <1>5. PICK S : S = {i \in Nat : i <= n => ReadTo(s, i, g[i])}
    BY Zenon
  <1>6. 0 \in S
    BY <1>4, <1>5
  <1>7. ASSUME NEW i \in S PROVE i + 1 \in S
    <2>1. i \in Nat /\ (i <= n => ReadTo(s, i, g[i]))
      BY <1>5, Zenon
    <2>2. i + 1 \in Nat
      BY SMT, <2>1
    <2>3. ASSUME i + 1 <= n PROVE ReadTo(s, i + 1, g[i + 1])
      <3>1. i + 1 \in 1..n /\ (i + 1) - 1 = i /\ i <= n
        BY SMT, <1>2, <2>1, <2>3
      <3>2. ReadTo(s, (i + 1) - 1, g[i])
        BY <2>1, <3>1, Zenon
      <3>3. g[i + 1] = T!getline(g[i], s[i + 1], 10)
        BY <1>3, <3>1, Zenon
      <3>. QED
        BY <1>1, <3>1, <3>2, <3>3, LineRead, Zenon
    <2>. QED
      BY <1>5, <2>2, <2>3, Zenon
  <1>8. S = Nat
    <2>1. S \in SUBSET Nat
      BY <1>5, Zenon
    <2>. QED
      BY <1>6, <1>7, <2>1, AllNumbers, Zenon
  <1>9. ReadTo(s, n, g[n])
    <2>1. n <= n
      BY SMT, <1>2
    <2>. QED
      BY <1>2, <1>5, <1>8, <2>1, Zenon
  <1>10. PICK L, x, t : L = g[n].segments /\ x = g[n].segment /\ t = LinesText(L)
    BY Zenon
  <1>11. /\ L \in Seq(Seq(Nat)) /\ (\A k \in 1..Len(L) : NoBreak(L[k]))
         /\ x \in Seq(Nat) /\ NoBreak(x) /\ t \in Seq(Nat) /\ t \o x = SubSeq(s, 1, n)
    BY <1>9, <1>10, Zenon DEF ReadTo, LinesOf, NoBreak
  <1>12. SubSeq(s, 1, n) = s
    BY <1>1
  <1>13. LinesOf(T!Segments(s, 10))
    <2>1. LinesOf(L)
      BY <1>11, Zenon DEF LinesOf
    <2>2. LinesOf(Append(L, x))
      <3>1. /\ Append(L, x) \in Seq(Seq(Nat)) /\ Len(Append(L, x)) = Len(L) + 1
            /\ \A k \in 1..(Len(L) + 1) : k \in 1..Len(L) \/ k = Len(L) + 1
            /\ Append(L, x)[Len(L) + 1] = x /\ \A k \in 1..Len(L) : Append(L, x)[k] = L[k]
        BY <1>11
      <3>. QED
        BY <1>11, <3>1, Zenon DEF LinesOf
    <2>. QED
      BY <1>3, <1>10, <2>1, <2>2, Zenon
  <1>14. ASSUME s = <<>> PROVE T!Segments(s, 10) = <<>>
    <2>1. n = 0
      BY <1>1, <1>14
    <2>2. g[n].segment = <<>> /\ g[n].segments = <<>>
      BY <1>3, <2>1
    <2>. QED
      BY <1>3, <2>2, Zenon
  <1>15. ASSUME s # <<>>, s[Len(s)] # 10 PROVE LinesText(T!Segments(s, 10)) = s \o <<10>>
    <2>1. n \in 1..n
      BY <1>1, <1>15
    <2>2. g[n] = T!getline(g[n - 1], s[n], 10)
      BY <1>3, <2>1, Zenon
    <2>3. g[n].segment = Append(g[n - 1].segment, s[n])
      BY <1>1, <1>15, <2>2 DEF T!getline
    <2>4. x # <<>>
      <3>1. n - 1 \in Nat /\ n - 1 <= n
        BY SMT, <1>2, <2>1
      <3>2. ReadTo(s, n - 1, g[n - 1])
        BY <1>5, <1>8, <3>1, Zenon
      <3>3. g[n - 1].segment \in Seq(Nat)
        BY <3>2, Zenon DEF ReadTo, NoBreak
      <3>4. \A z \in Seq(Nat) : Append(z, s[n]) # <<>>
        OBVIOUS
      <3>. QED
        BY <1>10, <2>3, <3>3, <3>4, Zenon
    <2>5. T!Segments(s, 10) = Append(L, x)
      BY <1>3, <1>10, <2>4, Zenon
    <2>6. LinesText(Append(L, x)) = t \o (x \o <<10>>)
      BY <1>10, <1>11, TextAppend, Zenon
    <2>7. 10 \in Nat
      BY SMT
    <2>. QED
      <3>1. (t \o x) \o <<10>> = t \o (x \o <<10>>)
        BY <1>11, <2>7, CharMore, Zenon
      <3>. QED
        BY <1>11, <1>12, <2>5, <2>6, <3>1, Zenon
  <1>. QED
    BY <1>13, <1>14, <1>15, Zenon DEF Split

(* A set of places of a text has a first one.                              *)
LEMMA FirstPlace ==
  ASSUME NEW n \in Nat, NEW S \in SUBSET (1..n), S # {}
  PROVE  T!Min(S) \in S
  <1>1. S \in SUBSET Nat
    OBVIOUS
  <1>2. \E x \in S : \A y \in S : x <= y
    BY <1>1, LeastNumber
  <1>. QED
    BY <1>2 DEF T!Min

(* A trimmed text ends in a character that is no space.                    *)
LEMMA Trimmed ==
  ASSUME NEW s \in Seq(Nat), NEW t, t = T!trim_whitespace_view(s)
  PROVE  t \in Seq(Nat) /\ (t # <<>> => t[Len(t)] # 10)
  <1>1. PICK n, S : n = Len(s) /\ S = T!Inked(s)
    BY Zenon
  <1>2. n \in Nat /\ S = {i \in 1..n : ~T!IsSpace(s[i])}
    BY <1>1 DEF T!Inked
  <1>3. CASE S = {}
    <2>1. t = <<>>
      BY <1>1, <1>3, Zenon DEF T!trim_whitespace_view
    <2>. QED
      BY <2>1
  <1>4. CASE S # {}
    <2>1. PICK a, b : a = T!Min(S) /\ b = T!Max(S)
      BY Zenon
    <2>2. a \in S /\ b \in S /\ a <= b
      <3>1. S \in SUBSET (1..n)
        BY <1>2
      <3>2. T!Min(S) \in S
        BY <1>2, <1>4, <3>1, FirstPlace, Zenon
      <3>3. T!Max(S) \in S /\ \A i \in S : T!Max(S) >= i
        BY <1>2, <1>4, <3>1, LastPlace, Zenon
      <3>4. b >= a
        BY <2>1, <3>2, <3>3, Zenon
      <3>. QED
        BY <2>1, <3>1, <3>2, <3>3, <3>4
    <2>3. t = SubSeq(s, a, b)
      BY <1>1, <1>4, <2>1, Zenon DEF T!trim_whitespace_view
    <2>4. a \in 1..n /\ b \in 1..n /\ ~T!IsSpace(s[b])
      BY <1>2, <2>2, Zenon
    <2>5. t \in Seq(Nat) /\ Len(t) = b - a + 1 /\ \A i \in 1..(b - a + 1) : t[i] = s[a + i - 1]
      <3>1. a \in Int /\ b \in Int /\ a <= b
        BY <2>2, <2>4
      <3>2. \A i \in a..b : s[i] \in Nat
        <4>1. \A i \in a..b : i \in 1..Len(s)
          BY SMT, <1>1, <1>2, <2>4
        <4>. QED
          BY <4>1
      <3>3. /\ SubSeq(s, a, b) \in Seq(Nat)
            /\ Len(SubSeq(s, a, b)) = IF a <= b THEN b - a + 1 ELSE 0
            /\ \A i \in 1..(b - a + 1) : SubSeq(s, a, b)[i] = s[a + i - 1]
        BY <3>1, <3>2, SubSeqProperties
      <3>. QED
        BY <2>3, <3>1, <3>3, Zenon
    <2>6. t[Len(t)] = s[b]
      <3>1. b - a + 1 \in 1..(b - a + 1) /\ a + (b - a + 1) - 1 = b
        BY SMT, <2>2, <2>4
      <3>. QED
        BY <2>5, <3>1, Zenon
    <2>. QED
      BY <2>4, <2>5, <2>6, Zenon DEF T!IsSpace, T!Newline
  <1>. QED
    BY <1>3, <1>4, Zenon

(* join() drops the newline behind the last line.                          *)
LEMMA JoinIs ==
  ASSUME NEW L
  PROVE  T!join(L, <<10>>) = IF LinesText(L) = <<>> THEN <<>>
                             ELSE SubSeq(LinesText(L), 1, Len(LinesText(L)) - 1)
  <1>1. Len(<<10>>) = 1
    OBVIOUS
  <1>. QED
    BY <1>1, Zenon DEF T!join, LinesText, Broken

(* Lines split and joined again, of any text that ends in no newline.      *)
LEMMA LinesKept ==
  ASSUME NEW t \in Seq(Nat), t # <<>> => t[Len(t)] # 10
  PROVE  T!join(T!prefix_split(t, 10, <<>>), <<10>>) = t
  <1>1. PICK P : P = T!Segments(t, 10)
    BY Zenon
  <1>2. LinesOf(P) /\ (t = <<>> => P = <<>>) /\ (t # <<>> => LinesText(P) = t \o <<10>>)
    BY <1>1, SegmentsSplit, Zenon DEF Split
  <1>3. T!prefix_split(t, 10, <<>>) = P
    <2>1. P \in Seq(Seq(Nat))
      BY <1>2, Zenon DEF LinesOf
    <2>2. P = [k \in DOMAIN P |-> P[k]] /\ \A k \in DOMAIN P : P[k] \in Seq(Nat)
      BY <2>1
    <2>3. \A z \in Seq(Nat) : <<>> \o z = z
      OBVIOUS
    <2>4. T!prefix_split(t, 10, <<>>) = [k \in DOMAIN P |-> <<>> \o P[k]]
      BY <1>1, Zenon DEF T!prefix_split
    <2>5. [k \in DOMAIN P |-> <<>> \o P[k]] = [k \in DOMAIN P |-> P[k]]
      BY <2>2, <2>3, Zenon
    <2>. QED
      BY <2>2, <2>4, <2>5, Zenon
  <1>4. CASE t = <<>>
    <2>1. Broken(<<>>) = <<>>
      BY DEF Broken
    <2>2. LinesText(P) = <<>>
      BY <1>2, <1>4, <2>1, FlatNone, Zenon DEF LinesText
    <2>. QED
      BY <1>3, <1>4, <2>2, JoinIs, Zenon
  <1>5. CASE t # <<>>
    <2>1. t \o <<10>> # <<>> /\ SubSeq(t \o <<10>>, 1, Len(t \o <<10>>) - 1) = t
      <3>1. PICK x, n : x = t \o <<10>> /\ n = Len(t)
        BY Zenon
      <3>2. n \in Nat /\ x \in Seq(Nat) /\ Len(x) = n + 1 /\ \A i \in 1..n : x[i] = t[i]
        BY <3>1
      <3>3. Len(x) - 1 = n /\ x # <<>>
        BY <3>2
      <3>4. SubSeq(x, 1, n) = [i \in 1..n |-> x[i]]
        BY <3>2
      <3>5. t = [i \in 1..n |-> t[i]]
        BY <3>1
      <3>6. [i \in 1..n |-> x[i]] = [i \in 1..n |-> t[i]]
        BY <3>2, Zenon
      <3>. QED
        BY <3>1, <3>3, <3>4, <3>5, <3>6, Zenon
    <2>. QED
      BY <1>2, <1>3, <1>5, <2>1, JoinIs, Zenon
  <1>. QED
    BY <1>4, <1>5, Zenon

(* Lines with an indentation of two, and a newline behind each.            *)
Indented(t) ==
  /\ t \in Seq(Nat) /\ (t # <<>> => t[Len(t)] = 10)
  /\ \A j \in 1..(Len(t) - 1) : t[j] = 10 => j + 3 <= Len(t) /\ t[j + 1] = 32 /\ t[j + 2] = 32

(* A line of it.                                                           *)
LineIn(x) ==
  /\ x \in Seq(Nat) /\ Len(x) >= 3 /\ x[1] = 32 /\ x[2] = 32 /\ x[Len(x)] = 10
  /\ \A j \in 1..(Len(x) - 1) : x[j] # 10

(* Two texts put together, and the beginning of one.                       *)
Both(t, x, y, n, m) ==
  /\ n \in Nat /\ m \in Nat /\ y \in Seq(Nat) /\ Len(y) = n + m
  /\ (\A i \in 1..n : y[i] = t[i]) /\ \A i \in 1..m : y[n + i] = x[i]
Beginning(t, y, n) == t \in Seq(Nat) /\ Len(t) = n /\ DOMAIN t = 1..n /\ \A j \in 1..n : t[j] = y[j]

(* What \o makes of two texts.                                             *)
LEMMA Together ==
  ASSUME NEW t \in Seq(Nat), NEW x \in Seq(Nat)
  PROVE  Both(t, x, t \o x, Len(t), Len(x))
  BY DEF Both

(* What is left of a text without its last character.                      *)
LEMMA Shortened ==
  ASSUME NEW y \in Seq(Nat), NEW n \in Nat, Len(y) = n + 1
  PROVE  Beginning(SubSeq(y, 1, n), y, n)
  <1>1. PICK t : t = SubSeq(y, 1, n)
    BY Zenon
  <1>2. \A i \in 1..n : y[i] \in Nat
    BY SMT
  <1>3. 1 \in Int /\ n \in Int
    BY SMT
  <1>4. /\ t \in Seq(Nat) /\ Len(t) = IF 1 <= n THEN n - 1 + 1 ELSE 0
        /\ \A i \in 1..(n - 1 + 1) : t[i] = y[1 + i - 1]
    BY <1>1, <1>2, <1>3, SubSeqProperties
  <1>5. Len(t) = n /\ \A i \in 1..n : i \in 1..(n - 1 + 1) /\ 1 + i - 1 = i
    BY SMT, <1>4
  <1>6. DOMAIN t = 1..n
    BY <1>4, <1>5
  <1>. QED
    BY <1>1, <1>4, <1>5, <1>6, Zenon DEF Beginning

(* What prefix_split() makes of a line is one.                             *)
LEMMA PrefixedLine ==
  ASSUME NEW p, NoBreak(p)
  PROVE  T!Spaces(2) \o p \in Seq(Nat) /\ LineIn((T!Spaces(2) \o p) \o <<10>>)
  <1>1. PICK e, q, x, n : e = T!Spaces(2) /\ q = e \o p /\ x = q \o <<10>> /\ n = Len(p)
    BY Zenon
  <1>2. p \in Seq(Nat) /\ n \in Nat /\ \A j \in 1..n : p[j] # 10
    BY <1>1 DEF NoBreak
  <1>3. e \in Seq(Nat) /\ Len(e) = 2 /\ e[1] = 32 /\ e[2] = 32
    <2>1. e = [i \in 1..2 |-> 32]
      BY <1>1, Zenon DEF T!Spaces, T!Blank
    <2>. QED
      BY <2>1
  <1>4. q \in Seq(Nat) /\ Len(q) = n + 2 /\ q[1] = 32 /\ q[2] = 32 /\ \A j \in 1..n : q[j + 2] = p[j]
    <2>1. Both(e, p, q, 2, n)
      BY <1>1, <1>2, <1>3, Together, Zenon
    <2>2. q \in Seq(Nat) /\ Len(q) = 2 + n /\ (\A i \in 1..2 : q[i] = e[i]) /\ \A i \in 1..n : q[2 + i] = p[i]
      BY <2>1, Zenon DEF Both
    <2>3. 1 \in 1..2 /\ 2 \in 1..2 /\ 2 + n = n + 2 /\ \A i \in 1..n : 2 + i = i + 2
      BY SMT, <1>2
    <2>. QED
      BY <1>3, <2>2, <2>3, Zenon
  <1>5. x \in Seq(Nat) /\ Len(x) = n + 3 /\ x[n + 3] = 10 /\ \A j \in 1..(n + 2) : x[j] = q[j]
    BY <1>1, <1>2, <1>4
  <1>6. x[1] = 32 /\ x[2] = 32
    <2>1. 1 \in 1..(n + 2) /\ 2 \in 1..(n + 2)
      BY SMT, <1>2
    <2>. QED
      BY <1>4, <1>5, <2>1, Zenon
  <1>7. ASSUME NEW j \in 1..(n + 2) PROVE x[j] # 10
    <2>1. CASE j <= 2
      <3>1. j = 1 \/ j = 2
        BY SMT, <1>2, <2>1
      <3>2. 32 # 10
        BY SMT
      <3>. QED
        BY <1>6, <3>1, <3>2, Zenon
    <2>2. CASE j > 2
      <3>1. j - 2 \in 1..n /\ (j - 2) + 2 = j
        BY SMT, <1>2, <2>2
      <3>2. q[j] = p[j - 2]
        BY <1>4, <3>1, Zenon
      <3>. QED
        BY <1>2, <1>5, <3>1, <3>2, Zenon
    <2>. QED
      BY SMT, <2>1, <2>2
  <1>8. Len(x) >= 3 /\ Len(x) - 1 = n + 2
    BY SMT, <1>2, <1>5
  <1>. QED
    BY <1>1, <1>4, <1>5, <1>6, <1>7, <1>8, Zenon DEF LineIn

(* A line more.                                                            *)
LEMMA IndentStep ==
  ASSUME NEW t, Indented(t), NEW x, LineIn(x)
  PROVE  Indented(t \o x)
  <1>1. PICK y, n, m : y = t \o x /\ n = Len(t) /\ m = Len(x)
    BY Zenon
  <1>2. /\ t \in Seq(Nat) /\ (t # <<>> => t[n] = 10)
        /\ \A j \in 1..(n - 1) : t[j] = 10 => j + 3 <= n /\ t[j + 1] = 32 /\ t[j + 2] = 32
    BY <1>1, Zenon DEF Indented
  <1>3. /\ x \in Seq(Nat) /\ m >= 3 /\ x[1] = 32 /\ x[2] = 32 /\ x[m] = 10
        /\ \A j \in 1..(m - 1) : x[j] # 10
    BY <1>1, Zenon DEF LineIn
  <1>4. /\ n \in Nat /\ m \in Nat /\ y \in Seq(Nat) /\ Len(y) = n + m
        /\ (\A i \in 1..n : y[i] = t[i]) /\ \A i \in 1..m : y[n + i] = x[i]
    <2>1. Both(t, x, y, n, m)
      BY <1>1, <1>2, <1>3, Together, Zenon
    <2>. QED
      BY <2>1, Zenon DEF Both
  <1>5. y[n + m] = 10 /\ y[n + 1] = 32 /\ y[n + 2] = 32
    <2>1. m \in 1..m /\ 1 \in 1..m /\ 2 \in 1..m
      BY SMT, <1>3, <1>4
    <2>. QED
      BY <1>3, <1>4, <2>1, Zenon
  <1>6. ASSUME NEW j \in 1..(n + m - 1), y[j] = 10
        PROVE  j + 3 <= n + m /\ y[j + 1] = 32 /\ y[j + 2] = 32
    <2>1. CASE j < n
      <3>1. j \in 1..n /\ j \in 1..(n - 1)
        BY SMT, <1>4, <2>1
      <3>2. j + 3 <= n /\ t[j + 1] = 32 /\ t[j + 2] = 32
        BY <1>2, <1>4, <1>6, <3>1, Zenon
      <3>3. j + 1 \in 1..n /\ j + 2 \in 1..n /\ j + 3 <= n + m
        BY SMT, <1>4, <3>1, <3>2
      <3>. QED
        BY <1>4, <3>2, <3>3, Zenon
    <2>2. CASE j = n
      <3>1. j + 3 <= n + m
        BY SMT, <1>3, <1>4, <2>2
      <3>. QED
        BY <1>5, <2>2, <3>1, Zenon
    <2>3. CASE j > n
      <3>1. j - n \in 1..(m - 1) /\ j - n \in 1..m /\ n + (j - n) = j
        BY SMT, <1>3, <1>4, <2>3
      <3>2. y[n + (j - n)] = x[j - n] /\ x[j - n] # 10
        BY <1>3, <1>4, <3>1, Zenon
      <3>. QED
        BY <1>6, <3>1, <3>2, Zenon
    <2>. QED
      BY SMT, <1>4, <2>1, <2>2, <2>3
  <1>7. y \in Seq(Nat) /\ y[Len(y)] = 10
    BY <1>4, <1>5, Zenon
  <1>8. \A j \in 1..(Len(y) - 1) : y[j] = 10 => j + 3 <= Len(y) /\ y[j + 1] = 32 /\ y[j + 2] = 32
    <2>1. ASSUME NEW j \in 1..(Len(y) - 1), y[j] = 10 PROVE j + 3 <= n + m /\ y[j + 1] = 32 /\ y[j + 2] = 32
      <3>1. j \in 1..(n + m - 1)
        BY SMT, <1>4
      <3>. QED
        BY <1>6, <2>1, <3>1, Zenon
    <2>. QED
      BY <1>4, <2>1, Zenon
  <1>. QED
    BY <1>1, <1>7, <1>8, Zenon DEF Indented

(* A beginning of a sequence, one element more of it, and all of it.       *)
LEMMA BeginningMore ==
  ASSUME NEW S, NEW q \in Seq(S), NEW m \in Nat, m + 1 \in 1..Len(q)
  PROVE  SubSeq(q, 1, m) \in Seq(S) /\ SubSeq(q, 1, m + 1) = Append(SubSeq(q, 1, m), q[m + 1])
  OBVIOUS

(* All of it.                                                              *)
LEMMA WholeBeginning ==
  ASSUME NEW S, NEW q \in Seq(S), NEW n, Len(q) = n
  PROVE  n <= n /\ SubSeq(q, 1, n) = q
  OBVIOUS

(* So are all lines of a text, prefixed.                                   *)
LEMMA PrefixedText ==
  ASSUME NEW P, LinesOf(P)
  PROVE  Indented(LinesText([k \in DOMAIN P |-> T!Spaces(2) \o P[k]]))
  <1>1. PICK Q, n : Q = [k \in DOMAIN P |-> T!Spaces(2) \o P[k]] /\ n = Len(P)
    BY Zenon
  <1>2. P \in Seq(Seq(Nat)) /\ \A k \in 1..n : NoBreak(P[k])
    BY <1>1, Zenon DEF LinesOf
  <1>3. n \in Nat /\ DOMAIN P = 1..n
    BY <1>1, <1>2
  <1>4. \A k \in 1..n : Q[k] = T!Spaces(2) \o P[k] /\ Q[k] \in Seq(Nat) /\ LineIn(Q[k] \o <<10>>)
    BY <1>1, <1>2, <1>3, PrefixedLine, Zenon
  <1>5. Q \in Seq(Seq(Nat)) /\ Len(Q) = n
    <2>1. Q \in [1..n -> Seq(Nat)]
      BY <1>1, <1>3, <1>4, Zenon
    <2>. QED
      BY <1>3, <2>1, SeqOf, Zenon
  <1>6. PICK S : S = {m \in Nat : m <= n => Indented(LinesText(SubSeq(Q, 1, m)))}
    BY Zenon
  <1>7. 0 \in S
    <2>1. SubSeq(Q, 1, 0) = <<>>
      BY <1>5
    <2>2. Broken(<<>>) = <<>>
      BY DEF Broken
    <2>3. LinesText(<<>>) = <<>>
      BY <2>2, FlatNone, Zenon DEF LinesText
    <2>4. Indented(<<>>)
      BY DEF Indented
    <2>5. 0 \in Nat
      OBVIOUS
    <2>. QED
      BY <1>6, <2>1, <2>3, <2>4, <2>5, Zenon
  <1>8. ASSUME NEW m \in S PROVE m + 1 \in S
    <2>1. m \in Nat /\ (m <= n => Indented(LinesText(SubSeq(Q, 1, m))))
      BY <1>6, Zenon
    <2>2. m + 1 \in Nat
      BY SMT, <2>1
    <2>3. ASSUME m + 1 <= n PROVE Indented(LinesText(SubSeq(Q, 1, m + 1)))
      <3>1. m <= n /\ m + 1 \in 1..n
        BY SMT, <1>3, <2>1, <2>3
      <3>2. PICK R, q : R = SubSeq(Q, 1, m) /\ q = Q[m + 1]
        BY Zenon
      <3>3. R \in Seq(Seq(Nat)) /\ SubSeq(Q, 1, m + 1) = Append(R, q)
        BY <1>5, <2>1, <3>1, <3>2, BeginningMore, Zenon
      <3>4. q \in Seq(Nat) /\ LineIn(q \o <<10>>)
        BY <1>4, <3>1, <3>2, Zenon
      <3>5. LinesText(Append(R, q)) = LinesText(R) \o (q \o <<10>>)
        BY <3>3, <3>4, TextAppend, Zenon
      <3>6. Indented(LinesText(R))
        BY <2>1, <3>1, <3>2, Zenon
      <3>. QED
        BY <3>3, <3>4, <3>5, <3>6, IndentStep, Zenon
    <2>. QED
      BY <1>6, <2>2, <2>3, Zenon
  <1>9. S = Nat
    <2>1. S \in SUBSET Nat
      BY <1>6, Zenon
    <2>. QED
      BY <1>7, <1>8, <2>1, AllNumbers, Zenon
  <1>10. n <= n /\ SubSeq(Q, 1, n) = Q
    BY <1>3, <1>5, WholeBeginning
  <1>. QED
    BY <1>1, <1>3, <1>6, <1>9, <1>10, Zenon

(* The two places behind one.                                              *)
LEMMA NextPlaces ==
  ASSUME NEW n, NEW i \in 1..n, NEW a, NEW b, a = i + 1, b = i + 2
  PROVE  a \in Int /\ b \in Int /\ a <= b /\ b - a + 1 = 2 /\ a + 1 - 1 = i + 1 /\ a + 2 - 1 = i + 2
  BY SMT

(* Without its last newline, every newline has an indentation behind it.   *)
LEMMA PrefixKept ==
  ASSUME NEW s \in Seq(Nat), NEW t, t = T!prefix_text(s, 2), NEW i \in DOMAIN t, t[i] = 10
  PROVE  i + 2 <= Len(t) /\ SubSeq(t, i + 1, i + 2) = T!Spaces(2)
  <1>1. PICK u, P, y : /\ u = T!trim_whitespace_view(s) /\ P = T!Segments(u, 10)
                       /\ y = LinesText([k \in DOMAIN P |-> T!Spaces(2) \o P[k]])
    BY Zenon
  <1>2. LinesOf(P)
    <2>1. u \in Seq(Nat)
      BY <1>1, Trimmed, Zenon
    <2>. QED
      BY <1>1, <2>1, SegmentsSplit, Zenon DEF Split
  <1>3. Indented(y)
    BY <1>1, <1>2, PrefixedText, Zenon
  <1>4. t = IF y = <<>> THEN <<>> ELSE SubSeq(y, 1, Len(y) - 1)
    <2>1. T!prefix_split(u, 10, T!Spaces(2)) = [k \in DOMAIN P |-> T!Spaces(2) \o P[k]]
      BY <1>1, Zenon DEF T!prefix_split
    <2>2. t = T!join([k \in DOMAIN P |-> T!Spaces(2) \o P[k]], <<10>>)
      BY <1>1, <2>1, Zenon DEF T!prefix_text, T!Newline
    <2>. QED
      BY <1>1, <2>2, JoinIs, Zenon
  <1>5. y # <<>>
    <2>1. \A j : j \notin DOMAIN <<>>
      OBVIOUS
    <2>. QED
      BY <1>4, <2>1, Zenon
  <1>6. PICK n : n = Len(y) - 1
    BY Zenon
  <1>7. /\ y \in Seq(Nat) /\ y[Len(y)] = 10
        /\ \A j \in 1..n : y[j] = 10 => j + 3 <= Len(y) /\ y[j + 1] = 32 /\ y[j + 2] = 32
    BY <1>3, <1>5, <1>6, Zenon DEF Indented
  <1>8. n \in Nat /\ Len(y) = n + 1
    BY <1>5, <1>6, <1>7
  <1>9. t \in Seq(Nat) /\ Len(t) = n /\ DOMAIN t = 1..n /\ \A j \in 1..n : t[j] = y[j]
    <2>1. Beginning(t, y, n)
      BY <1>4, <1>5, <1>6, <1>7, <1>8, Shortened, Zenon
    <2>. QED
      BY <2>1, Zenon DEF Beginning
  <1>10. i \in 1..n /\ i + 3 <= n + 1 /\ y[i + 1] = 32 /\ y[i + 2] = 32
    BY <1>7, <1>8, <1>9, Zenon
  <1>11. i + 1 \in 1..n /\ i + 2 \in 1..n /\ i + 2 <= n
    BY SMT, <1>8, <1>10
  <1>12. t[i + 1] = 32 /\ t[i + 2] = 32
    BY <1>9, <1>10, <1>11, Zenon
  <1>13. SubSeq(t, i + 1, i + 2) = [j \in 1..2 |-> 32]
    <2>1. PICK z : z = SubSeq(t, i + 1, i + 2)
      BY Zenon
    <2>2. z \in Seq(Nat) /\ Len(z) = 2 /\ z[1] = 32 /\ z[2] = 32
      <3>1. PICK a, b : a = i + 1 /\ b = i + 2
        BY Zenon
      <3>2. a \in Int /\ b \in Int /\ a <= b /\ b - a + 1 = 2 /\ a + 1 - 1 = i + 1 /\ a + 2 - 1 = i + 2
        BY <1>10, <3>1, NextPlaces, ZenonT(40)
      <3>3. \A j \in a..b : j \in 1..n
        BY SMT, <1>8, <1>10, <1>11, <3>1
      <3>a. z = SubSeq(t, a, b) /\ a \in Int /\ b \in Int
        BY <2>1, <3>1, <3>2, Zenon
      <3>4. \A j \in a..b : t[j] \in Nat
        BY SMT, <1>9, <3>3
      <3>5. /\ z \in Seq(Nat) /\ Len(z) = IF a <= b THEN b - a + 1 ELSE 0
            /\ \A j \in 1..(b - a + 1) : z[j] = t[a + j - 1]
        BY <3>4, <3>a, SubSeqProperties
      <3>6. 1 \in 1..2 /\ 2 \in 1..2
        BY SMT
      <3>. QED
        BY <1>12, <3>2, <3>5, <3>6, ZenonT(40)
    <2>3. z = [j \in 1..2 |-> z[j]] /\ \A j \in 1..2 : j = 1 \/ j = 2
      BY <2>2
    <2>4. [j \in 1..2 |-> z[j]] = [j \in 1..2 |-> 32]
      BY <2>2, <2>3, Zenon
    <2>. QED
      BY <2>1, <2>3, <2>4, Zenon
  <1>. QED
    BY <1>9, <1>11, <1>13, Zenon DEF T!Spaces, T!Blank

(* The text and the wide string typed so far.                              *)
TextsInv == text \in Seq(Nat) /\ wide \in Seq(Scalar)

(* prefix_split() and join() lose no line and leave none without its       *)
(* prefix, trimming from the right keeps the indentation, and to_utf8() of *)
(* any wide string without surrogates is well-formed: for texts of any     *)
(* length.                                                                 *)
THEOREM TextsKept ==
  ASSUME Points \subseteq Scalar
  PROVE  T!Spec => []T!TextsFaithful
  <1>1. T!Init => TextsInv
    BY DEF T!Init, TextsInv
  <1>2. TextsInv /\ [T!Next]_(T!vars) => TextsInv'
    <2>. SUFFICES ASSUME TextsInv, [T!Next]_(T!vars) PROVE TextsInv'
      OBVIOUS
    <2>1. CASE UNCHANGED T!vars
      BY <2>1 DEF T!vars, TextsInv
    <2>2. CASE T!Type
      <3>1. PICK c \in {T!Blank, T!Newline, T!Letter} : text' = Append(text, c)
        BY <2>2 DEF T!Type
      <3>2. c \in Nat /\ wide' = wide
        BY <2>2 DEF T!Type, T!Blank, T!Newline, T!Letter
      <3>. QED
        BY <3>1, <3>2 DEF TextsInv
    <2>3. CASE T!TypeWide
      <3>1. PICK c \in Points : wide' = Append(wide, c)
        BY <2>3 DEF T!TypeWide
      <3>2. c \in Scalar /\ text' = text
        BY <2>3 DEF T!TypeWide
      <3>. QED
        BY <3>1, <3>2 DEF TextsInv
    <2>. QED
      BY <2>1, <2>2, <2>3 DEF T!Next
  <1>3. TextsInv => T!TextsFaithful
    <2>. SUFFICES ASSUME TextsInv PROVE T!TextsFaithful
      OBVIOUS
    <2>1. T!IndentKept
      <3>1. text \in Seq(Nat)
        BY DEF TextsInv
      <3>. QED
        BY <3>1, TrimRight DEF T!IndentKept
    <2>2. T!Utf8WellFormed
      BY Utf8OfAnyText DEF TextsInv, T!Utf8WellFormed
    <2>3. text \in Seq(Nat)
      BY Zenon DEF TextsInv
    <2>4. T!LinesExact
      <3>1. PICK t : t = T!trim_whitespace_view(text)
        BY Zenon
      <3>2. t \in Seq(Nat) /\ (t # <<>> => t[Len(t)] # 10)
        BY <2>3, <3>1, Trimmed, Zenon
      <3>. QED
        BY <3>1, <3>2, LinesKept, Zenon DEF T!LinesExact, T!Newline
    <2>5. T!EveryLinePrefixed
      BY <2>3, PrefixKept, Zenon DEF T!EveryLinePrefixed, T!Newline
    <2>. QED
      BY <2>1, <2>2, <2>4, <2>5, Zenon DEF T!TextsFaithful
  <1>. QED
    BY <1>1, <1>2, <1>3, PTL DEF T!Spec

(* Values and texts come through every conversion as they were: for values *)
(* and texts of any length, years of four digits, a clock of two, bytes of *)
(* eight bits and no surrogates.                                           *)
THEOREM ConversionsAreFaithful ==
  ASSUME MaxBytes \in Nat, Bytes \subseteq Octet, Years \subseteq Year, Months \subseteq Field, Clock \subseteq 0..99,
         Fractions \subseteq Below, Points \subseteq Scalar
  PROVE  V!Spec /\ T!Spec => []ConversionsFaithful
  <1>1. Years \subseteq Field /\ Clock \subseteq Field
    <2>1. Year \subseteq Field /\ 0..99 \subseteq Field
      BY SMT DEF Year, Field
    <2>. QED
      BY <2>1, Zenon
  <1>2. V!Spec => [](V!TimestampRoundTrip /\ V!DisplayExact)
    BY TimestampsAreKept, Zenon
  <1>3. V!Spec => []V!DisplayFits
    BY <1>1, DisplaysFit, Zenon
  <1>4. V!Spec => []V!BlobRoundTrip
    BY BlobsAreKept, Zenon
  <1>5. V!Spec => [](V!GuidRoundTrip /\ V!HexFaithful)
    BY DumpsAreFaithful, Zenon
  <1>6. T!Spec => []T!TextsFaithful
    BY TextsKept, Zenon
  <1>7. (V!TimestampRoundTrip /\ V!DisplayExact) /\ V!DisplayFits /\ V!BlobRoundTrip /\ (V!GuidRoundTrip /\ V!HexFaithful)
          /\ T!TextsFaithful => ConversionsFaithful
    BY Zenon DEF V!ValuesFaithful, ConversionsFaithful
  <1>. QED
    BY <1>2, <1>3, <1>4, <1>5, <1>6, <1>7, PTL
=============================================================================
