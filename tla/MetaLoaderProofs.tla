-------------------------- MODULE MetaLoaderProofs --------------------------
(***************************************************************************)
(* Proofs about MetaLoader, for every number of files and statements, and  *)
(* about YamlInput, which makes the statements of the files, for every set *)
(* of entries and every number of them.                                    *)
(***************************************************************************)
EXTENDS MetaLoader, DbOpsProofs, YamlFile, Integers, Sequences, FiniteSetTheorems, TLAPS

(* A refused COMMIT leaves a PostgreSQL connection in autocommit mode.     *)
PsqlCommits == Backend = "psql" => ~CommitMayFail

(* Between two statements the transaction is new.                          *)
StartInv ==
  /\ TypeOK
  /\ Sound(conn)
  /\ PsqlCommits => CleanStart

(* The statements the loop has passed.                                     *)
Passed(t) == t[1] < file \/ (t[1] = file /\ t[2] < stmt)

(* What the open transaction holds is of the statement in hand, and what   *)
(* is durable of one that was described.                                   *)
EffectsPlaced ==
  \A h \in {"before", "after"}, t \in Stmts :
    /\ <<h, t>> \in conn.work => t = This
    /\ <<h, t>> \in conn.durable => outcome[t] = "described"

(* Nothing is known of the statement in hand nor of a later one, and only  *)
(* the hooks up to the place in the loop have run.                         *)
NotAhead ==
  pc # "end" =>
    \A t \in Stmts :
      ~Passed(t) =>
        /\ outcome[t] = "none"
        /\ <<"before", t>> \in ran => t = This /\ pc # "before"
        /\ <<"after", t>> \in ran => t = This /\ pc = "finish"

(* A hook that ran is pending as long as the transaction is intact, and an *)
(* after_sql that ran says that it still is.                               *)
RanIsPending ==
  pc \in {"describe", "after", "finish"} =>
    /\ \A h \in {"before", "after"} :
         conn.tx = "open" /\ <<h, This>> \in ran => <<h, This>> \in conn.work
    /\ <<"after", This>> \in ran => conn.tx \in {"open", "lost"}

HooksInv ==
  /\ StartInv
  /\ conn.tx # "none"
  /\ EffectsPlaced
  /\ NotAhead
  /\ RanIsPending
  /\ CompleteHooksStick

-----------------------------------------------------------------------------
(* The statement in hand and its hooks.                                    *)
LEMMA InHand ==
  ASSUME TypeOK
  PROVE  /\ This \in Stmts /\ This[1] = file /\ This[2] = stmt
         /\ <<"before", This>> \in Hooks /\ <<"after", This>> \in Hooks
  BY DEF TypeOK, This, Stmts, Hooks

(* The loop goes on to a statement of a file, or ends.                     *)
LEMMA AdvanceType ==
  ASSUME TypeOK, NEW s \in 1..NStmts, s >= stmt, Advance(file, s)
  PROVE  /\ file' \in 1..NFiles /\ stmt' \in 1..NStmts /\ pc' \in {"before", "end"}
         /\ hooks' \in SUBSET {"before", "after"}
         /\ pc' # "end" => file' > file \/ (file' = file /\ stmt' > s)
  BY MetaLoaderAssumption DEF TypeOK, Advance

(* Recording what became of the statement in hand.                         *)
LEMMA OutcomeType ==
  ASSUME TypeOK, NEW o \in {"none", "described", "refused"},
         outcome' = [outcome EXCEPT ![This] = o]
  PROVE  /\ outcome' \in [Stmts -> {"none", "described", "refused"}]
         /\ outcome'[This] = o
         /\ \A t \in Stmts : t # This => outcome'[t] = outcome[t]
  BY InHand DEF TypeOK

(* A hook that ran changes the connection and the record of it.            *)
LEMMA HookKeeps ==
  ASSUME TypeOK, Sound(conn), NEW h \in {"before", "after"},
         NEW a \in ExecAnswers(conn, <<h, This>>), RunHook(h, a)
  PROVE  /\ conn' \in Connections(Hooks) /\ Sound(conn')
         /\ a.ok \in BOOLEAN /\ ran' \in SUBSET Hooks
  <1>1. conn \in Connections(Hooks) /\ <<h, This>> \in Hooks /\ conn' = a.conn
    BY InHand DEF TypeOK, RunHook
  <1>2. a.ok \in BOOLEAN /\ conn' \in Connections(Hooks)
    BY <1>1, ExecType
  <1>3. ran' \in SUBSET Hooks
    BY <1>1 DEF TypeOK, RunHook
  <1>4. CASE Backend = "psql"
    <2>1. a \in StatementAnswers(conn, <<h, This>>)
      BY <1>4 DEF ExecAnswers
    <2>. QED
      BY <1>1, <1>2, <1>3, <1>4, <2>1, StatementOutcome DEF Sound, Is
  <1>5. CASE Backend = "db2"
    <2>1. a \in Db2ExecAnswers(conn, <<h, This>>)
      BY <1>5 DEF ExecAnswers
    <2>. QED
      BY <1>1, <1>2, <1>3, <1>5, <2>1, Db2ExecOutcome DEF Sound, Is
  <1>. QED
    BY <1>4, <1>5, DbTxAssumption

(* Describing the statement changes the connection as a failure does.      *)
LEMMA DescribeKeeps ==
  ASSUME TypeOK, Sound(conn), NEW a \in DescribeAnswers(conn), conn' = a.conn
  PROVE  conn' \in Connections(Hooks) /\ Sound(conn') /\ a.ok \in BOOLEAN
  <1>1. conn \in Connections(Hooks)
    BY DEF TypeOK
  <1>2. a.ok \in BOOLEAN /\ conn' \in Connections(Hooks)
    BY <1>1, DescribeType
  <1>3. Sound(conn')
    BY <1>1, DescribeOutcome DEF Sound, Is
  <1>. QED
    BY <1>2, <1>3

(* commit() or rollback() at the end of a statement.                       *)
LEMMA FinishKeeps ==
  ASSUME TypeOK, Sound(conn), NEW ok \in BOOLEAN, NEW a \in FinishAnswers(ok), conn' = a.conn
  PROVE  /\ conn' \in Connections(Hooks) /\ Sound(conn')
         /\ PsqlCommits /\ conn'.tx # "lost" => conn'.tx = "open" /\ conn'.work = {}
  <1>1. conn \in Connections(Hooks)
    BY DEF TypeOK
  <1>2. conn' \in Connections(Hooks)
    BY <1>1, CommitType, RollbackType DEF FinishAnswers
  <1>3. CASE ok
    <2>1. a \in CommitAnswers(conn)
      BY <1>3 DEF FinishAnswers
    <2>2. \/ Is(a.conn, "open", {}, conn.durable \cup conn.work)
          \/ Is(a.conn, "open", {}, conn.durable)
          \/ CommitMayFail /\ Is(a.conn, IF Backend = "psql" THEN "none" ELSE "open", {}, conn.durable)
          \/ Is(a.conn, "lost", {}, conn.durable)
          \/ Is(a.conn, "lost", {}, conn.durable \cup conn.work)
      BY <1>1, <2>1, CommitOutcome
    <2>. QED
      BY <1>2, <2>2, DbTxAssumption DEF Sound, Is, PsqlCommits
  <1>4. CASE ~ok
    <2>1. a \in RollbackAnswers(conn)
      BY <1>4 DEF FinishAnswers
    <2>2. Is(a.conn, "open", {}, conn.durable) \/ Is(a.conn, "lost", {}, conn.durable)
      BY <1>1, <2>1, RollbackOutcome
    <2>. QED
      BY <1>2, <2>2 DEF Sound, Is
  <1>. QED
    BY <1>3, <1>4

(* The worker's connection is new, and no statement is known.              *)
LEMMA StartInit == Init => StartInv
  <1>. SUFFICES ASSUME Init PROVE StartInv
    OBVIOUS
  <1>1. conn \in Connections(Hooks) /\ Is(conn, "open", {}, {})
    BY DEF Init, Connected, Connections, TxStates, Is
  <1>2. 1 \in 1..NFiles /\ 1 \in 1..NStmts
    BY MetaLoaderAssumption
  <1>3. TypeOK
    BY <1>1, <1>2 DEF Init, TypeOK
  <1>4. Sound(conn) /\ CleanStart
    BY <1>1 DEF Sound, Is, CleanStart
  <1>. QED
    BY <1>3, <1>4 DEF StartInv

(* Every step of the loop keeps the transaction between statements new.    *)
LEMMA StartNext == ASSUME StartInv, [Next]_vars PROVE StartInv'
  <1>0. TypeOK /\ Sound(conn) /\ (PsqlCommits => CleanStart)
    BY DEF StartInv
  <1>1. CASE NoBefore
    BY <1>0, <1>1 DEF NoBefore, TypeOK, StartInv, CleanStart, Sound
  <1>2. CASE Before
    <2>1. PICK a \in ExecAnswers(conn, <<"before", This>>) :
            RunHook("before", a) /\ pc' = IF a.ok THEN "describe" ELSE "giveup"
      BY <1>2 DEF Before
    <2>2. /\ conn' \in Connections(Hooks) /\ Sound(conn') /\ ran' \in SUBSET Hooks
      BY <1>0, <2>1, HookKeeps
    <2>3. TypeOK'
      BY <1>0, <1>2, <2>1, <2>2 DEF Before, TypeOK
    <2>. QED
      BY <2>1, <2>2, <2>3 DEF StartInv, CleanStart
  <1>3. CASE Describe
    <2>1. PICK a \in DescribeAnswers(conn) : conn' = a.conn /\ valid' = a.ok
      BY <1>3 DEF Describe
    <2>2. conn' \in Connections(Hooks) /\ Sound(conn') /\ valid' \in BOOLEAN
      BY <1>0, <2>1, DescribeKeeps
    <2>3. TypeOK' /\ pc' # "before"
      BY <1>0, <1>3, <2>2 DEF Describe, TypeOK
    <2>. QED
      BY <2>2, <2>3 DEF StartInv, CleanStart
  <1>4. CASE After
    <2>1. PICK a \in ExecAnswers(conn, <<"after", This>>) : RunHook("after", a)
      BY <1>4 DEF After
    <2>2. /\ conn' \in Connections(Hooks) /\ Sound(conn') /\ ran' \in SUBSET Hooks
      BY <1>0, <2>1, HookKeeps
    <2>3. TypeOK' /\ pc' # "before"
      BY <1>0, <1>4, <2>2 DEF After, TypeOK
    <2>. QED
      BY <2>2, <2>3 DEF StartInv, CleanStart
  <1>5. CASE Finish
    <2>1. PICK a \in FinishAnswers(TRUE) : conn' = a.conn
      BY <1>5 DEF Finish
    <2>2. /\ conn' \in Connections(Hooks) /\ Sound(conn')
          /\ PsqlCommits /\ conn'.tx # "lost" => conn'.tx = "open" /\ conn'.work = {}
      BY <1>0, <2>1, FinishKeeps
    <2>3. stmt \in 1..NStmts /\ stmt >= stmt /\ Advance(file, stmt)
      BY <1>0, <1>5 DEF Finish, TypeOK
    <2>4. /\ file' \in 1..NFiles /\ stmt' \in 1..NStmts /\ pc' \in {"before", "end"}
          /\ hooks' \in SUBSET {"before", "after"}
      BY <1>0, <2>3, AdvanceType
    <2>5. outcome' \in [Stmts -> {"none", "described", "refused"}]
      BY <1>0, <1>5, OutcomeType DEF Finish
    <2>6. TypeOK'
      BY <1>0, <1>5, <2>2, <2>4, <2>5 DEF Finish, TypeOK
    <2>. QED
      BY <2>2, <2>6 DEF StartInv, CleanStart, PsqlCommits
  <1>6. CASE GiveUp
    <2>1. PICK a \in FinishAnswers(FALSE) : conn' = a.conn
      BY <1>6 DEF GiveUp
    <2>2. /\ conn' \in Connections(Hooks) /\ Sound(conn')
          /\ PsqlCommits /\ conn'.tx # "lost" => conn'.tx = "open" /\ conn'.work = {}
      BY <1>0, <2>1, FinishKeeps
    <2>3. NStmts \in 1..NStmts /\ NStmts >= stmt /\ Advance(file, NStmts)
      BY <1>0, <1>6, MetaLoaderAssumption DEF GiveUp, TypeOK
    <2>4. /\ file' \in 1..NFiles /\ stmt' \in 1..NStmts /\ pc' \in {"before", "end"}
          /\ hooks' \in SUBSET {"before", "after"}
      BY <1>0, <2>3, AdvanceType
    <2>5. outcome' \in [Stmts -> {"none", "described", "refused"}]
      BY <1>0, <1>6, OutcomeType DEF GiveUp
    <2>6. TypeOK'
      BY <1>0, <1>6, <2>2, <2>4, <2>5 DEF GiveUp, TypeOK
    <2>. QED
      BY <2>2, <2>6 DEF StartInv, CleanStart, PsqlCommits
  <1>7. CASE UNCHANGED vars
    BY <1>0, <1>7 DEF vars, TypeOK, StartInv, CleanStart, Sound
  <1>. QED
    BY <1>1, <1>2, <1>3, <1>4, <1>5, <1>6, <1>7 DEF Next, Ended

(* Whatever failed before, a statement starts in an open transaction with  *)
(* nothing pending, on both backends; on PostgreSQL as long as the server  *)
(* does not refuse a COMMIT.                                               *)
THEOREM CleanStartThm ==
  ASSUME Backend = "psql" => ~CommitMayFail
  PROVE  Spec => []CleanStart
  <1>1. StartInv => CleanStart
    BY DEF StartInv, PsqlCommits
  <1>. QED
    BY <1>1, StartInit, StartNext, PTL DEF Spec

-----------------------------------------------------------------------------
(* On PostgreSQL, where exec() is part of the open transaction.            *)
PsqlOnly == Backend = "psql" /\ ~CommitMayFail

(* A hook joins the transaction in hand, or did not run.                   *)
LEMMA HookPending ==
  ASSUME PsqlOnly, HooksInv, NEW h \in {"before", "after"},
         NEW a \in ExecAnswers(conn, <<h, This>>), RunHook(h, a)
  PROVE  /\ a.ok \in BOOLEAN
         /\ conn'.durable = conn.durable
         /\ conn'.tx # "none"
         /\ conn.tx = "lost" => conn'.tx = "lost"
         /\ \/ a.ok /\ conn.tx = "open" /\ conn'.tx = "open" /\ ran' = ran \cup {<<h, This>>}
               /\ conn'.work = conn.work \cup {<<h, This>>}
            \/ ~a.ok /\ ran' = ran /\ conn'.tx # "open" /\ conn'.work \subseteq conn.work
  <1>1. conn \in Connections(Hooks) /\ <<h, This>> \in Hooks /\ conn' = a.conn /\ conn.tx # "none"
    BY InHand DEF HooksInv, StartInv, TypeOK, RunHook
  <1>2. a \in StatementAnswers(conn, <<h, This>>)
    BY DEF ExecAnswers, PsqlOnly
  <1>3. a.ok \in BOOLEAN
    BY <1>1, <1>2, StatementType
  <1>4. \/ a.ok /\ conn.tx = "open" /\ Is(a.conn, "open", conn.work \cup {<<h, This>>}, conn.durable)
        \/ ~a.ok /\ conn.tx = "open" /\ Is(a.conn, "aborted", conn.work, conn.durable)
        \/ ~a.ok /\ conn.tx # "open" /\ Is(a.conn, conn.tx, conn.work, conn.durable)
        \/ ~a.ok /\ Is(a.conn, "lost", {}, conn.durable)
    BY <1>1, <1>2, StatementOutcome DEF PsqlOnly
  <1>. QED
    BY <1>1, <1>3, <1>4 DEF Is, RunHook

(* A statement that is not the one in hand, after the loop went on.        *)
LEMMA AdvancePassed ==
  ASSUME TypeOK, NEW s \in 1..NStmts, s >= stmt, Advance(file, s), pc' # "end", NEW t \in Stmts,
         ~Passed(t)'
  PROVE  ~Passed(t) /\ t # This
  BY AdvanceType, InHand DEF Passed, TypeOK, Stmts

(* before_sql.                                                             *)
LEMMA BeforeHooks == ASSUME PsqlOnly, HooksInv, StartInv', Before PROVE HooksInv'
  <1>1. PICK a \in ExecAnswers(conn, <<"before", This>>) :
          RunHook("before", a) /\ pc' = IF a.ok THEN "describe" ELSE "giveup"
    BY DEF Before
  <1>2. /\ file' = file /\ stmt' = stmt /\ outcome' = outcome /\ This' = This /\ pc = "before"
        /\ TypeOK
    BY DEF Before, This, HooksInv, StartInv
  <1>3. /\ a.ok \in BOOLEAN
        /\ conn'.durable = conn.durable
        /\ conn'.tx # "none"
        /\ conn.tx = "lost" => conn'.tx = "lost"
        /\ \/ a.ok /\ conn.tx = "open" /\ conn'.tx = "open" /\ ran' = ran \cup {<<"before", This>>}
              /\ conn'.work = conn.work \cup {<<"before", This>>}
           \/ ~a.ok /\ ran' = ran /\ conn'.tx # "open" /\ conn'.work \subseteq conn.work
    BY <1>1, HookPending
  <1>4. EffectsPlaced'
    BY <1>2, <1>3 DEF HooksInv, EffectsPlaced
  <1>5. \A t \in Stmts : ~Passed(t)' <=> ~Passed(t)
    BY <1>2 DEF Passed
  <1>6. This \in Stmts /\ ~Passed(This)
    BY <1>2, InHand DEF Passed, TypeOK
  <1>7. <<"before", This>> \notin ran /\ <<"after", This>> \notin ran /\ outcome[This] = "none"
    BY <1>2, <1>6 DEF HooksInv, NotAhead
  <1>8. NotAhead'
    BY <1>1, <1>2, <1>3, <1>5 DEF HooksInv, NotAhead
  <1>9. RanIsPending'
    BY <1>1, <1>2, <1>3, <1>7 DEF RanIsPending
  <1>10. CompleteHooksStick'
    BY <1>2, <1>3, <1>6, <1>7 DEF HooksInv, CompleteHooksStick
  <1>. QED
    BY <1>3, <1>4, <1>8, <1>9, <1>10 DEF HooksInv

(* after_sql.                                                              *)
LEMMA AfterHooks == ASSUME PsqlOnly, HooksInv, StartInv', After PROVE HooksInv'
  <1>1. PICK a \in ExecAnswers(conn, <<"after", This>>) : RunHook("after", a)
    BY DEF After
  <1>2. /\ file' = file /\ stmt' = stmt /\ outcome' = outcome /\ This' = This /\ pc = "after"
        /\ pc' = "finish" /\ TypeOK
    BY DEF After, This, HooksInv, StartInv
  <1>3. /\ a.ok \in BOOLEAN
        /\ conn'.durable = conn.durable
        /\ conn'.tx # "none"
        /\ conn.tx = "lost" => conn'.tx = "lost"
        /\ \/ a.ok /\ conn.tx = "open" /\ conn'.tx = "open" /\ ran' = ran \cup {<<"after", This>>}
              /\ conn'.work = conn.work \cup {<<"after", This>>}
           \/ ~a.ok /\ ran' = ran /\ conn'.tx # "open" /\ conn'.work \subseteq conn.work
    BY <1>1, HookPending
  <1>4. EffectsPlaced'
    BY <1>2, <1>3 DEF HooksInv, EffectsPlaced
  <1>5. \A t \in Stmts : ~Passed(t)' <=> ~Passed(t)
    BY <1>2 DEF Passed
  <1>6. This \in Stmts /\ ~Passed(This)
    BY <1>2, InHand DEF Passed, TypeOK
  <1>7. <<"after", This>> \notin ran /\ outcome[This] = "none"
    BY <1>2, <1>6 DEF HooksInv, NotAhead
  <1>8. NotAhead'
    BY <1>2, <1>3, <1>5 DEF HooksInv, NotAhead
  <1>9. RanIsPending'
    BY <1>2, <1>3, <1>7 DEF HooksInv, RanIsPending
  <1>10. CompleteHooksStick'
    BY <1>2, <1>3, <1>6, <1>7 DEF HooksInv, CompleteHooksStick
  <1>. QED
    BY <1>3, <1>4, <1>8, <1>9, <1>10 DEF HooksInv

(* get_sql_metadata().                                                     *)
LEMMA DescribeHooks == ASSUME PsqlOnly, HooksInv, StartInv', Describe PROVE HooksInv'
  <1>1. PICK a \in DescribeAnswers(conn) : conn' = a.conn
    BY DEF Describe
  <1>2. /\ file' = file /\ stmt' = stmt /\ outcome' = outcome /\ This' = This /\ pc = "describe"
        /\ pc' \in {"after", "finish"} /\ ran' = ran /\ TypeOK /\ conn \in Connections(Hooks)
        /\ conn.tx # "none"
    BY DEF Describe, This, HooksInv, StartInv, TypeOK
  <1>3. /\ conn'.durable = conn.durable /\ conn'.tx # "none" /\ conn'.work \subseteq conn.work
        /\ conn.tx = "lost" => conn'.tx = "lost"
        /\ conn'.tx = "open" => conn.tx = "open" /\ conn'.work = conn.work
    BY <1>1, <1>2, DescribeOutcome DEF Is
  <1>4. EffectsPlaced'
    BY <1>2, <1>3 DEF HooksInv, EffectsPlaced
  <1>5. \A t \in Stmts : ~Passed(t)' <=> ~Passed(t)
    BY <1>2 DEF Passed
  <1>6. This \in Stmts /\ ~Passed(This)
    BY <1>2, InHand DEF Passed, TypeOK
  <1>7. <<"after", This>> \notin ran
    BY <1>2, <1>6 DEF HooksInv, NotAhead
  <1>8. NotAhead'
    BY <1>2, <1>5 DEF HooksInv, NotAhead
  <1>9. RanIsPending'
    BY <1>2, <1>3, <1>7 DEF HooksInv, RanIsPending
  <1>10. CompleteHooksStick'
    BY <1>2, <1>3 DEF HooksInv, CompleteHooksStick
  <1>. QED
    BY <1>3, <1>4, <1>8, <1>9, <1>10 DEF HooksInv

(* commit() after a described statement.                                   *)
LEMMA FinishHooks == ASSUME PsqlOnly, HooksInv, StartInv', Finish PROVE HooksInv'
  <1>1. PICK a \in FinishAnswers(TRUE) : conn' = a.conn
    BY DEF Finish
  <1>2. /\ pc = "finish" /\ ran' = ran /\ TypeOK /\ conn \in Connections(Hooks) /\ Sound(conn)
        /\ Advance(file, stmt) /\ stmt \in 1..NStmts /\ stmt >= stmt
        /\ outcome' = [outcome EXCEPT ![This] = "described"]
    BY DEF Finish, HooksInv, StartInv, TypeOK
  <1>3. \/ conn.tx = "open" /\ Is(conn', "open", {}, conn.durable \cup conn.work)
        \/ conn.tx \in {"aborted", "none"} /\ Is(conn', "open", {}, conn.durable)
        \/ Is(conn', "lost", {}, conn.durable)
        \/ conn.tx = "open" /\ Is(conn', "lost", {}, conn.durable \cup conn.work)
    BY <1>1, <1>2, CommitOutcome DEF PsqlOnly, FinishAnswers
  <1>4. /\ This \in Stmts /\ outcome'[This] = "described"
        /\ \A t \in Stmts : t # This => outcome'[t] = outcome[t]
    BY <1>2, InHand, OutcomeType
  <1>5. EffectsPlaced'
    BY <1>3, <1>4 DEF HooksInv, EffectsPlaced, Is
  <1>6. NotAhead'
    <2>. SUFFICES ASSUME pc' # "end", NEW t \in Stmts, ~Passed(t)'
                  PROVE  outcome'[t] = "none" /\ <<"before", t>> \notin ran' /\ <<"after", t>> \notin ran'
      BY DEF NotAhead
    <2>1. ~Passed(t) /\ t # This
      BY <1>2, AdvancePassed
    <2>. QED
      BY <1>2, <1>4, <2>1 DEF HooksInv, NotAhead
  <1>7. RanIsPending'
    BY <1>2, AdvanceType DEF RanIsPending
  <1>8. CompleteHooksStick'
    <2>. SUFFICES ASSUME NEW t \in Stmts, outcome'[t] = "described", conn'.tx # "lost",
                         <<"before", t>> \in ran, <<"after", t>> \in ran
                  PROVE  {<<"before", t>>, <<"after", t>>} \subseteq conn'.durable
      BY <1>2 DEF CompleteHooksStick
    <2>1. conn.tx # "lost" /\ conn.durable \subseteq conn'.durable
          /\ (conn.tx = "open" => conn.work \subseteq conn'.durable)
      BY <1>3 DEF Is
    <2>2. CASE t = This
      BY <1>2, <2>1, <2>2 DEF HooksInv, RanIsPending
    <2>3. CASE t # This
      BY <1>4, <2>1, <2>3 DEF HooksInv, CompleteHooksStick
    <2>. QED
      BY <2>2, <2>3
  <1>9. conn'.tx # "none"
    BY <1>3 DEF Is
  <1>. QED
    BY <1>5, <1>6, <1>7, <1>8, <1>9 DEF HooksInv

(* rollback() after a statement that was refused.                          *)
LEMMA GiveUpHooks == ASSUME PsqlOnly, HooksInv, StartInv', GiveUp PROVE HooksInv'
  <1>1. PICK a \in FinishAnswers(FALSE) : conn' = a.conn
    BY DEF GiveUp
  <1>2. /\ pc \in {"giveup", "finish"} /\ ran' = ran /\ TypeOK /\ conn \in Connections(Hooks)
        /\ Sound(conn)
        /\ Advance(file, NStmts) /\ NStmts \in 1..NStmts /\ NStmts >= stmt
        /\ outcome' = [outcome EXCEPT ![This] = "refused"]
    BY MetaLoaderAssumption DEF GiveUp, HooksInv, StartInv, TypeOK
  <1>3. \/ conn.tx # "lost" /\ Is(conn', "open", {}, conn.durable)
        \/ Is(conn', "lost", {}, conn.durable)
    BY <1>1, <1>2, RollbackOutcome DEF FinishAnswers
  <1>4. /\ This \in Stmts /\ outcome'[This] = "refused"
        /\ \A t \in Stmts : t # This => outcome'[t] = outcome[t]
    BY <1>2, InHand, OutcomeType
  <1>5. ~Passed(This) /\ outcome[This] = "none"
    BY <1>2, <1>4, InHand DEF HooksInv, NotAhead, Passed, TypeOK
  <1>6. EffectsPlaced'
    BY <1>3, <1>4, <1>5 DEF HooksInv, EffectsPlaced, Is
  <1>7. NotAhead'
    <2>. SUFFICES ASSUME pc' # "end", NEW t \in Stmts, ~Passed(t)'
                  PROVE  outcome'[t] = "none" /\ <<"before", t>> \notin ran' /\ <<"after", t>> \notin ran'
      BY DEF NotAhead
    <2>1. ~Passed(t) /\ t # This
      BY <1>2, AdvancePassed
    <2>. QED
      BY <1>2, <1>4, <2>1 DEF HooksInv, NotAhead
  <1>8. RanIsPending'
    BY <1>2, AdvanceType DEF RanIsPending
  <1>9. CompleteHooksStick'
    BY <1>2, <1>3, <1>4 DEF HooksInv, CompleteHooksStick, Is
  <1>10. conn'.tx # "none"
    BY <1>3 DEF Is
  <1>. QED
    BY <1>6, <1>7, <1>8, <1>9, <1>10 DEF HooksInv

(* The loop starts with nothing run.                                       *)
LEMMA HooksInit == ASSUME Init PROVE HooksInv
  <1>1. StartInv
    BY StartInit
  <1>2. Is(conn, "open", {}, {})
    BY DEF Init, Connected, Is
  <1>3. \A t \in Stmts : outcome[t] = "none"
    BY DEF Init
  <1>. QED
    BY <1>1, <1>2, <1>3 DEF Init, HooksInv, EffectsPlaced, NotAhead, RanIsPending, CompleteHooksStick, Is

(* Every step keeps the placement of the hooks.                            *)
LEMMA HooksNext == ASSUME PsqlOnly, HooksInv, [Next]_vars PROVE HooksInv'
  <1>1. StartInv'
    BY StartNext DEF HooksInv
  <1>2. CASE NoBefore
    <2>1. /\ file' = file /\ stmt' = stmt /\ outcome' = outcome /\ This' = This /\ pc = "before"
          /\ pc' = "describe" /\ ran' = ran /\ conn' = conn /\ TypeOK
      BY <1>2 DEF NoBefore, This, HooksInv, StartInv
    <2>2. \A t \in Stmts : ~Passed(t)' <=> ~Passed(t)
      BY <2>1 DEF Passed
    <2>3. This \in Stmts /\ ~Passed(This)
      BY <2>1, InHand DEF Passed, TypeOK
    <2>4. <<"before", This>> \notin ran /\ <<"after", This>> \notin ran
      BY <2>1, <2>3 DEF HooksInv, NotAhead
    <2>. QED
      BY <1>1, <2>1, <2>2, <2>4
      DEF HooksInv, EffectsPlaced, NotAhead, RanIsPending, CompleteHooksStick
  <1>3. CASE UNCHANGED vars
    BY <1>1, <1>3 DEF vars, HooksInv, EffectsPlaced, NotAhead, RanIsPending, CompleteHooksStick,
                      Passed, This
  <1>. QED
    BY <1>1, <1>2, <1>3, BeforeHooks, AfterHooks, DescribeHooks, FinishHooks, GiveUpHooks
    DEF Next, Ended

(* What the placement says of the statement in hand and the refused ones.  *)
LEMMA HooksAtomicFact == ASSUME HooksInv PROVE HooksAtomic
  <1>1. TypeOK /\ This \in Stmts /\ ~Passed(This)
    BY InHand DEF HooksInv, StartInv, Passed, TypeOK
  <1>2. RefusedLeavesNothing
    BY DEF HooksInv, EffectsPlaced, RefusedLeavesNothing
  <1>3. OneUnitOfWork
    BY <1>1 DEF HooksInv, EffectsPlaced, NotAhead, OneUnitOfWork
  <1>. QED
    BY <1>1, <1>2, <1>3 DEF HooksInv, HooksAtomic

(* On PostgreSQL, with no COMMIT refused: a statement's hooks are visible  *)
(* to nobody before it is described, stay undone when it is refused, and   *)
(* are both durable when it is described and both ran.                     *)
THEOREM HooksAtomicThm ==
  ASSUME Backend = "psql", ~CommitMayFail
  PROVE  Spec => []HooksAtomic
  <1>1. PsqlOnly
    BY DEF PsqlOnly
  <1>2. HooksInv /\ [Next]_vars => HooksInv'
    BY <1>1, HooksNext
  <1>3. Init => HooksInv
    BY HooksInit
  <1>4. HooksInv => HooksAtomic
    BY HooksAtomicFact
  <1>. QED
    BY <1>2, <1>3, <1>4, PTL DEF Spec

-----------------------------------------------------------------------------
(* The parse of one file: YamlInput, by way of YamlFile.                   *)

(* What yaml-cpp hands over: maps and lists are finite.                    *)
EntriesOK ==
  /\ MaxStmts \in Nat
  /\ \A e \in Entries :
       /\ Y!is_map(e.field_len) => IsFiniteSet(DOMAIN e.field_len.content)
       /\ Y!SeqOK(e.parameter_names) => \E S : e.parameter_names.content \in Seq(S)

(* The first n entries read are the statements of the map, each under its  *)
(* own id.                                                                 *)
IdOf(e) == Y!AsString(e.id)
Added(rd, st, n) ==
  /\ \A i \in 1..n : Y!StringOK(rd[i].id) /\ st[IdOf(rd[i])] = Y!Statement(rd[i])
  /\ \A i, j \in 1..n : IdOf(rd[i]) = IdOf(rd[j]) => i = j
  /\ DOMAIN st = {IdOf(rd[i]) : i \in 1..n}
  /\ IsFiniteSet(DOMAIN st) /\ Cardinality(DOMAIN st) = n
Unspoilt == sts \in {"reading", "ok"}
NoComplaint(rd) == \A i \in 1..Len(rd) : Y!EntryComplaints(rd[i]) = 0

(* The inductive invariant: the entries read are in the map, all of them   *)
(* or, once the file is given up, all but the last.                        *)
YamlInv ==
  /\ read \in Seq(Entries) /\ left \in Seq(Entries) /\ complaints \in Nat
  /\ sts = "ok" => left = <<>>
  /\ \E n \in Nat : /\ Added(read, stmts, n) /\ n <= Len(read) /\ Len(read) <= n + 1
                    /\ Unspoilt => n = Len(read)
  /\ Unspoilt /\ complaints = 0 => NoComplaint(read)

(* The instance counts with the host's Cardinality.                        *)
LEMMA SameCardinality == \A S : Y!Cardinality(S) = Cardinality(S)
  BY DEF Y!Cardinality, Cardinality

(* Complaints are counted.                                                 *)
LEMMA ComplaintsType ==
  ASSUME EntriesOK, NEW e \in Entries
  PROVE  /\ Y!EntryComplaints(e) \in Nat
         /\ Y!EntryComplaints(e) = 0 =>
              /\ Y!DialectComplaints(e) = 0 /\ Y!HookComplaints(e.before) = 0
              /\ Y!Complains(e.par_buf_size, Y!SizeOK(e.par_buf_size)) = 0
              /\ Y!SizeComplaints(e.field_len) = 0
              /\ Y!Complains(e.parameter_names, Y!SeqOK(e.parameter_names)) = 0
  <1>1. ASSUME NEW n, NEW ok PROVE Y!Complains(n, ok) \in Nat
    BY DEF Y!Complains
  <1>2. ASSUME NEW m PROVE Y!DialectComplaints(m) \in Nat
    BY <1>1 DEF Y!DialectComplaints
  <1>3. Y!HookComplaints(e.before) \in Nat
    BY <1>2 DEF Y!HookComplaints
  <1>4. Y!SizeComplaints(e.field_len) \in Nat
    <2>1. CASE Y!is_map(e.field_len)
      <3>1. IsFiniteSet(DOMAIN e.field_len.content)
        BY <2>1 DEF EntriesOK
      <3>2. IsFiniteSet(DOMAIN e.field_len.content \ Y!GoodLens(e.field_len.content))
        BY <3>1, FS_Difference
      <3>. QED
        BY <2>1, <3>2, FS_CardinalityType, SameCardinality DEF Y!SizeComplaints
    <2>2. CASE ~Y!is_map(e.field_len)
      BY <1>1, <2>2 DEF Y!SizeComplaints
    <2>. QED
      BY <2>1, <2>2
  <1>. DEFINE a == Y!DialectComplaints(e)
              b == Y!HookComplaints(e.before)
              c == Y!Complains(e.par_buf_size, Y!SizeOK(e.par_buf_size))
              d == Y!SizeComplaints(e.field_len)
              f == Y!Complains(e.parameter_names, Y!SeqOK(e.parameter_names))
              g == Y!Complains(e.id, Y!StringOK(e.id))
  <1>5. a \in Nat /\ b \in Nat /\ c \in Nat /\ d \in Nat /\ f \in Nat /\ g \in Nat
    BY <1>1, <1>2, <1>3, <1>4
  <1>6. Y!EntryComplaints(e) = a + b + c + d + f + g
    BY DEF Y!EntryComplaints
  <1>. HIDE DEF a, b, c, d, f, g
  <1>7. a + b + c + d + f + g \in Nat /\ (a + b + c + d + f + g = 0 => a = 0 /\ b = 0 /\ c = 0 /\ d = 0 /\ f = 0)
    BY <1>5
  <1>. QED
    BY <1>6, <1>7 DEF a, b, c, d, f

(* The entries a file may hold are a sequence.                             *)
LEMMA LeftType ==
  ASSUME EntriesOK, NEW s \in UNION {[1..n -> Entries] : n \in 0..MaxStmts}
  PROVE  s \in Seq(Entries)
  <1>1. PICK n \in 0..MaxStmts : s \in [1..n -> Entries]
    OBVIOUS
  <1>2. n \in Nat
    BY DEF EntriesOK
  <1>. QED
    BY <1>1, <1>2

(* Nothing is read at the start.                                           *)
LEMMA YamlInit ==
  ASSUME Y!Init
  PROVE  YamlInv
  <1>1. left = <<>> /\ read = <<>> /\ stmts = <<>> /\ sts = "reading" /\ complaints = 0
    BY DEF Y!Init
  <1>2. DOMAIN stmts = {} /\ Len(read) = 0 /\ left \in Seq(Entries) /\ read \in Seq(Entries)
    BY <1>1
  <1>3. IsFiniteSet({}) /\ Cardinality({}) = 0
    BY FS_EmptySet
  <1>4. Added(read, stmts, 0)
    BY <1>2, <1>3 DEF Added
  <1>5. NoComplaint(read)
    BY <1>2 DEF NoComplaint
  <1>6. \E n \in Nat : /\ Added(read, stmts, n) /\ n <= Len(read) /\ Len(read) <= n + 1
                       /\ Unspoilt => n = Len(read)
    BY <1>2, <1>4
  <1>. QED
    BY <1>1, <1>2, <1>5, <1>6 DEF YamlInv

(* load(), and what it makes of the file.                                  *)
LEMMA YamlLoad ==
  ASSUME EntriesOK, YamlInv, Y!Load
  PROVE  YamlInv'
  <1>1. sts = "reading" /\ read' = read /\ stmts' = stmts
    BY DEF Y!Load
  <1>2. PICK n \in Nat : Added(read, stmts, n) /\ n = Len(read)
    BY <1>1 DEF YamlInv, Unspoilt
  <1>3. CASE sts' \in {"file_cant_be_open", "yaml_syntax_error"} /\ left' = left /\ complaints' = complaints + 0
    <2>1. left' \in Seq(Entries) /\ read' \in Seq(Entries) /\ complaints' \in Nat /\ sts' # "ok" /\ ~Unspoilt'
      BY <1>1, <1>3 DEF YamlInv, Unspoilt
    <2>2. Added(read', stmts', n) /\ n <= Len(read') /\ Len(read') <= n + 1
      BY <1>1, <1>2
    <2>. QED
      BY <2>1, <2>2 DEF YamlInv
  <1>4. CASE left' \in Seq(Entries) /\ sts' = sts /\ complaints' = complaints
    <2>1. read' \in Seq(Entries) /\ complaints' \in Nat /\ sts' # "ok"
      BY <1>1, <1>4 DEF YamlInv
    <2>2. Added(read', stmts', n) /\ n = Len(read') /\ n <= Len(read') /\ Len(read') <= n + 1
      BY <1>1, <1>2
    <2>3. complaints' = 0 => NoComplaint(read')
      BY <1>1, <1>4 DEF YamlInv, Unspoilt
    <2>. QED
      BY <1>4, <2>1, <2>2, <2>3 DEF YamlInv
  <1>5. \/ sts' \in {"file_cant_be_open", "yaml_syntax_error"} /\ left' = left /\ complaints' = complaints + 0
        \/ left' \in Seq(Entries) /\ sts' = sts /\ complaints' = complaints
    <2>1. ASSUME left' \in IF root' = "map" THEN UNION {[1..m -> Entries] : m \in 0..MaxStmts} ELSE {<<>>}
          PROVE  left' \in Seq(Entries)
      <3>1. CASE root' = "map"
        BY <2>1, <3>1, LeftType
      <3>2. CASE root' # "map"
        BY <2>1, <3>2
      <3>. QED
        BY <3>1, <3>2
    <2>. QED
      BY <2>1 DEF Y!Load, Y!Return
  <1>. QED
    BY <1>3, <1>4, <1>5

(* get_seq_of_maps("statements") fails: nothing more is read.              *)
LEMMA YamlGivenUp ==
  ASSUME YamlInv, sts = "reading", sts' \notin {"reading", "ok"}, left' = left, read' = read, stmts' = stmts,
         complaints' \in Nat
  PROVE  YamlInv'
  <1>1. PICK n \in Nat : Added(read, stmts, n) /\ n = Len(read)
    BY DEF YamlInv, Unspoilt
  <1>2. ~Unspoilt' /\ sts' # "ok"
    BY DEF Unspoilt
  <1>3. left' \in Seq(Entries) /\ read' \in Seq(Entries)
    BY DEF YamlInv
  <1>4. Added(read', stmts', n) /\ n <= Len(read') /\ Len(read') <= n + 1
    BY <1>1
  <1>. QED
    BY <1>2, <1>3, <1>4 DEF YamlInv

(* The file is given up without its statements.                            *)
LEMMA YamlNoStatements ==
  ASSUME YamlInv, Y!NoStatements
  PROVE  YamlInv'
  <1>1. /\ sts = "reading" /\ sts' \notin {"reading", "ok"} /\ left' = left /\ read' = read /\ stmts' = stmts
        /\ complaints' \in Nat
    BY DEF Y!NoStatements, Y!Return, YamlInv
  <1>. QED
    BY <1>1, YamlGivenUp

(* The end of the list.                                                    *)
LEMMA YamlFinish ==
  ASSUME YamlInv, Y!Finish
  PROVE  YamlInv'
  <1>1. /\ sts = "reading" /\ sts' = "ok" /\ left = <<>> /\ left' = left /\ read' = read /\ stmts' = stmts
        /\ complaints' = complaints
    BY DEF Y!Finish, Y!Return, YamlInv
  <1>2. PICK n \in Nat : Added(read, stmts, n) /\ n = Len(read)
    BY <1>1 DEF YamlInv, Unspoilt
  <1>3. Added(read', stmts', n) /\ n = Len(read') /\ n <= Len(read') /\ Len(read') <= n + 1
    BY <1>1, <1>2
  <1>4. complaints' = 0 => NoComplaint(read')
    BY <1>1 DEF YamlInv, Unspoilt
  <1>5. left' \in Seq(Entries) /\ read' \in Seq(Entries) /\ complaints' \in Nat
    BY <1>1 DEF YamlInv
  <1>. QED
    BY <1>1, <1>3, <1>4, <1>5 DEF YamlInv

(* An entry read leaves the list of those to read.                         *)
LEMMA Consumed ==
  ASSUME YamlInv, left # <<>>, NEW e, e = Head(left), Y!Consume(e)
  PROVE  /\ e \in Entries /\ left' \in Seq(Entries) /\ read' \in Seq(Entries)
         /\ Len(read') = Len(read) + 1 /\ read'[Len(read) + 1] = e
         /\ \A i \in 1..Len(read) : read'[i] = read[i]
  <1>1. left \in Seq(Entries) /\ read \in Seq(Entries)
    BY DEF YamlInv
  <1>2. e \in Entries
    BY <1>1
  <1>3. left' = Tail(left) /\ read' = Append(read, e)
    BY DEF Y!Consume
  <1>. QED
    BY <1>1, <1>2, <1>3

(* The statements of the map stay those of the entries read first.         *)
LEMMA AddedStays ==
  ASSUME NEW rd, NEW rd2, NEW st, NEW n \in Nat, Added(rd, st, n), \A i \in 1..n : rd2[i] = rd[i]
  PROVE  Added(rd2, st, n)
  <1>1. {IdOf(rd[i]) : i \in 1..n} = {IdOf(rd2[i]) : i \in 1..n}
    OBVIOUS
  <1>2. \A i \in 1..n : Y!StringOK(rd2[i].id) /\ st[IdOf(rd2[i])] = Y!Statement(rd2[i])
    BY DEF Added
  <1>3. \A i, j \in 1..n : IdOf(rd2[i]) = IdOf(rd2[j]) => i = j
    BY DEF Added
  <1>. QED
    BY <1>1, <1>2, <1>3 DEF Added

(* An entry that ends the parse is read, and not in the map.               *)
LEMMA YamlRefused ==
  ASSUME EntriesOK, YamlInv, sts = "reading", left # <<>>, NEW e, e = Head(left), Y!Consume(e),
         sts' \notin {"reading", "ok"}, stmts' = stmts, NEW k \in Nat,
         complaints' = complaints + (Y!EntryComplaints(e) + k)
  PROVE  YamlInv'
  <1>1. PICK n \in Nat : Added(read, stmts, n) /\ n = Len(read)
    BY DEF YamlInv, Unspoilt
  <1>2. /\ e \in Entries /\ left' \in Seq(Entries) /\ read' \in Seq(Entries)
        /\ Len(read') = Len(read) + 1 /\ \A i \in 1..n : read'[i] = read[i]
    BY <1>1, Consumed
  <1>3. Added(read', stmts', n)
    BY <1>1, <1>2, AddedStays
  <1>4. n <= Len(read') /\ Len(read') <= n + 1
    BY <1>1, <1>2
  <1>5. complaints' \in Nat
    <2>1. Y!EntryComplaints(e) \in Nat
      BY <1>2, ComplaintsType
    <2>. QED
      BY <2>1 DEF YamlInv
  <1>6. ~Unspoilt' /\ sts' # "ok"
    BY DEF Unspoilt
  <1>. QED
    BY <1>2, <1>3, <1>4, <1>5, <1>6 DEF YamlInv

(* add_statement(): one statement more, under an id that was free.         *)
LEMMA AddedOneMore ==
  ASSUME NEW rd, NEW rd2, NEW st, NEW st2, NEW n \in Nat, Added(rd, st, n),
         \A i \in 1..n : rd2[i] = rd[i],
         NEW e, rd2[n + 1] = e, Y!StringOK(e.id), NEW id, id = IdOf(e), id \notin DOMAIN st,
         DOMAIN st2 = DOMAIN st \cup {id}, st2[id] = Y!Statement(e), \A i \in DOMAIN st : st2[i] = st[i]
  PROVE  Added(rd2, st2, n + 1)
  <1>1. \A i \in 1..n : rd2[i] = rd[i] /\ IdOf(rd[i]) \in DOMAIN st
    BY DEF Added
  <1>2. \A i \in 1..(n + 1) : i \in 1..n \/ i = n + 1
    OBVIOUS
  <1>3. \A i \in 1..(n + 1) : Y!StringOK(rd2[i].id) /\ st2[IdOf(rd2[i])] = Y!Statement(rd2[i])
    <2>1. \A i \in 1..n : Y!StringOK(rd2[i].id) /\ st2[IdOf(rd2[i])] = Y!Statement(rd2[i])
      BY <1>1 DEF Added
    <2>. QED
      BY <1>2, <2>1
  <1>4. \A i \in 1..n : IdOf(rd2[i]) # IdOf(rd2[n + 1])
    BY <1>1
  <1>5. \A i, j \in 1..(n + 1) : IdOf(rd2[i]) = IdOf(rd2[j]) => i = j
    <2>1. \A i, j \in 1..n : IdOf(rd2[i]) = IdOf(rd2[j]) => i = j
      BY <1>1 DEF Added
    <2>. QED
      BY <1>2, <1>4, <2>1
  <1>6. DOMAIN st2 = {IdOf(rd2[i]) : i \in 1..(n + 1)}
    <2>1. DOMAIN st = {IdOf(rd2[i]) : i \in 1..n}
      <3>1. DOMAIN st = {IdOf(rd[i]) : i \in 1..n}
        BY DEF Added
      <3>. QED
        BY <1>1, <3>1
    <2>2. \A x : x \in {IdOf(rd2[i]) : i \in 1..(n + 1)} <=> x \in {IdOf(rd2[i]) : i \in 1..n} \/ x = IdOf(rd2[n + 1])
      <3>1. n + 1 \in 1..(n + 1) /\ \A i \in 1..n : i \in 1..(n + 1)
        OBVIOUS
      <3>. QED
        BY <1>2, <3>1
    <2>3. id = IdOf(rd2[n + 1])
      OBVIOUS
    <2>. QED
      BY <2>1, <2>2, <2>3
  <1>7. IsFiniteSet(DOMAIN st2) /\ Cardinality(DOMAIN st2) = n + 1
    <2>1. IsFiniteSet(DOMAIN st) /\ Cardinality(DOMAIN st) = n
      BY DEF Added
    <2>. QED
      BY <2>1, FS_AddElement
  <1>. QED
    BY <1>3, <1>5, <1>6, <1>7 DEF Added

(* An entry with an id of its own and sql is added.                        *)
LEMMA YamlAdd ==
  ASSUME EntriesOK, YamlInv, sts = "reading", left # <<>>, NEW e, e = Head(left), Y!Add(e)
  PROVE  YamlInv'
  <1>1. PICK n \in Nat : Added(read, stmts, n) /\ n = Len(read)
    BY DEF YamlInv, Unspoilt
  <1>2. Y!Consume(e) /\ sts' = sts /\ complaints' = complaints + Y!EntryComplaints(e)
    BY DEF Y!Add
  <1>3. /\ e \in Entries /\ left' \in Seq(Entries) /\ read' \in Seq(Entries)
        /\ Len(read') = n + 1 /\ read'[n + 1] = e /\ \A i \in 1..n : read'[i] = read[i]
    BY <1>1, <1>2, Consumed
  <1>4. PICK id : id = IdOf(e)
    OBVIOUS
  <1>5. /\ Y!StringOK(e.id) /\ id \notin DOMAIN stmts
        /\ stmts' = [i \in DOMAIN stmts \cup {id} |-> IF i = id THEN Y!Statement(e) ELSE stmts[i]]
    BY <1>4 DEF Y!Add, Y!Taken, Y!add_statement, IdOf
  <1>6. /\ DOMAIN stmts' = DOMAIN stmts \cup {id} /\ stmts'[id] = Y!Statement(e)
        /\ \A i \in DOMAIN stmts : stmts'[i] = stmts[i]
    BY <1>5
  <1>7. Added(read', stmts', n + 1)
    BY <1>1, <1>3, <1>4, <1>5, <1>6, AddedOneMore
  <1>8. Y!EntryComplaints(e) \in Nat /\ complaints \in Nat
    BY <1>3, ComplaintsType DEF YamlInv
  <1>9. complaints' \in Nat /\ (complaints' = 0 => complaints = 0 /\ Y!EntryComplaints(e) = 0)
    BY <1>2, <1>8
  <1>10. complaints' = 0 => NoComplaint(read')
    <2>1. complaints' = 0 => \A i \in 1..n : Y!EntryComplaints(read[i]) = 0
      BY <1>1, <1>9 DEF YamlInv, NoComplaint, Unspoilt
    <2>2. \A i \in 1..(n + 1) : i \in 1..n \/ i = n + 1
      OBVIOUS
    <2>. QED
      BY <1>3, <1>9, <2>1, <2>2 DEF NoComplaint
  <1>11. sts' # "ok" /\ n + 1 \in Nat /\ n + 1 = Len(read') /\ n + 1 <= Len(read') /\ Len(read') <= (n + 1) + 1
    BY <1>2, <1>3
  <1>. QED
    BY <1>3, <1>7, <1>9, <1>10, <1>11 DEF YamlInv

(* One turn of the loop of parse_yaml_file_json().                         *)
LEMMA YamlEntry ==
  ASSUME EntriesOK, YamlInv, Y!Entry
  PROVE  YamlInv'
  <1>1. PICK e : e = Head(left)
    OBVIOUS
  <1>2. sts = "reading" /\ left # <<>> /\ (Y!NoId(e) \/ Y!NoSql(e) \/ Y!Duplicate(e) \/ Y!Add(e))
    BY <1>1 DEF Y!Entry
  <1>3. CASE Y!NoId(e)
    <2>1. /\ Y!Consume(e) /\ sts' \notin {"reading", "ok"} /\ stmts' = stmts
          /\ complaints' = complaints + (Y!EntryComplaints(e) + 1)
      BY <1>3 DEF Y!NoId, Y!Return
    <2>. QED
      BY <1>1, <1>2, <2>1, YamlRefused
  <1>4. CASE Y!NoSql(e)
    <2>1. /\ Y!Consume(e) /\ sts' \notin {"reading", "ok"} /\ stmts' = stmts
          /\ complaints' = complaints + (Y!EntryComplaints(e) + 1)
      BY <1>4 DEF Y!NoSql, Y!Return
    <2>. QED
      BY <1>1, <1>2, <2>1, YamlRefused
  <1>5. CASE Y!Duplicate(e)
    <2>1. /\ Y!Consume(e) /\ sts' \notin {"reading", "ok"} /\ stmts' = stmts
          /\ complaints' = complaints + (Y!EntryComplaints(e) + 2)
      BY <1>5 DEF Y!Duplicate, Y!Return
    <2>. QED
      BY <1>1, <1>2, <2>1, YamlRefused
  <1>6. CASE Y!Add(e)
    BY <1>1, <1>2, <1>6, YamlAdd
  <1>. QED
    BY <1>2, <1>3, <1>4, <1>5, <1>6

(* Every step keeps the invariant.                                         *)
LEMMA YamlStep ==
  ASSUME EntriesOK, YamlInv, [Y!Next]_(Y!vars)
  PROVE  YamlInv'
  <1>1. CASE UNCHANGED Y!vars
    BY <1>1 DEF Y!vars, YamlInv, Added, Unspoilt, NoComplaint
  <1>2. CASE Y!Next
    BY <1>1, <1>2, YamlLoad, YamlNoStatements, YamlEntry, YamlFinish DEF Y!Next, Y!Done
  <1>. QED
    BY <1>1, <1>2

(* Without a complaint, resolve_dialect_sql() gives the sql as written.    *)
LEMMA DialectResolved ==
  ASSUME NEW m, Y!DialectComplaints(m) = 0, NEW sql, sql = Y!Trimmed(Y!resolve_dialect_sql(m))
  PROVE  Y!SqlAsWritten(m, sql)
  <1>1. \A n, ok : Y!Complains(n, ok) \in {0, 1}
    BY DEF Y!Complains
  <1>2. Y!Complains(m.sql, Y!StringOK(m.sql)) = 0 /\ Y!Complains(m.psql, Y!StringOK(m.psql)) = 0
    BY <1>1 DEF Y!DialectComplaints
  <1>3. (Y!exists(m.sql) => Y!StringOK(m.sql)) /\ (Y!exists(m.psql) => Y!StringOK(m.psql))
    BY <1>2 DEF Y!Complains
  <1>4. ~Y!exists(m.psql) => ~Y!StringOK(m.psql)
    BY DEF Y!exists, Y!StringOK
  <1>5. CASE Y!exists(m.psql)
    BY <1>3, <1>5 DEF Y!SqlAsWritten, Y!resolve_dialect_sql, Y!get_or_string
  <1>6. CASE ~Y!exists(m.psql)
    BY <1>3, <1>4, <1>6 DEF Y!SqlAsWritten, Y!resolve_dialect_sql, Y!get_or_string
  <1>. QED
    BY <1>5, <1>6

(* The statement of an entry without a complaint is as written.            *)
LEMMA SilentStatement ==
  ASSUME EntriesOK, NEW e \in Entries, Y!EntryComplaints(e) = 0, NEW s, s = Y!Statement(e)
  PROVE  /\ Y!SqlAsWritten(e, s.sql)
         /\ Y!is_map(e.before) => Y!SqlAsWritten(e.before.content, s.before_sql)
         /\ Y!exists(e.par_buf_size) => Y!SizeOK(e.par_buf_size) /\ s.par_buf_size = e.par_buf_size.content
         /\ Y!exists(e.field_len) => Y!is_map(e.field_len) /\ DOMAIN s.field_len = DOMAIN e.field_len.content
         /\ Y!exists(e.parameter_names) => Len(s.param_names) = Len(e.parameter_names.content)
  <1>1. /\ Y!Complains(e.par_buf_size, Y!SizeOK(e.par_buf_size)) = 0
        /\ Y!SizeComplaints(e.field_len) = 0
        /\ Y!Complains(e.parameter_names, Y!SeqOK(e.parameter_names)) = 0
        /\ Y!DialectComplaints(e) = 0 /\ Y!HookComplaints(e.before) = 0
    BY ComplaintsType
  <1>2. /\ s.par_buf_size = Y!get_or_size(e.par_buf_size, 1)
        /\ s.field_len = Y!get_map_of_sizes_or(e.field_len)
        /\ s.param_names = Y!get_seq_of_strings_or(e.parameter_names)
        /\ s.sql = Y!Trimmed(Y!resolve_dialect_sql(e)) /\ s.before_sql = Y!Trimmed(Y!Hook(e.before))
    BY DEF Y!Statement
  <1>3. Y!exists(e.par_buf_size) => Y!SizeOK(e.par_buf_size) /\ s.par_buf_size = e.par_buf_size.content
    BY <1>1, <1>2 DEF Y!Complains, Y!get_or_size
  <1>4. ASSUME Y!exists(e.field_len)
        PROVE  Y!is_map(e.field_len) /\ DOMAIN s.field_len = DOMAIN e.field_len.content
    <2>1. Y!is_map(e.field_len)
      BY <1>1, <1>4 DEF Y!SizeComplaints, Y!Complains
    <2>2. IsFiniteSet(DOMAIN e.field_len.content)
      BY <2>1 DEF EntriesOK
    <2>3. IsFiniteSet(DOMAIN e.field_len.content \ Y!GoodLens(e.field_len.content))
      BY <2>2, FS_Difference
    <2>4. Cardinality(DOMAIN e.field_len.content \ Y!GoodLens(e.field_len.content)) = 0
      BY <1>1, <2>1, SameCardinality DEF Y!SizeComplaints
    <2>5. DOMAIN e.field_len.content \ Y!GoodLens(e.field_len.content) = {}
      BY <2>3, <2>4, FS_EmptySet
    <2>6. Y!GoodLens(e.field_len.content) = DOMAIN e.field_len.content
      BY <2>5 DEF Y!GoodLens
    <2>. QED
      BY <1>2, <2>1, <2>6 DEF Y!get_map_of_sizes_or
  <1>5. ASSUME Y!exists(e.parameter_names)
        PROVE  Len(s.param_names) = Len(e.parameter_names.content)
    <2>1. Y!SeqOK(e.parameter_names)
      BY <1>1, <1>5 DEF Y!Complains
    <2>2. PICK S : e.parameter_names.content \in Seq(S)
      BY <2>1 DEF EntriesOK
    <2>3. PICK c : c = e.parameter_names.content
      OBVIOUS
    <2>4. c \in Seq(S) /\ Len(c) \in Nat /\ DOMAIN c = 1..Len(c)
      BY <2>2, <2>3
    <2>5. s.param_names = [i \in 1..Len(c) |-> Y!AsString(c[i])]
      BY <1>2, <2>1, <2>3, <2>4 DEF Y!get_seq_of_strings_or
    <2>6. Len([i \in 1..Len(c) |-> Y!AsString(c[i])]) = Len(c)
      BY <2>4
    <2>. QED
      BY <2>3, <2>5, <2>6
  <1>6. Y!SqlAsWritten(e, s.sql)
    BY <1>1, <1>2, DialectResolved
  <1>7. ASSUME Y!is_map(e.before) PROVE Y!SqlAsWritten(e.before.content, s.before_sql)
    <2>1. PICK m : m = e.before.content
      OBVIOUS
    <2>2. Y!DialectComplaints(m) = 0 /\ s.before_sql = Y!Trimmed(Y!resolve_dialect_sql(m))
      BY <1>1, <1>2, <1>7, <2>1 DEF Y!HookComplaints, Y!Hook
    <2>. QED
      BY <2>1, <2>2, DialectResolved
  <1>. QED
    BY <1>3, <1>4, <1>5, <1>6, <1>7

(* Every part of FilesHonest follows from the invariant.                   *)
LEMMA YamlHonest ==
  ASSUME EntriesOK, YamlInv
  PROVE  FilesHonest
  <1>1. PICK n \in Nat : /\ Added(read, stmts, n) /\ n <= Len(read) /\ Len(read) <= n + 1
                         /\ Unspoilt => n = Len(read)
    BY DEF YamlInv
  <1>2. /\ read \in Seq(Entries) /\ DOMAIN read = 1..Len(read) /\ Len(read) \in Nat
        /\ \A i \in DOMAIN read : read[i] \in Entries
    BY DEF YamlInv
  <1>3. \A i \in 1..n : Y!StringOK(read[i].id) /\ stmts[Y!AsString(read[i].id)] = Y!Statement(read[i])
    BY <1>1 DEF Added, IdOf
  <1>4. sts = "ok" => n = Len(read)
    BY <1>1 DEF Unspoilt
  <1>5. Y!AllKept
    <2>1. sts = "ok" => Cardinality(DOMAIN stmts) = Len(read) /\ left = <<>>
      BY <1>1, <1>4 DEF Added, YamlInv
    <2>. QED
      BY <2>1, SameCardinality DEF Y!AllKept
  <1>7. Y!GoodWidthsKept
    <2>. SUFFICES ASSUME sts = "ok", NEW i \in DOMAIN read, NEW e, e = read[i], Y!is_map(e.field_len),
                         NEW len, len = stmts[Y!AsString(e.id)].field_len,
                         NEW k \in Y!GoodLens(e.field_len.content)
                  PROVE  k \in DOMAIN len /\ len[k] = e.field_len.content[k].content
      BY DEF Y!GoodWidthsKept
    <2>1. stmts[Y!AsString(e.id)] = Y!Statement(e)
      BY <1>2, <1>3, <1>4
    <2>2. len = Y!get_map_of_sizes_or(e.field_len)
      BY <2>1 DEF Y!Statement
    <2>. QED
      BY <2>2 DEF Y!get_map_of_sizes_or
  <1>8. Y!SilentMeansAsWritten
    <2>. SUFFICES ASSUME sts = "ok", complaints = 0, NEW i \in DOMAIN read, NEW e, e = read[i],
                         NEW s, s = stmts[Y!AsString(e.id)]
                  PROVE  /\ Y!SqlAsWritten(e, s.sql)
                         /\ Y!is_map(e.before) => Y!SqlAsWritten(e.before.content, s.before_sql)
                         /\ Y!exists(e.par_buf_size) =>
                              Y!SizeOK(e.par_buf_size) /\ s.par_buf_size = e.par_buf_size.content
                         /\ Y!exists(e.field_len) =>
                              Y!is_map(e.field_len) /\ DOMAIN s.field_len = DOMAIN e.field_len.content
                         /\ Y!exists(e.parameter_names) => Len(s.param_names) = Len(e.parameter_names.content)
      BY DEF Y!SilentMeansAsWritten
    <2>1. s = Y!Statement(e) /\ e \in Entries
      BY <1>2, <1>3, <1>4
    <2>2. Y!EntryComplaints(e) = 0
      BY <1>2 DEF YamlInv, Unspoilt, NoComplaint
    <2>. QED
      BY <2>1, <2>2, SilentStatement
  <1>. QED
    BY <1>5, <1>7, <1>8 DEF FilesHonest

(* parse_yaml_file_json(), for every set of entries a file may hold and    *)
(* every number of them: a file that is accepted has each statement under  *)
(* its own id and every good width in force, and each sql, of a statement  *)
(* or of a hook that is a map, each size, width and list of names that is  *)
(* not in force as written was complained about.                           *)
THEOREM FilesAreHonest ==
  ASSUME EntriesOK
  PROVE  Y!Spec => []FilesHonest
  <1>1. Y!Init => YamlInv
    BY YamlInit
  <1>2. YamlInv /\ [Y!Next]_(Y!vars) => YamlInv'
    BY YamlStep
  <1>3. YamlInv => FilesHonest
    BY YamlHonest
  <1>. QED
    BY <1>1, <1>2, <1>3, PTL DEF Y!Spec
=============================================================================
