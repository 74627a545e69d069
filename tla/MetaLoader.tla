----------------------------- MODULE MetaLoader -----------------------------
(***************************************************************************)
(* parser::load_file_meta_data() (dbgen4/parser/parser.cpp): a worker's    *)
(* connection describes the statements of one yaml file after the other.   *)
(* A statement may carry a before_sql, run first, and an after_sql, run    *)
(* whether or not the statement validated; commit or rollback follows.     *)
(* Every call on the connection is one step; other sessions see what is    *)
(* durable at any moment, and the process may end between any two steps.   *)
(***************************************************************************)
EXTENDS DbOps, Naturals, FiniteSets

CONSTANTS NFiles,    \* the files the worker processes
          NStmts     \* the statements of a file

\* a worker without a file, and a file without a statement, does nothing
ASSUME MetaLoaderAssumption == NFiles \in Nat \ {0} /\ NStmts \in Nat \ {0}

VARIABLES
  conn,
  file, stmt,  \* the file and the statement in hand
  pc,          \* the place in the loop
  hooks,       \* which of before_sql and after_sql the statement in hand has
  valid,       \* get_sql_metadata() succeeded
  \* history
  outcome,     \* per statement: "none", "described", "refused"
  ran,         \* the hooks that succeeded
  skipped      \* the files given up

vars == <<conn, file, stmt, pc, hooks, valid, outcome, ran, skipped>>

Stmts == (1..NFiles) \X (1..NStmts)
Hooks == {"before", "after"} \X Stmts
This == <<file, stmt>>

Init ==
  /\ conn = Connected
  /\ file = 1 /\ stmt = 1 /\ pc = "before"
  /\ hooks \in SUBSET {"before", "after"}
  /\ valid = FALSE
  /\ outcome = [s \in Stmts |-> "none"] /\ ran = {} /\ skipped = {}


(* The next statement of the file, the next file, or the end.              *)
Advance(f, s) ==
  /\ hooks' \in SUBSET {"before", "after"}
  /\ CASE s < NStmts            -> file' = f /\ stmt' = s + 1 /\ pc' = "before"
       [] s = NStmts /\ f < NFiles -> file' = f + 1 /\ stmt' = 1 /\ pc' = "before"
       [] OTHER                 -> file' = f /\ stmt' = s /\ pc' = "end"

RunHook(h, a) ==
  /\ conn' = a.conn
  /\ ran' = IF a.ok THEN ran \cup {<<h, This>>} ELSE ran

(* before_sql: a failure ends the file.                                    *)
NoBefore ==
  /\ pc = "before" /\ "before" \notin hooks
  /\ pc' = "describe"
  /\ UNCHANGED <<conn, file, stmt, hooks, valid, outcome, ran, skipped>>

Before ==
  /\ pc = "before" /\ "before" \in hooks
  /\ \E a \in ExecAnswers(conn, <<"before", This>>) :
       RunHook("before", a) /\ pc' = IF a.ok THEN "describe" ELSE "giveup"
  /\ UNCHANGED <<file, stmt, hooks, valid, outcome, skipped>>

Describe ==
  /\ pc = "describe"
  /\ \E a \in DescribeAnswers(conn) : conn' = a.conn /\ valid' = a.ok
  /\ pc' = IF "after" \in hooks THEN "after" ELSE "finish"
  /\ UNCHANGED <<file, stmt, hooks, outcome, ran, skipped>>

(* after_sql: a failure is only logged.                                    *)
After ==
  /\ pc = "after"
  /\ \E a \in ExecAnswers(conn, <<"after", This>>) : RunHook("after", a)
  /\ pc' = "finish"
  /\ UNCHANGED <<file, stmt, hooks, valid, outcome, skipped>>

(* commit() or, for a statement that did not validate, rollback() and the  *)
(* end of the file.  Nobody looks at the status of either.                 *)
FaultyFinishAnswers(ok) == {Answer(TRUE, conn)}
FinishAnswers(ok) == IF ok THEN CommitAnswers(conn) ELSE RollbackAnswers(conn)

Finish ==
  /\ pc = "finish" /\ valid
  /\ \E a \in FinishAnswers(TRUE) : conn' = a.conn
  /\ outcome' = [outcome EXCEPT ![This] = "described"]
  /\ Advance(file, stmt)
  /\ UNCHANGED <<valid, ran, skipped>>

GiveUp ==
  /\ pc = "giveup" \/ (pc = "finish" /\ ~valid)
  /\ \E a \in FinishAnswers(FALSE) : conn' = a.conn
  /\ outcome' = [outcome EXCEPT ![This] = "refused"]
  /\ skipped' = skipped \cup {file}
  /\ Advance(file, NStmts)
  /\ UNCHANGED <<valid, ran>>

Ended == pc = "end" /\ UNCHANGED vars

Next == NoBefore \/ Before \/ Describe \/ After \/ Finish \/ GiveUp \/ Ended

Spec == Init /\ [][Next]_vars

-----------------------------------------------------------------------------
TypeOK ==
  /\ conn \in Connections(Hooks)
  /\ file \in 1..NFiles /\ stmt \in 1..NStmts
  /\ pc \in {"before", "describe", "after", "finish", "giveup", "end"}
  /\ hooks \in SUBSET {"before", "after"}
  /\ valid \in BOOLEAN
  /\ outcome \in [Stmts -> {"none", "described", "refused"}]
  /\ ran \in SUBSET Hooks /\ skipped \in SUBSET (1..NFiles)

(* "rollback if this statement's sql itself failed to validate": a refused *)
(* statement leaves nothing of its before_sql and after_sql behind.        *)
RefusedLeavesNothing ==
  \A s \in Stmts, h \in {"before", "after"} :
    outcome[s] = "refused" => <<h, s>> \notin conn.durable

(* Whatever failed before, a statement starts in an open transaction with  *)
(* nothing of its predecessors pending: no refusal is caused by an earlier *)
(* statement's aborted transaction.                                        *)
CleanStart ==
  pc = "before" /\ conn.tx # "lost" => conn.tx = "open" /\ conn.work = {}

(* "commit so before_sql's and after_sql's own DDL both stick": when every *)
(* hook of a described statement succeeded, both are durable.              *)
CompleteHooksStick ==
  \A s \in Stmts :
    /\ outcome[s] = "described" /\ conn.tx # "lost"
    /\ <<"before", s>> \in ran /\ <<"after", s>> \in ran
    => {<<"before", s>>, <<"after", s>>} \subseteq conn.durable

(* "still in the same unit of work before_sql (if any) opened": until the  *)
(* statement is finished, nothing of it is visible to other sessions.      *)
OneUnitOfWork ==
  \A h \in {"before", "after"} : pc \in {"describe", "after", "finish"} => <<h, This>> \notin conn.durable

(* The hooks of a statement and its description succeed or go together,    *)
(* whichever call of the sequence fails.                                   *)
HooksAtomic == TypeOK /\ RefusedLeavesNothing /\ OneUnitOfWork /\ CompleteHooksStick

-----------------------------------------------------------------------------
(* What the repository says and the code does not do; TLC refutes each on  *)
(* a small instance.                                                       *)

(* "commit so before_sql's and after_sql's own DDL both stick": every hook *)
(* that succeeded for a described statement is durable.                    *)
HooksStick ==
  \A s \in Stmts, h \in {"before", "after"} :
    outcome[s] = "described" /\ <<h, s>> \in ran /\ conn.tx # "lost" => <<h, s>> \in conn.durable
=============================================================================
