---------------------------- MODULE DbConnection ----------------------------
(***************************************************************************)
(* A program that uses one rtl::db object: connect(), statements through a *)
(* generated query, exec(), commit(), rollback(), refresh_statistics(),    *)
(* get_sql_metadata(), disconnect(), in any order, on either backend.      *)
(* Each call is one step: one thread, one connection.                      *)
(*                                                                         *)
(* On Db2 the object holds two ODBC handles, an environment and a          *)
(* connection, and never asks whether it already has them: connect()       *)
(* overwrites what it holds.  held is what the object knows, driver what   *)
(* the driver (external) has.  The handles allocated by the n-th connect() *)
(* are both called n: one environment, and one connection in it.           *)
(***************************************************************************)
EXTENDS DbOps, Naturals, FiniteSets

CONSTANTS MaxStmts,     \* bound on the statements the program runs
          MaxConnects,  \* bound on the connect() calls
          MaxEnds       \* bound on commit(), rollback(), refresh and describe calls

ASSUME DbConnectionAssumption ==
  MaxStmts \in Nat /\ MaxConnects \in Nat /\ MaxEnds \in Nat

VARIABLES
  conn,     \* the server's side of the session the object can reach
  up,       \* is_connected() as the object sees it
  held,     \* [env, dbc]: the handles the object holds (Db2), or NoHandle
  driver,   \* [env, dbc, open]: the handles allocated, the connections open (Db2)
  stmts, connects, ends,
  since,    \* history: statements that succeeded since the last transaction boundary
  last,     \* history: the last call, its status and its statement
  replaced, \* history: [env, dbc]: handles that connect() wrote others over
  refused   \* history: [env, dbc]: handles given up behind a refused SQLDisconnect

vars == <<conn, up, held, driver, stmts, connects, ends, since, last, replaced, refused>>
handles == <<up, held, driver, replaced, refused>>

Call(op, ok, S) == [op |-> op, ok |-> ok, stmts |-> S]
NoHandle == 0
NoHandles == [env |-> NoHandle, dbc |-> NoHandle]
NoneOfEither == [env |-> {}, dbc |-> {}]

Init ==
  /\ conn = [Connected EXCEPT !.tx = "lost"]
  /\ up = FALSE /\ held = NoHandles /\ driver = [env |-> {}, dbc |-> {}, open |-> {}]
  /\ stmts = 0 /\ connects = 0 /\ ends = 0
  /\ since = {} /\ last = Call("none", TRUE, {})
  /\ replaced = NoneOfEither /\ refused = NoneOfEither

-----------------------------------------------------------------------------
(* The driver.  SQLFreeHandle refuses a connection that is open and an     *)
(* environment that has a connection.                                      *)
Added(d, env, dbc) == [d EXCEPT !.env = @ \cup (env \ {NoHandle}), !.dbc = @ \cup (dbc \ {NoHandle})]
FreedDbc(d, h) == IF h \in d.open THEN d ELSE [d EXCEPT !.dbc = @ \ {h}]
FreedEnv(d, h) == IF h \in d.dbc THEN d ELSE [d EXCEPT !.env = @ \ {h}]
FaultyFreed(d, h) == FreedDbc(FreedEnv(d, h.env), h.dbc)
Freed(d, h) == FreedEnv(FreedDbc(d, h.dbc), h.env)

(* db_psql::connect() refuses an object that has a connection; no          *)
(* connection is kept when the server refuses, one is when only BEGIN      *)
(* fails.                                                                  *)
PsqlConnect ==
  /\ Backend = "psql"
  /\ \/ /\ ~up
        /\ \E a \in PsqlBeginCommand([conn EXCEPT !.tx = "none"]) :
             conn' = a.conn /\ last' = Call("connect", a.ok, {})
        /\ up' = TRUE /\ since' = {}
     \/ /\ last' = Call("connect", FALSE, {})
        /\ UNCHANGED <<conn, up, since>>
  /\ UNCHANGED <<held, driver, replaced, refused>>

(* db_db2::connect(): internal_allocate_handles() and internal_connect().  *)
(* A handle that cannot be allocated is set to null; a refused             *)
(* SQLSetConnectAttr ("attr") keeps both, a refused SQLDriverConnect       *)
(* ("open") frees both.  The session of a connection handle that is        *)
(* overwritten is out of reach, and nobody will ever commit it.            *)
Db2Steps == {"env", "dbc", "attr", "open", "ok"}
ConnectHolds(step, n) ==
  CASE step = "env"            -> [held EXCEPT !.env = NoHandle]
    [] step \in {"dbc", "open"} -> NoHandles
    [] step \in {"attr", "ok"}  -> [env |-> n, dbc |-> n]
ConnectLeaves(step, n) ==
  CASE step = "env"  -> driver
    [] step = "dbc"  -> Freed(Added(driver, {n}, {}), [env |-> n, dbc |-> NoHandle])
    [] step = "attr" -> Added(driver, {n}, {n})
    [] step = "open" -> Freed(Added(driver, {n}, {n}), [env |-> n, dbc |-> n])
    [] step = "ok"   -> [Added(driver, {n}, {n}) EXCEPT !.open = @ \cup {n}]
ConnectReaches(step) ==
  CASE step = "env"                    -> conn
    [] step \in {"dbc", "attr", "open"} -> RolledBack(conn, "lost")
    [] step = "ok"                     -> RolledBack(conn, "open")

Db2Connect ==
  /\ Backend = "db2"
  /\ \E step \in Db2Steps :
       /\ held' = ConnectHolds(step, connects')
       /\ driver' = ConnectLeaves(step, connects')
       /\ conn' = ConnectReaches(step)
       /\ since' = IF step = "env" THEN since ELSE {}
       /\ last' = Call("connect", step = "ok", {})
  /\ up' = (held'.dbc # NoHandle)
  /\ replaced' = Added(replaced, {held.env} \ {held'.env}, {held.dbc} \ {held'.dbc})
  /\ UNCHANGED refused

Connect ==
  /\ connects < MaxConnects
  /\ connects' = connects + 1
  /\ PsqlConnect \/ Db2Connect
  /\ UNCHANGED <<stmts, ends>>

(* disconnect() of a connected object (of another it does nothing).        *)
(* PostgreSQL rolls back and closes.  On Db2 SQLDisconnect ends the unit   *)
(* of work, or is refused: always when the connection was never opened,    *)
(* and at times when it is (25000 with a unit of work in progress).  Both  *)
(* handles are given up in any case, freed or not.                         *)
PsqlDisconnect ==
  /\ Backend = "psql" /\ last' = Call("disconnect", TRUE, {})
  /\ UNCHANGED <<held, driver, refused>>

Db2Disconnect ==
  /\ Backend = "db2" /\ held' = NoHandles
  /\ \/ /\ driver' = Freed([driver EXCEPT !.open = @ \ {held.dbc}], held)
        /\ last' = Call("disconnect", held.dbc \in driver.open, {})
        /\ UNCHANGED refused
     \/ /\ held.dbc \in driver.open
        /\ driver' = Freed(driver, held)
        /\ last' = Call("disconnect", FALSE, {})
        /\ refused' = Added(refused, {held.env}, {held.dbc})

Disconnect ==
  /\ up /\ up' = FALSE
  /\ PsqlDisconnect \/ Db2Disconnect
  /\ conn' = RolledBack(conn, "lost") /\ since' = {}
  /\ UNCHANGED <<stmts, connects, ends, replaced>>

-----------------------------------------------------------------------------
(* A statement of a generated query, and exec(), which on Db2 is a unit of *)
(* work of its own.                                                        *)
Succeeded(ok, n) == IF ok THEN since \cup {n} ELSE since

RunQuery ==
  /\ up /\ stmts < MaxStmts /\ stmts' = stmts + 1
  /\ \E a \in StatementAnswers(conn, stmts') :
       /\ conn' = a.conn
       /\ since' = Succeeded(a.ok, stmts')
       /\ last' = Call("query", a.ok, {stmts'})
  /\ UNCHANGED <<handles, connects, ends>>

Exec ==
  /\ up /\ stmts < MaxStmts /\ stmts' = stmts + 1
  /\ \E a \in ExecAnswers(conn, stmts') :
       /\ conn' = a.conn
       /\ since' = IF Backend = "db2" /\ a.ok THEN {} ELSE Succeeded(a.ok, stmts')
       /\ last' = Call("exec", a.ok, {stmts'})
  /\ UNCHANGED <<handles, connects, ends>>

(* The calls that end a transaction.  commit() and rollback() end it when  *)
(* they succeed; refresh_statistics() even when it fails after its COMMIT. *)
EndCall(op, answers) ==
  /\ up /\ ends < MaxEnds /\ ends' = ends + 1
  /\ \E a \in answers :
       /\ conn' = a.conn
       /\ since' = IF a.ok \/ op = "refresh" THEN {} ELSE since
       /\ last' = Call(op, a.ok, since)
  /\ UNCHANGED <<handles, stmts, connects>>

Commit == EndCall("commit", CommitAnswers(conn))
Rollback == EndCall("rollback", RollbackAnswers(conn))
RefreshStatistics == EndCall("refresh", RefreshStatisticsAnswers(conn, 0))

GetSqlMetadata ==
  /\ up /\ ends < MaxEnds /\ ends' = ends + 1
  /\ \E a \in DescribeAnswers(conn) :
       conn' = a.conn /\ last' = Call("describe", a.ok, {})
  /\ UNCHANGED <<handles, stmts, connects, since>>

Done == ~up /\ connects = MaxConnects /\ UNCHANGED vars

Next ==
  \/ Connect \/ Disconnect \/ RunQuery \/ Exec \/ Commit \/ Rollback
  \/ RefreshStatistics \/ GetSqlMetadata \/ Done

Spec == Init /\ [][Next]_vars

-----------------------------------------------------------------------------
TypeOK ==
  /\ conn \in Connections(0..MaxStmts)
  /\ up \in BOOLEAN
  /\ held \in [env : 0..connects, dbc : 0..connects]
  /\ driver \in [env : SUBSET (1..connects), dbc : SUBSET (1..connects), open : SUBSET (1..connects)]
  /\ replaced \in [env : SUBSET (1..connects), dbc : SUBSET (1..connects)]
  /\ refused \in [env : SUBSET (1..connects), dbc : SUBSET (1..connects)]
  /\ stmts \in 0..MaxStmts /\ connects \in 0..MaxConnects /\ ends \in 0..MaxEnds
  /\ since \in SUBSET (1..MaxStmts)

(* "This connection is ALWAYS inside a transaction from connect() onward": *)
(* no sequence of calls, a failed VACUUM between COMMIT and BEGIN          *)
(* included, leaves a living connection in autocommit mode.                *)
InsideTransaction == up /\ conn.tx # "lost" => conn.tx \in {"open", "aborted"}

(* The object never holds a handle the driver has freed, and the driver    *)
(* has none the object does not hold, whatever connect() and disconnect()  *)
(* fail at and in whichever order they are called, but for those lost in   *)
(* one of two ways: a connect() wrote another handle over it, or it was    *)
(* given up behind a refused SQLDisconnect.                                *)
HandlesAccounted ==
  /\ {held.env} \ {NoHandle} \subseteq driver.env
  /\ {held.dbc} \ {NoHandle} \subseteq driver.dbc
  /\ driver.env \subseteq {held.env} \cup replaced.env \cup refused.env
  /\ driver.dbc \subseteq {held.dbc} \cup replaced.dbc \cup refused.dbc

(* exec() that reports success has had its effect.                         *)
ExecEffective ==
  last.op = "exec" /\ last.ok /\ conn.tx # "lost" => last.stmts \subseteq conn.work \cup conn.durable

(* rollback() that reports success has undone every statement since the    *)
(* last commit(), rollback() or refresh_statistics() or, on Db2, the last  *)
(* exec(), which commits by itself.                                        *)
RollbackUndoes ==
  last.op = "rollback" /\ last.ok => last.stmts \cap conn.durable = {}

(* What exec() and rollback() answer is what became of the statements.     *)
AnswersHonest == TypeOK /\ ExecEffective /\ RollbackUndoes

-----------------------------------------------------------------------------
(* What the repository says and the code does not do; TLC refutes it on a  *)
(* small instance.                                                         *)

(* ~db_data_db2(): "connection handle is not deallocated" is critical; the *)
(* object's disconnect() leaves nothing behind.                            *)
NothingLeft == ~up => driver.env = {} /\ driver.dbc = {}
=============================================================================
