---------------------------- MODULE ErrorStatus ----------------------------
(***************************************************************************)
(* From a failed call of either backend to the db_error callers decide on: *)
(* rtl/db_error.cpp, rtl/db2/odbc_error, psql_error of rtl/psql/query.hpp. *)
(* A SQLSTATE is its class and the condition within it.                    *)
(***************************************************************************)
EXTENDS Integers, Sequences

CONSTANTS BoundColumns,  \* bound: columns of the statement whose binding may fail
          NotPrepared    \* callers use a statement they have not prepared

VARIABLES fault,  \* what went wrong
          err     \* the db_error it was reported as
vars == <<fault, err>>

None == [sts |-> "none", state |-> <<"", "">>]
NoState == <<"", "">>
General == <<"HY", "000">>
Sequence == <<"HY", "010">>

(* The two tables, codes before classes.                                   *)
ByCode == <<
  <<<<"00", "000">>, "success">>, <<<<"23", "505">>, "duplicate_key">>,
  <<<<"40", "001">>, "serialization_failure">>, <<<<"40", "P01">>, "deadlock">>,
  <<<<"40", "003">>, "transaction_error">>, <<<<"22", "001">>, "data_truncated">>,
  <<<<"53", "100">>, "disk_full">>, <<<<"53", "200">>, "memory_error">>,
  <<<<"53", "400">>, "quota_exceeded">>, <<<<"57", "014">>, "timeout">>,
  <<<<"28", "000">>, "access_denied">>, <<<<"28", "P01">>, "access_denied">> >>
ByClass == <<
  <<"01", "success_with_info">>, <<"02", "no_data">>, <<"08", "connection_lost">>,
  <<"0A", "not_implemented">>, <<"22", "data_conversion_error">>, <<"23", "constraint_violation">>,
  <<"24", "invalid_cursor">>, <<"25", "transaction_error">>, <<"28", "access_denied">>,
  <<"40", "transaction_error">>, <<"42", "invalid_sql">>, <<"53", "resource_error">>,
  <<"54", "resource_error">>, <<"57", "admin_error">>, <<"58", "os_error">> >>

Rows(table) == {table[i] : i \in DOMAIN table}
Found(table, key) == {r[2] : r \in {r \in Rows(table) : r[1] = key}}
The(s) == CHOOSE x \in s : TRUE

FaultySqlstate(s) ==
  IF Found(ByClass, s[1]) # {} THEN The(Found(ByClass, s[1])) ELSE "error"
sqlstate_to_db_sts(s) ==
  CASE s = NoState -> "error"
    [] s # NoState /\ Found(ByCode, s) # {} -> The(Found(ByCode, s))
    [] s # NoState /\ Found(ByCode, s) = {} /\ Found(ByClass, s[1]) # {} -> The(Found(ByClass, s[1]))
    [] OTHER -> "error"

is_success(sts) == sts \in {"success", "success_with_info"}

(* The conditions a failed call carries: every code and class of the       *)
(* tables but the successful ones, and some the tables do not know.        *)
Conditions ==
  ({r[1] : r \in Rows(ByCode)} \cup {<<r[1], "999">> : r \in Rows(ByClass)}
     \cup {<<"25", "P02">>, <<"26", "000">>, <<"HY", "001">>, <<"07", "006">>})
    \ {<<"00", "000">>, <<"01", "999">>}

(* odbc_error(): the record asked for is read from the handle, whose       *)
(* records are numbered from 1; a call that fails leaves one.              *)
Diagnosed(diags, rec) == IF rec \in DOMAIN diags THEN diags[rec] ELSE General
Client == Sequence
to_db_error(state) == [sts |-> sqlstate_to_db_sts(state), state |-> state]

Report(f, state) ==
  /\ err = None /\ fault' = f /\ err' = to_db_error(state)
Fault(site, state) == [site |-> site, state |-> state]

(* Db2: prepare() and execute() ask for the first record, binding column i *)
(* for record i; nothing is prepared and there is no handle to ask; a      *)
(* resized buffer is refused without asking.                               *)
Db2Call == \E s \in Conditions : Report(Fault("call", s), Diagnosed(<<s>>, 1))
Db2Bind == \E s \in Conditions, i \in 1..BoundColumns : Report(Fault("bind", s), Diagnosed(<<s>>, i))
Db2NotPrepared == NotPrepared /\ Report(Fault("client", NoState), Diagnosed(<<>>, 1))
Db2Layout == Report(Fault("client", NoState), Client)

(* PostgreSQL: the state is a field of the result; there is none without a *)
(* result, and none in an error of the runtime's own.                      *)
PsqlResult == \E s \in Conditions : Report(Fault("call", s), s)
PsqlNoResult == Report(Fault("lost", NoState), NoState)

(* The caller has dealt with it.                                           *)
Handle ==
  /\ err # None /\ err' = None /\ UNCHANGED fault

Init == fault = Fault("none", NoState) /\ err = None
Next == Db2Call \/ Db2Bind \/ Db2NotPrepared \/ Db2Layout \/ PsqlResult \/ PsqlNoResult \/ Handle
Spec == Init /\ [][Next]_vars

-----------------------------------------------------------------------------
(* "this function is only ever asked about a failure": no failed call is   *)
(* reported with a status that is_success() accepts, whether the tables    *)
(* know its state or not.                                                  *)
FailureIsFailure == err # None => ~is_success(err.sts)

(* A transaction worth running again (could not serialize, deadlock) and a *)
(* unique key are told apart from everything else, their own class         *)
(* included.                                                               *)
RetryKnown ==
  err # None =>
    /\ err.sts \in {"serialization_failure", "deadlock"} <=> err.state \in {<<"40", "001">>, <<"40", "P01">>}
    /\ err.sts = "duplicate_key" <=> err.state = <<"23", "505">>

-----------------------------------------------------------------------------
(* What the repository says and the code does not do; TLC refutes each on  *)
(* a small instance.                                                       *)

(* "The other constructor asks the driver what went wrong": the state the  *)
(* driver gave its failure is the state the caller sees, whichever column  *)
(* could not be bound.                                                     *)
StateKept == err # None /\ fault.site \in {"call", "bind"} => err.state = fault.state

(* "HY010 is the ODBC state for a function sequence error, which is        *)
(* exactly what these are": a fault on this side of the call is reported   *)
(* as one, never as a diagnostic that could not be read.                   *)
ClientFaultNamed == err # None /\ fault.site = "client" => err.state = Sequence
=============================================================================
