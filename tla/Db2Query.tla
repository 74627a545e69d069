------------------------------ MODULE Db2Query ------------------------------
(***************************************************************************)
(* rtl::query<params, results> on Db2 (rtl/db2/query.hpp).  The object     *)
(* owns an ODBC statement handle; the driver (external) keeps what         *)
(* prepare() told it: the text, addresses inside the two buffers, how many *)
(* rows they have, and the addresses of two counters that are members of   *)
(* the object.  Any of these calls may be refused, and for the attributes  *)
(* (SQLSetStmtAttr) nobody looks.  One thread uses the object, and the one *)
(* it is moved into.                                                       *)
(***************************************************************************)
EXTENDS Integers, FiniteSets

CONSTANTS Homes,        \* the places the object lives in, one after the other
          HasP, HasR,   \* the statement has parameters, results
          MaxHandles,   \* bound: statement handles allocated
          MaxSizings,   \* bound: calls of set_buffer_size()
          MaxSize,      \* bound: rows of a buffer
          MaxRefused    \* bound: statement attributes the driver refuses

ASSUME Db2QueryAssumption ==
  /\ {MaxHandles, MaxSizings, MaxRefused} \subseteq Nat /\ MaxSize \in Nat \ {0}
  /\ {HasP, HasR} \subseteq BOOLEAN

VARIABLES
  obj,        \* the objects, by place
  par, res,   \* the buffers, behind shared_ptr: generation, rows, storage
  live,       \* the statement handles the driver has
  told,       \* per handle: what the driver was told
  handles, sizings,
  \* history
  misused,    \* a handle the driver does not have was passed to it, stale ones aside
  refused,    \* <<handle, attribute>>: what the driver was asked for and refused
  astray,     \* <<handle, what>>: through it the driver used storage that is gone
  missed,     \* <<handle, attribute>>: a prepared statement ran without it
  unprepared  \* a statement ran whose last prepare() had failed

vars == <<obj, par, res, live, told, handles, sizings, misused, refused, astray, missed, unprepared>>
buffers == <<par, res, sizings>>
history == <<misused, refused, astray, missed, unprepared>>

NoHandle == 0
NewObject == [alive |-> TRUE, db |-> TRUE, stmt |-> NoHandle, boundPar |-> 0, boundRes |-> 0,
              occupied |-> 0,
              prepared |-> FALSE, stale |-> FALSE]   \* history: what became of the last prepare()
NoObject == [NewObject EXCEPT !.alive = FALSE, !.db = FALSE]
Nothing == [text |-> FALSE, par |-> 0, size |-> 1, processed |-> {}, status |-> 0, each |-> FALSE,
            cols |-> 0, page |-> 1, fetched |-> {}]   \* and the driver's defaults
Attributes == {"paramset_size", "params_processed", "param_status", "paramopt_atomic",
               "row_array_size", "rows_fetched"}
Things == Attributes \cup {"data"}
Buffer(n) == [gen |-> n, rows |-> 1, at |-> n]

Init ==
  /\ \E o \in Homes : obj = [p \in Homes |-> IF p = o THEN NewObject ELSE NoObject]
  /\ par = Buffer(1) /\ res = Buffer(1)
  /\ live = {} /\ told = [h \in 1..MaxHandles |-> Nothing]
  /\ handles = 0 /\ sizings = 0
  /\ misused = FALSE /\ unprepared = FALSE /\ refused = {} /\ astray = {} /\ missed = {}

is_prepared(o) == obj[o].stmt # NoHandle
Uses(o) == misused' = (misused \/ (is_prepared(o) /\ obj[o].stmt \notin live /\ ~obj[o].stale))

(* set_buffer_size(): new storage; the generation is what others can see.  *)
Sized(b, n) == [gen |-> b.gen + 1, rows |-> IF n = 0 THEN 1 ELSE n, at |-> b.at + 1]

Resize(n) ==
  /\ sizings < MaxSizings /\ sizings' = sizings + 1
  /\ \/ HasP /\ par' = Sized(par, n) /\ UNCHANGED res
     \/ HasR /\ res' = Sized(res, n) /\ UNCHANGED par
  /\ UNCHANGED <<obj, live, told, handles, history>>

-----------------------------------------------------------------------------
(* prepare(): the old handle is freed first; stmt_ changes only when a new *)
(* one was allocated.  It stays there whatever fails after that, and only  *)
(* a complete success records the generations.  Of a buffer of more than   *)
(* one row (is_batch()) the driver is also told where the status of each   *)
(* row goes, and to run them one by one.                                   *)
ParAsked ==
  IF ~HasP THEN {}
  ELSE {"paramset_size", "params_processed"}
       \cup (IF par.rows > 1 THEN {"param_status", "paramopt_atomic"} ELSE {})
ResAsked == IF HasR THEN {"row_array_size", "rows_fetched"} ELSE {}

(* The parameters and the columns are bound; R is what the driver refuses  *)
(* of the attributes that go with them.                                    *)
WithPar(t, o, R) ==
  IF ~HasP THEN t
  ELSE [t EXCEPT !.par = par.at,
                 !.size = IF "paramset_size" \in R THEN @ ELSE par.rows,
                 !.processed = IF "params_processed" \in R THEN @ ELSE {o},
                 !.status = IF "param_status" \in ParAsked \ R THEN par.at ELSE @,
                 !.each = ("paramopt_atomic" \in ParAsked \ R)]
WithCols(t, o, R) ==
  IF ~HasR THEN t
  ELSE [t EXCEPT !.cols = res.at,
                 !.page = IF "row_array_size" \in R THEN @ ELSE res.rows,
                 !.fetched = IF "rows_fetched" \in R THEN @ ELSE {o}]

(* What the driver knows when the sequence stops early: at SQLPrepare, at  *)
(* a parameter, at a column; and when it is complete.                      *)
Text == [Nothing EXCEPT !.text = TRUE]
Learned(t, R) == [told |-> t, refused |-> R]
Stopped(o) ==
  {Learned(Nothing, {})}
  \cup (IF HasP THEN {Learned(Text, {})} ELSE {})
  \cup (IF HasR THEN {Learned(WithPar(Text, o, R), R) : R \in SUBSET ParAsked} ELSE {})
Complete(o) ==
  {Learned(WithCols(WithPar(Text, o, R), o, R), R) : R \in SUBSET (ParAsked \cup ResAsked)}

Refuses(h, R) ==
  /\ refused' = refused \cup {<<h, a>> : a \in R}
  /\ Cardinality(refused') <= MaxRefused

PrepareNoHandle(o) ==
  /\ obj[o].db
  /\ Uses(o) /\ live' = live \ {obj[o].stmt}
  /\ obj' = [obj EXCEPT ![o].prepared = FALSE, ![o].stale = TRUE]
  /\ UNCHANGED <<told, handles, buffers, refused, astray, missed, unprepared>>

Prepare(o) ==
  /\ obj[o].db /\ handles < MaxHandles
  /\ LET h == handles + 1 IN
     /\ Uses(o) /\ live' = (live \ {obj[o].stmt}) \cup {h}
     /\ handles' = h
     /\ \/ \E s \in Stopped(o) :
             /\ told' = [told EXCEPT ![h] = s.told] /\ Refuses(h, s.refused)
             /\ obj' = [obj EXCEPT ![o].stmt = h, ![o].prepared = FALSE, ![o].stale = FALSE]
        \/ \E s \in Complete(o) :
             /\ told' = [told EXCEPT ![h] = s.told] /\ Refuses(h, s.refused)
             /\ obj' = [obj EXCEPT ![o].stmt = h, ![o].prepared = TRUE, ![o].stale = FALSE,
                                   ![o].boundPar = par.gen, ![o].boundRes = res.gen]
  /\ UNCHANGED <<buffers, astray, missed, unprepared>>

(* check_layout()                                                          *)
FaultyLayoutOK(o) == TRUE
LayoutOK(o) ==
  (HasP => par.gen = obj[o].boundPar) /\ (HasR => res.gen = obj[o].boundRes)

(* SQLExecute: without a text or with a parameter missing the driver       *)
(* refuses.  It reads as many parameter rows as it was told of, and writes *)
(* their count and, for a batch, their statuses where it was told to.      *)
Runs(h) == h \in live /\ told[h].text /\ (HasP => told[h].par # 0)

ParAstray(h) ==
  {a \in Things :
     \/ a = "data" /\ HasP /\ told[h].par # par.at
     \/ a = "paramset_size" /\ told[h].size > par.rows
     \/ a = "param_status" /\ told[h].status \notin {0, par.at}
     \/ a = "params_processed" /\ \E p \in told[h].processed : ~obj[p].alive}

ParMissed(o, h) ==
  {a \in Things :
     /\ HasP /\ obj[o].prepared
     /\ \/ a = "paramset_size" /\ told[h].size # par.rows
        \/ a = "params_processed" /\ told[h].processed # {o}
        \/ a = "param_status" /\ par.rows > 1 /\ told[h].status # par.at
        \/ a = "paramopt_atomic" /\ par.rows > 1 /\ ~told[h].each}

Execute(o) ==
  /\ obj[o].db /\ is_prepared(o) /\ LayoutOK(o)
  /\ LET h == obj[o].stmt IN
     /\ Uses(o)
     /\ \/ UNCHANGED <<astray, missed, unprepared>>            \* refused or failed
        \/ /\ Runs(h)
           /\ astray' = astray \cup ({h} \X ParAstray(h))
           /\ missed' = missed \cup ({h} \X ParMissed(o, h))
           /\ unprepared' = (unprepared \/ ~obj[o].prepared)
  /\ UNCHANGED <<obj, buffers, live, told, handles, refused>>

(* fetch(): the driver fills n rows of the columns it knows and writes n   *)
(* into the counter it knows; fetch() looks at its own, and reports an     *)
(* error when there are more than the buffer has rows.                     *)
Counted(o, h, n) == IF o \in told[h].fetched THEN n ELSE 0

ResAstray(h) ==
  {a \in Things :
     \/ a = "data" /\ told[h].cols \notin {0, res.at}
     \/ a = "row_array_size" /\ told[h].page > res.rows
     \/ a = "rows_fetched" /\ \E p \in told[h].fetched : ~obj[p].alive}

Fetch(o) ==
  /\ obj[o].db /\ is_prepared(o) /\ LayoutOK(o) /\ HasR
  /\ LET h == obj[o].stmt IN
     /\ Uses(o)
     /\ \/ UNCHANGED <<obj, astray, missed>>                  \* failed
        \/ /\ Runs(h)
           /\ \E n \in 0..told[h].page :
                /\ obj' = IF Counted(o, h, n) > res.rows THEN obj
                          ELSE [obj EXCEPT ![o].occupied = Counted(o, h, n)]
                /\ missed' = IF obj[o].prepared /\ n # Counted(o, h, n)
                             THEN missed \cup {<<h, "rows_fetched">>} ELSE missed
           /\ astray' = astray \cup ({h} \X ResAstray(h))
  /\ UNCHANGED <<buffers, live, told, handles, refused, unprepared>>

-----------------------------------------------------------------------------
(* reset(): the handle is freed; a new prepare() is needed.                *)
Forgotten(f) == [f EXCEPT !.stmt = NoHandle, !.occupied = 0, !.prepared = FALSE, !.stale = FALSE]

Reset(o) ==
  /\ obj[o].db
  /\ Uses(o) /\ live' = live \ {obj[o].stmt}
  /\ obj' = [obj EXCEPT ![o] = Forgotten(@)]
  /\ UNCHANGED <<told, handles, buffers, refused, astray, missed, unprepared>>

(* query(query&&): the handle goes along, and the driver is told where the *)
(* counters are now, whether it listens or not.                            *)
Counters == (IF HasP THEN {"params_processed"} ELSE {}) \cup (IF HasR THEN {"rows_fetched"} ELSE {})
FaultyRebound(t, p, R) == t
Rebound(t, p, R) ==
  [t EXCEPT !.processed = IF "params_processed" \in Counters \ R THEN {p} ELSE @,
            !.fetched = IF "rows_fetched" \in Counters \ R THEN {p} ELSE @]
FaultyMovedFrom(f) == [f EXCEPT !.db = FALSE]
MovedFrom(f) == [f EXCEPT !.stmt = NoHandle, !.db = FALSE, !.prepared = FALSE]

Move(o, p) ==
  /\ obj[o].db /\ ~obj[p].alive
  /\ Uses(o)
  /\ obj' = [obj EXCEPT ![p] = obj[o], ![o] = MovedFrom(obj[o])]
  /\ \/ ~is_prepared(o) /\ UNCHANGED <<told, refused>>
     \/ /\ is_prepared(o)
        /\ \E R \in SUBSET Counters :
             /\ told' = [told EXCEPT ![obj[o].stmt] = Rebound(@, p, R)]
             /\ Refuses(obj[o].stmt, R)
  /\ UNCHANGED <<live, handles, buffers, astray, missed, unprepared>>

(* ~query()                                                                *)
Destroy(o) ==
  /\ obj[o].alive
  /\ Uses(o) /\ live' = live \ {obj[o].stmt}
  /\ obj' = [obj EXCEPT ![o] = NoObject]
  /\ UNCHANGED <<told, handles, buffers, refused, astray, missed, unprepared>>

Next ==
  \/ \E o \in Homes :
       \/ PrepareNoHandle(o) \/ Prepare(o) \/ Execute(o) \/ Fetch(o) \/ Reset(o) \/ Destroy(o)
       \/ \E p \in Homes : Move(o, p)
  \/ \E n \in 0..MaxSize : Resize(n)

Spec == Init /\ [][Next]_vars

-----------------------------------------------------------------------------
Objects == [alive : BOOLEAN, db : BOOLEAN, stmt : 0..MaxHandles, boundPar : Nat, boundRes : Nat,
            occupied : 0..MaxSize, prepared : BOOLEAN, stale : BOOLEAN]
Buffers == [gen : Nat, rows : 1..MaxSize, at : Nat]
Tellings == [text : BOOLEAN, par : Nat, size : 1..MaxSize, processed : SUBSET Homes, status : Nat,
             each : BOOLEAN, cols : Nat, page : 1..MaxSize, fetched : SUBSET Homes]

TypeOK ==
  /\ obj \in [Homes -> Objects] /\ par \in Buffers /\ res \in Buffers
  /\ told \in [1..MaxHandles -> Tellings]
  /\ live \subseteq 1..MaxHandles /\ handles \in 0..MaxHandles /\ sizings \in 0..MaxSizings
  /\ refused \subseteq (1..MaxHandles) \X Attributes
  /\ astray \subseteq (1..MaxHandles) \X Things /\ missed \subseteq (1..MaxHandles) \X Things
  /\ {misused, unprepared} \subseteq BOOLEAN

(* No call passes a handle the driver has not allocated or has freed       *)
(* already ("a double free of a driver handle"), the handle prepare()      *)
(* keeps when it has freed it and SQLAllocHandle fails excepted.           *)
HandlesValid == ~misused

(* Every statement handle has one owner, who will free it.                 *)
NoHandleLeak ==
  /\ live \subseteq {obj[o].stmt : o \in Homes}
  /\ \A o, p \in Homes : obj[o].stmt \in live /\ obj[o].stmt = obj[p].stmt => o = p

(* "the driver reading them is a use after free": the driver never reads   *)
(* or writes buffers that were resized, rows they do not have, or counters *)
(* of an object that is gone; unless it refused to learn of the new one.   *)
NoDangling == astray \subseteq refused

(* "which looks exactly like a query that returns no rows": fetch()        *)
(* of a statement that was prepared reports the rows the driver delivered, *)
(* and execute() runs every parameter row and reports on each, also after  *)
(* a move; unless the driver refused the very attribute this rests on.     *)
NothingMissed == missed \subseteq refused

(* Statement handles are used while the driver has them and freed once,    *)
(* through failed prepares, moves and resets.                              *)
HandlesSound == TypeOK /\ HandlesValid /\ NoHandleLeak

(* The addresses the driver was told are those of the buffers, statuses    *)
(* and counters in use, through resizes, moves and failures of any call,   *)
(* and what goes wrong is what the refused attribute was for.              *)
BoundInUse == NoDangling /\ NothingMissed

-----------------------------------------------------------------------------
(* What the repository says and the code does not do; TLC refutes each on  *)
(* a small instance.                                                       *)

(* "has prepare() been called successfully?": a statement runs only when   *)
(* its last prepare() succeeded.                                           *)
PreparedOnly == ~unprepared

(* "Rebinding is the whole reason this move constructor cannot be a simple *)
(* member-wise copy": the driver never writes a counter of an object that  *)
(* is gone, whatever it refuses.                                           *)
NothingAstray == astray = {}

(* A prepare() that reports success has told the driver all there is:      *)
(* every row delivered is counted, every parameter row run and reported.   *)
NothingUnnoticed == missed = {}
=============================================================================
