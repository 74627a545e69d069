# A verification project for dbgen4

dbgen4 reads SQL statements from yaml files, asks a database (PostgreSQL or
Db2) what they take and return, and generates C++ classes for them; a runtime
library (`rtl`) executes the generated statements. This directory holds TLA+
models of its core, the TLC runs that check them on small instances, and
machine-checked TLAPS proofs for all instances. Paths below are relative to the
repository; the code is under `src/`.

## 1. The system and its parts

| part | state | operations | what is hard |
|---|---|---|---|
| `rtl::async_db` (`rtl/async_db.{hpp,cpp}`) | one-deep queue `pending_`, `busy_`, `stop_`, sticky `error_`, `running_task_id_`, `tasks_`, one mutex, two condition variables, a worker thread | `prepare`, `submit`, `exec`, `execute_sync`, `fetch_more`, `is_finished`, `drain`, `commit`, `rollback`, `cancel`, destructor | three threads; notifies after the unlock; errors reported calls later; state read before an unlock and used after it |
| transactions of `rtl::db` (`psql_rtl.cpp`, `db2_rtl.cpp`) | the server's transaction | `connect`, `commit`, `rollback`, `exec`, `refresh_statistics`, `disconnect` | every path must leave a transaction open; COMMIT of an aborted transaction succeeds; partial failure |
| `db_psql::on_change` | `listen_worker_`, `stop_listen_`, `pending_listen_`, `handlers_` | `on_change`, `listen_loop`, `disconnect` | a callback thread, notifications at any time, reconnect |
| `rtl::query` on PostgreSQL | server-side statement, `prepared_`, `rows_`, `next_row_`, layout generations | `prepare`, `execute`, `execute_batch`, `fetch`, `reset`, move | stale results after a failure, pipeline mode, re-prepare |
| `rtl::query` on Db2 | statement handle, bound buffers | `prepare`, `execute`, `fetch`, `reset`, move | bound addresses, partial failure of `prepare` |
| buffers (`parameter_root`, `result_root`, ...) | rows, indicators, row status, generation | sizing, reset | resize after prepare |
| metadata (`get_sql_metadata`, both backends) | none kept | describe a statement | failure paths inside a transaction |
| parser (`dbgen4/parser`) | statements of one file | yaml walk, `load_file_meta_data` | before/after SQL and its unit of work |
| generator (`dbgen4/gen`) | templates, current file | render, write | status of a failed write |
| application (`programs/appl.cpp`) | file cursor, first error | a pool of workers | shared cursor, exit status, output names |
| value conversion, SQLSTATE and type mapping | none | pure functions | boundaries |
| text helpers (`common`, `runtime_support/utf8.hpp`) | none | pure functions | empty and last lines, boundary code points |
| command line (`cmd_line_params`) | the parameters | parse, check, connection | exit status of a refusal |
| logging, inja, tests, scripts | | | not modelled, see section 7 |

How they interact. `appl` starts workers; each owns a connection, a parser and
a generator. The parser calls the backend's describer inside a transaction of
its connection. Generated code uses `rtl::query` on a connection directly, or
through `async_db`, which then owns the connection: the caller's thread queues
closures, the worker runs them, and other threads may call `cancel()`.
`on_change` adds a thread and a connection of its own to `db_psql`.

What makes them correct. For `async_db`: statements run once, in order, with the
row their caller gave them; no wakeup is lost and nobody waits for ever; the
first error is kept and a transaction with a failed statement is never reported
as committed; what was rolled back stays undone. For the connection: a
transaction is always open. For `on_change`: registration returns, and a
registered handler sees every later change. For queries: rows served belong to
the last successful execute. For the parser and the application: the exit status
is ok only if every file was processed and written. `PROJECT.json` lists the
hazards line by line, each with the properties that watch it or the reason none
does.

## 2. Modules

| module | models |
|---|---|
| `DbTx` | the connection: the server's transaction (external) and `commit()`, `rollback()`, `begin_transaction()`, `exec_command()` of `db_psql`, `SQLEndTran` of `db_db2` |
| `AsyncDb` | `rtl::async_db`: caller, worker and canceller threads over `DbTx` |
| `TxSession` | abstract: an atomic transactional session, what a caller of `async_db` relies on |
| `DbOps` | `exec()`, `get_sql_metadata()` and `refresh_statistics()` as answers over `DbTx` |
| `DbConnection` | a program that uses one `rtl::db` object, either backend; the ODBC handles of `db_db2` |
| `MetaLoader` | `parser::load_file_meta_data()` over `DbOps` |
| `ChangeListener` | `db_psql::on_change()`, its listening thread, `connect()` and `disconnect()`, over `DbTx` |
| `PsqlQuery` | `rtl::query` on PostgreSQL, batches in pipeline mode included, over `DbTx` |
| `Db2Query` | `rtl::query` on Db2 and what the ODBC driver was told |
| `RowBuffers` | the generated parameter and result buffers, and values going in and out of them |
| `ValueText` | values as text: timestamps, `bytea`, guids, hex |
| `TextTools` | the text helpers of the generator and the UTF-8 encoder |
| `ErrorStatus` | from a failed call to the `db_error` a caller sees |
| `ColumnTypes` | from the native type of a column to the generated member and its binding |
| `YamlInput`, `YamlNode` | reading a yaml file into statements; a node of the document |
| `GenRun` | the command line check, the worker pool, the files written |
| `MC<module>` | definitions of constants for TLC; the values are in the `.cfg` files. `MCDbConnection` runs both backends side by side |
| `DbOpsProofs` | lemmas about the answers of `DbTx` and `DbOps` |
| `<module>Proofs` | the inductive invariants and theorems of `AsyncDb`, `DbConnection`, `MetaLoader`, `ChangeListener`, `PsqlQuery`, `Db2Query`, `GenRun`, and of the modules they see through the next four |
| `Buffers` | `RowBuffers` as the two buffers of a query (`Db2QueryProofs`) |
| `StatementColumns` | `ColumnTypes` as the columns of one statement of a run (`GenRunProofs`) |
| `YamlFile` | `YamlInput` as the file a load starts from (`MetaLoaderProofs`) |
| `Conversions` | `ValueText`, `TextTools` and `ErrorStatus` beside a connection (`DbConnectionProofs`) |
| `MCSequential` | `Conversions`, `YamlFile` and `StatementColumns`, which share no state, in one run |

`DbTx` is extended by `DbOps` (which `DbConnection` and `MetaLoader` extend),
`AsyncDb`, `ChangeListener` and `PsqlQuery`, so one description of the
connection's transaction serves all of them. `GenRun` sees `YamlInput` and
`MetaLoader` only as a file that loads or fails; `ColumnTypes` and `RowBuffers`
meet at the width and the category of a column. `Buffers`, `StatementColumns`,
`YamlFile` and `Conversions` put such a module, by `INSTANCE`, beside the component
that uses it: they rename nothing but two buffers, add no behaviour, state the
properties of the module as a whole and, for `Buffers` and `StatementColumns`, what
is assumed of its constants. An operator whose name starts
with `Faulty` is a wrong version of the definition below it; no specification
uses one.

### DbTx

A connection is a record: `tx` (`open`, `aborted` for PostgreSQL's 25P02,
`none` for PostgreSQL in autocommit mode, `lost`), the statements whose effect
the open transaction holds (`work`) and the committed ones (`durable`). Each
operator ending in `Answers` is the set of (status, connection) pairs a call may
yield. What the libraries and servers do is external and taken from how the code
uses them: PostgreSQL aborts a transaction on a failed statement or PREPARE and
answers a COMMIT of an aborted one with a successful ROLLBACK; Db2 undoes the
failed statement alone; a refused COMMIT rolls back; a connection lost during
COMMIT leaves it done or undone. `ThenBegin` is the `BEGIN` that `db_psql` sends
after a successful COMMIT or ROLLBACK and only then. The constants
`PrepareMayFail`, `CommitMayFail` and `ConnMayDrop` switch the failures.

### AsyncDb

Variables with a name of the class are its members. `cpc` is the caller's place
inside a call, `wpc` the worker's place in `worker_loop()`, `kpc` the
canceller's; `asleep` holds the threads blocked in a `wait()`.

A critical section of `mtx_` is one step. A notify is a step of its own, since
all of them follow the unlock; a round trip to the database is one; what a
thread does otherwise between two critical sections is part of the step before
or after it. `cancel()` is two steps: the read under the lock and the request.
Waiting is modelled as the C++ library has it: the predicate is evaluated under
the lock, the thread sleeps if it is false, and on a notify or spuriously
(`SpuriousWakeup`) it evaluates the predicate again.

| code | actions |
|---|---|
| start of a call | `CallPrepare`, `CallStatement` (submit, exec, execute_sync), `CallFetchMore`, `CallDraining` (commit, rollback, drain), `CallIsFinished`, `CallDestroy` |
| `post_to_worker()` | `PostDropped` (sticky error), `PostAccepted`, `PostWaited`, `NotifyWorker` |
| `drain()` | `DrainFirst` (first line of commit, rollback, the destructor), `DrainLast` (end of `run_on_worker()`) |
| end of a call | `ReturnError`, `PushTask` (prepare), `CommitReadError`, `CommitReturn`, `ResetError`, `SetStop`, `NotifyStop`, `Join` |
| `worker_loop()` | `TakeJob`, `WaitForJob`, `NotifySlot`, the job, `FinishJob`, `NotifyDone` |
| the jobs | `SkipJob`, `RunStatement`, `FetchRows`, `NoteError`, `RunInternal` (prepare, commit, rollback) |
| `cancel()` | `CancelRead`, `CancelSend` |

Data. A call is its number; the parameter row the caller fills in before call n
is n, and an error is the number of the call whose job failed. A task is the kind
of its statement (`dml`, `select`) or `null` for the null pointer that
`prepare()` stores when its job was dropped; a call through it ends the program
(`cpc = "crashed"`). A result is the number of buffers left to fetch. The
variables `posted`, `done`, `ranWith`, `asked`, `failed`, `told`, `outcome`,
`kwanted` and `hit` are history, read by properties only (`posted` also tells
`PushTask` whether the job ran, which in the code is the null pointer itself).

Left out: handles that were default-constructed (refused before anything
happens), the `dynamic_cast` failure in `prepare()` (a wiring error), the columns
of a row, and what a select returns.

### TxSession

`Ask`, `Commit`, `Undo`, `Unknown` (a COMMIT that itself failed: all or nothing),
`Reported`. `AsyncDb` implements it under the mapping in `AsyncDb!Session`: a
transaction is decided when the worker has run its COMMIT or ROLLBACK.

### DbOps, DbConnection, MetaLoader

`DbOps` adds the calls of `rtl::db` whose transaction behaviour differs between
the backends: `exec()` is part of the open transaction on PostgreSQL and commits
or rolls back by itself on Db2; `refresh_statistics()` is COMMIT, VACUUM, BEGIN.

`DbConnection` calls them in any order (`Connect`, `RunQuery`, `Exec`, `Commit`,
`Rollback`, `RefreshStatistics`, `GetSqlMetadata`, `Disconnect`), each call one
step. On Db2 `held` is the environment and the connection handle the object knows,
`driver` what the driver has allocated and which connections are open. `connect()`
may fail at every one of its driver calls, and is called on a connected object too:
`db_psql` refuses that, `db_db2` writes over what it holds. `SQLDisconnect` may be
refused, as a comment in `exec()` (`db2_rtl.cpp:434`) says of it, and the driver then
frees neither handle; the object forgets both. `replaced` and `refused` are the
history of these two losses.

`MetaLoader` is the loop over the statements of a file: `before_sql` (`Before`,
`NoBefore`), the describe (`Describe`), `after_sql` whatever the describe gave
(`After`), then commit or rollback (`Finish`), or the early return (`GiveUp`).
One step per call on the connection, so what is durable between two of them is
seen.

### ChangeListener

Two threads. The caller's place is `cpc` (`OnChange`, `StartListenWorker`,
`QueueListen`, `RegisterHandler`, `Disconnect`, `FinishDisconnect`), the
listening thread's `wpc` (`LoopHead`, `RunListen`, `ReportListen`, `PollIdle`,
`PollReady`, `PollFails`, `TakeNotification`, `CallHandler`). A critical section
of `listen_mtx_`, a round trip, a wakeup of `poll()` and a handler call are one
step each. `run_pending_listen()` notifies under the lock, so waiting is a guard.
The second connection is what the server has sent (`wire`) and what libpq has
read (`buffered`): LISTEN itself reads the socket. `Change` is a committed
transaction of another session; the server folds equal notifications of one
transaction into one. A handler is the number of the `on_change()` call that
passed it.

### PsqlQuery and Db2Query

`PsqlQuery` has the query objects of one connection. An object is a record with
the members of the class (`prepared`, the layout generations, the rows of the
last execute and the next one to serve, `occupied`) and some history (`from`,
`at`, `served`). `execute()` of a parameter buffer with more than one row is a
batch: `BatchStart`, `Send`, `Sync`, `Read` and `Finish` are the libpq calls, and
`Replies` is the queue of results the server answers with. Every other method is
one step. `known` holds the names the server has prepared.

`Db2Query` has one object, the places it is moved through, and per statement
handle what the driver was told (`told`): the text, the addresses in the two
buffers and how many rows they have, where the status of each row of a batch goes
and whether rows run one by one, and the objects whose counters it writes. A
buffer's address changes with its size. `prepare()` fails at any of its calls, with
what was told before it left in place (`Stopped`). The statement attributes, in
`prepare()` and in the move, may each be refused too, which nobody looks at
(`Complete`, `Rebound`; `refused` is the history of it): the driver then keeps what
it had. `astray` and `missed` collect what a statement used that is gone, and what
it ran without. The number of affected rows is left out.

### RowBuffers

A generated buffer has an array per column, so the model has one column of any
category (`c_string`, `w_string`, `b_string`, `atomic`, `structure`): `mem` is the
array, flat, `ind` the indicators, `refs` the storage the row views refer to. `Set`,
`SetNull`, `SizeParams`, `SizeResults`, `Copy` are the generated methods,
`FetchRow` and `NextPage` what a fetch stores, `Getter` and `Marshal` what a
caller and the server read. A setter whose text is as long as the array or whose row
is `buffer_size()` is accepted, as in the code, and sets `careless`. A write that
leaves the array, whoever makes it, sets `wild`; what it does to other memory is
undefined and not modelled, so nothing is claimed of what is read afterwards.

### ValueText, TextTools, ErrorStatus, ColumnTypes

Pure functions, under the names they have in the source; the state is the value
at hand, which the steps vary. A text is a sequence of character codes. A loop of
the source that carries something along is a recursive function over the places of
its text: `Undashed` is `parse_guid()`'s, which skips a dash only in front of a
whole byte, `Segments` is `prefix_split()`'s `while (std::getline(...))`, which
`getline` describes one turn of, and `read_fraction` weighs its digits.
`ErrorStatus` has one action per place an error is made and the two tables of
`db_error.cpp`. `ColumnTypes` takes a statement through `describe`, `named`
(`push_column_names()`), `sized` (`apply_field_len()`) and `emitted`
(`internal_model_to_json()`); its tables are those of `psql_types.hpp`,
`db2_types.hpp` and `sql_types.hpp`.

### YamlInput

A node is a kind and a value. `Load` reads the file, `NoStatements` refuses a
root that is no map or has no list, `NoId`, `NoSql`, `Duplicate` and `Add` are
what may become of an entry, `Finish` returns. Every logged error counts in
`complaints`. `before`, `par-buf-size` and `parameter-names` stand for their
twins, which the code treats alike.

### GenRun

The main thread (`load_parameters`, `Preflight`, `Disconnected`,
`prepare_templates`, `Spawn`, `Join`) and the workers (`WorkerConnect`, `Take`,
`Load`, `MakeFolder`, `Render`, `Open`, `Write`, `FileFailed`, `WorkerClose`). The
cursor is taken atomically, the first error under its mutex. `disk` says whose
text an output file holds: two workers writing one file leave it mixed. `Open` and
`Write` may each fail, and the file is then among the `dropped`: the code tells
nobody. The inja environment the workers copy from is only read.

## 3. Runs

| run | instance | shows |
|---|---|---|
| `async_psql` | PostgreSQL, lost connections, 6 calls, 1 task, `FairSpec` | `IndInv`, the inductive invariant of the proofs; no lost wakeup, order, snapshots, first error, honest commit, undone failures, execute_sync truthful, refinement of `TxSession`, every call returns |
| `async_db2` | Db2, all operations, all failures, 4 calls, 2 tasks, 1 cancel | the same core with `exec`, `fetch_more`, `is_finished` and `cancel`: honest commit, undone failures, quiet when told, cancel uses a task that exists |
| `listen` | 2 tables, 3 `on_change()` calls, 2 changes, failures of COMMIT, LISTEN, poll and the connection, `FairSpec` | registered means wired, nothing lost, order, the newest handler serves, quiet after `disconnect()`; `on_change()` returns while its thread is there, `disconnect()` always |
| `connection` | both backends, 3 statements, 3 connects (of a connected object too), 3 ends of a transaction, describes or refreshes, a refused SQLDisconnect | PostgreSQL: connected means inside a transaction; a successful `exec()` has its effect, `rollback()` undoes; Db2: no held handle is freed, and a handle of the driver is held or lost in one of two ways |
| `load` | PostgreSQL, 2 files of 2 statements with any hooks | a refused statement leaves nothing, each starts clean and is one unit of work; complete hooks are durable |
| `query_psql` | 2 places, 3 names, results of up to 3 rows, buffers of up to 3, 2 executes or batches, 2 resizes | names are owned once and never clash, destroying harms no other; each row once and in order; the pipeline is left empty, ok means all, the status of a row is honest, a failed batch leaves nothing |
| `query_db2` | 2 places, 2 handles, 2 resizes, buffers of 1 and 2 rows, a failure at every call of `prepare()`, 1 refused attribute | handles valid and not leaked; no address, row or status used that is gone and no row missed, but by the attribute that was refused |
| `buffers` | width 1, 2 rows, 3 allocations, strings of up to 3, every row up to the one behind the last, years of 2 and of 5 digits | sent as set, read as sent; only a text as long as the array or a row past the end leaves the array |
| `sequential` | boundary years, months, times and fractions; up to 4 bytes; texts of up to 6 characters, 2 wide characters; every SQLSTATE condition the tables tell apart; yaml files of 2 entries over every kind of node; of both backends 1 parameter and 1 column of every native type | `ValueText`: round trips, exact display, no overrun. `TextTools`: lines, prefixes and indentation kept, UTF-8 well formed. `ErrorStatus`, with 2 columns: no failure turns into success, what is retried stays known. `YamlInput`: accepted means every statement, good widths kept, and an error logged for each sql, size, width or name list not taken as written; a `before` or `after` that is no map is excepted. `ColumnTypes`: declared widths arrive, every width is settled, types are stable, readers and bindings fit, helpers included when needed |
| `gen` | 3 files, no `-j`, `-j 2`, bare `-j` where the number of cores is unknown, every failure, of the open and of the write of an output too, `FairSpec` | one worker per file, first error kept, drained, ok means generated (outputs that could not be written excepted), connections closed, the program ends |
| `find_prepare_commit` | PostgreSQL, a `prepare()` that fails, 4 calls | `commit()` reports success for a transaction the server rolled back |
| `find_copied_rows` | as `buffers`, strings of up to 2 | the rows of a copied buffer are the original's |

Where a run checks a property such as `BatchHonest` or `QueueServed`, that is a
conjunction defined in the module (for `ValuesKept`, `StorageSound`, `WidthsKept`,
`TypesAgree`, `FilesHonest`, `FailuresHonest` and `ConversionsFaithful` in the one of
`Buffers`, `StatementColumns`, `YamlFile` and `Conversions` that holds the instance),
of parts that are named and commented there (the module's `TypeOK` is one of them
where it has one).

Bounds. Six calls of `async_db` are a prepare, two statements, the end of a
transaction and two more calls of the next one, enough for an effect to leak from
one transaction into the next; with the queue one deep, three statements fill the
worker's hand, the queue and the caller's wait. Four calls suffice on Db2 for
prepare, two overlapping statements and a commit, and for a second task. One cancel
request is enough to be stale; one buffer of rows distinguishes fetched from left
over. Three `on_change()` calls over two tables replace a handler and add a channel
while the first is live; two changes can be out of order. Three rows are a first, a
middle and a last one; with a buffer of two they make a full page and a short one.
Two handles are an old one and a new one, before or after a move; buffers of one
and of two rows are a single row and a batch, and what one refused attribute does
shows by itself. Three connects are one that succeeds, one over it and one after a
disconnect. In `query_psql` several objects meet only in their names and in the
transaction, so with more than one object `InFocus` allows one execute() of one
row; in `sequential` a behaviour varies one part. Width 1 and strings of up to 3
are below, at and above the width, as long as the array, and longer. Two statements
and two files cover both ways of advancing and what the first leaves for the
second. Three files with two workers leave one file to race for. The pure functions
are checked on the values around their boundaries.

Symmetry is used over the places of query objects, which nothing orders, in
`query_psql` and `query_db2`; neither checks liveness. Calls are ordered numbers
and have none.

Failures that are off, each because the code then breaks a property of the run (see
the list below): `PrepareMayFail` and `CommitMayFail` in `async_psql`,
`CommitMayFail` in `connection` and `load`, lone surrogates among `Points` in
`sequential`, and two files of one stem in `gen`. `listen` has one `connect()` for
the same reason. `load` is PostgreSQL's: on Db2 `exec()` commits by itself and the
unit of work it reasons about does not exist. Everything else that can fail may
fail; on Db2 `async_db2` has all failures on and `CommitHonest` and
`FailedTxUndone` hold.

Deadlock checking is on except in `listen`, `query_db2` and `sequential`: there
the caller has made all the calls the bounds allow, or the value has its full
length, and nothing is left to do; in `listen` a caller may also wait for a
thread that has left its loop. Elsewhere an end is an explicit stutter (`Halted`,
`Done`, `Ended`).

Fairness. `AsyncDb!FairSpec`: weak fairness of the caller's steps inside a call
and of the worker's steps. The operating system schedules both threads and the
database answers or the connection drops. Nothing obliges the caller to make a
call, `cancel()` to be called, or a wait to wake spuriously, and `CallsReturn`
does not need it. `ChangeListener!FairSpec` is the same for the caller inside
`on_change()` and `disconnect()` and for the listening thread, whose `poll()` has
a timeout; no change has to happen. `GenRun!FairSpec`: the main thread and every
worker keep being scheduled, and files, databases and templates answer or fail.

### What the repository says and the code does not do

`find_prepare_commit` and `find_copied_rows` are runs. On PostgreSQL a failed
`prepare()` aborts the transaction without setting the sticky error, and the next
`commit()` reports success for what the server rolled back. A copied buffer has
the row-wise view of the original. The others were met while modelling. Where a
definition is named, it states the promise, stands at the end of its module (for
`RowBuffers` and `ErrorStatus` also of `Buffers` and `Conversions`), and TLC refutes
it on a small instance; where an exception is named, a property is checked except for
that case.

`rtl::async_db`

- A job queued before a failure was noted still runs, though every later task is
  to be refused (`StickyRefusesAll`).
- `exec()` returns while the previous job is running (`ExecAfterPrevious`), and a
  second `exec()` replaces rows that were not fetched (`ExecKeepsRows`).
- `prepare()` under a sticky error returns a handle to a null task
  (`HandlesPrepared`).
- On PostgreSQL a refused COMMIT leaves autocommit on, and a later successful
  `rollback()` undoes nothing (`FailedTxUndone` with `CommitMayFail`).
- `cancel()` can abort the job after the one it saw (`CancelHitsItsJob`), and
  reads `tasks_` without the lock while `prepare()` appends to it on the caller's
  thread (`TasksNotRaced`).

`rtl::db` and `on_change`

- `stop_listen_` is never reset, and a thread that left its loop after an error of
  `poll()` is not replaced: `on_change()` then waits for ever (`AlwaysReturns`).
- `disconnect()` keeps `handlers_`, but a later connection runs no LISTEN for them:
  the handlers look registered and get nothing (`HandlersServed` and
  `NotificationsKept` with two connects).
- A notification libpq read during LISTEN stays in its buffer while the socket is
  idle (`BufferedDispatched`).
- A handler may run after `on_change()` returned with its replacement
  (`ReplacedIsSilent`).
- Two equal row changes of one transaction reach the handler once (`OncePerRow`).
- `db_db2::connect()` of a connected object loses its handles and its session, and
  `disconnect()` behind a refused `SQLDisconnect` forgets handles that the driver
  could not free (`NothingLeft`; the exceptions of `HandlesAccounted`).
- `db_db2::exec()` ignores the status of its own commit (`ExecEffective` with
  `CommitMayFail`), and that commit makes the caller's earlier work durable (the
  exception of `RollbackUndoes`); before_sql of a refused statement stays
  (`RefusedLeavesNothing` on Db2).
- On PostgreSQL a failing `after_sql` undoes `before_sql` and the statement counts
  as loaded (`HooksStick`).

`rtl::query` and the buffers

- A second `prepare()`, which an error message advises, is refused by the server:
  the name is taken (the exception of `NoNameClash`).
- `fetch()` after a failed `execute()` serves older rows (`FreshRows`), and
  `occupied()` may exceed a buffer made smaller (`OccupiedFits`).
- When a send fails, the rows never sent are reported as ok, and the rows sent
  before stay (the exceptions of `RowStatusHonest` and `AllOrNothing`).
- A failed `SQLAllocHandle` leaves a freed handle in use (the exception of
  `HandlesValid`), and `is_prepared()` is true after a failed `prepare()`
  (`PreparedOnly`).
- The results of `SQLSetStmtAttr` are not looked at (`query.hpp:135-136`, 196-206,
  239-240). Refused in `prepare()`, the success reported is one of a statement whose
  rows `fetch()` does not see, or that sends one row of a batch or no status
  (`NothingUnnoticed`); refused in the move, the driver writes the counters of the
  object that is gone (`NothingAstray`). Both are the exceptions of `BoundInUse`.
- A string as long as the array is terminated past it, and setters accept
  `row == buffer_size()` (`ArraysKept`; the exceptions of `InBounds`).
- A number or date fetched over a NULL stays NULL (`NullsAreSent`), and a date before
  Christ loses its era (the exceptions of `ReadAsSent`). A wide string is not
  converted on PostgreSQL: it is sent empty and stored as NULL (`Arrives`,
  `Converts`).
- A copied buffer's rows refer to the original, also when that is gone
  (`RowsAreOwn`, run `find_copied_rows`).

Conversions and types

- A lone surrogate makes ill-formed UTF-8 (`Utf8WellFormed` with such a point);
  `lpad()` and `pad()` default to different fills (`BlankIsDefault`).
- A failed bind asks for a diagnostic record by column number (`StateKept`), and
  `execute()` without `prepare()` loses the sequence error (`ClientFaultNamed`).
- Wide columns are bound with two-byte units and stored with four (the exception
  of `BindFits`); bit strings are decoded as hex (the exception of
  `ReaderMatches`); a json parameter is declared as text (`ServerAccepts`); the
  text of a number may be longer than its buffer (`NumberFits`).
- `field-len: 0` gives a column of width 0 (`NoZeroWidth`).

The generator

- Sql of only white space is accepted and becomes empty (`EveryStatementHasSql`), a
  batch size that is no number becomes 1 (`DefaultOnlyWhenAbsent`), and a syntax
  error is reported as an unreadable file (`SyntaxNamed`).
- A `before` or `after` that is a plain string is no map, and is passed over
  without a log line (`parser.cpp:183-184`; `HooksTold`, the exception of
  `SilentMeansAsWritten`).
- A file that cannot be opened or written ends in status ok (`LossTold`; the
  exception of `OkMeansGenerated`), and two inputs of one stem write one output file
  (`Stems` with two equal ones).
- A folder that cannot be made ends the program from a worker (`NotTerminated`).
- A refused command line ends in the status of a failed connection
  (`RefusalNamed`).

## 4. Proofs

Each proof module extends the module of its component and proves its theorems
for every value of the constants that its `ASSUME`s allow: any number of calls,
tasks, rows, objects, files, workers, tables and connections, every failure
switch on or off, and both backends where the module has both. The assumptions
say that bounds are natural numbers (a buffer has a row, a run has a file, a file
a statement), that switches are Booleans and that the backend is a known one.
`BuffersAssumption` says that bytes and years are numbers and a width is positive;
`StatementColumnsAssumption` that what a database reports of a type are counts and
that a numeric's scale fits the sixteen bits it has in a typmod.
`DbOpsProofs` holds the lemmas they share: which answers each call of `rtl::db`
may give and what it leaves of the transaction.

| module | theorems | hypothesis |
|---|---|---|
| `AsyncDbProofs` | `TypeOK`, `NoLostWakeup`, `NoDeadlock`, `Fifo`, `SnapshotIsolated`, `QuietWhenTold`, `FirstErrorWins`, `ShutdownDrains`, `CancelSafe`, `SyncIsTruthful` | none |
| | `CommitHonest` | on PostgreSQL no PREPARE is refused |
| | `FailedTxUndone` | on PostgreSQL no COMMIT is refused |
| | `TransactionsAtomic`: `AsyncDb` implements `TxSession` | both |
| `DbConnectionProofs` | `HandlesAccounted` | none |
| | `InsideTransaction` | on PostgreSQL no COMMIT is refused |
| | `AnswersHonest` | no COMMIT is refused |
| | of `ErrorStatus`: `StatusOfState` (for every SQLSTATE), `FailuresHonest` | none |
| | of both: `ConversionsFaithful` | the five below |
| | of `ValueText`: `TimestampRoundTrip`, `DisplayExact` | years of four digits, a clock of two, fractions below a second |
| | of `ValueText`: `DisplayFits` | every field has its sixteen bits |
| | of `ValueText`: `BlobRoundTrip`, `GuidRoundTrip`, `HexFaithful` | bytes have eight bits |
| | of `TextTools`: `LinesExact`, `EveryLinePrefixed`, `IndentKept` and `Utf8WellFormed` | no code point is a surrogate |
| `MetaLoaderProofs` | `CleanStart` | on PostgreSQL no COMMIT is refused |
| | `HooksAtomic` | PostgreSQL, no COMMIT is refused |
| | of `YamlInput`: `FilesHonest` | the maps and lists of a document are finite |
| `ChangeListenerProofs` | `QuietAfterDisconnect`, `HandledInOrder`, `NewHandlerServes` | none |
| | `HandlersServed`, `NotificationsKept` | the first connection (`connects <= 1`) |
| `PsqlQueryProofs` | `NamesOwned`, `PagesInOrder`, `BatchHonest`, `DestroyHarmless` | none |
| `Db2QueryProofs` | `HandlesSound`, `BoundInUse` | none |
| | of `RowBuffers`: `StorageSound` | none |
| | of `RowBuffers`: `ReadAsSent` | nothing was written outside of an array (`~wild`) |
| | of `RowBuffers`: `SentAsSet` (of C strings without a null inside) | the caller was careful so far (`~careless`) |
| | of `RowBuffers`: `ValuesKept`, which has these two conditions in it | no null among the bytes |
| `GenRunProofs` | `QueueServed` | none |
| | `ExitHonest` | no two files have the same stem |
| | of `ColumnTypes`: `WidthsKept`, `TypesAgree` | none |

A hypothesis stands only where the code breaks the property without it, and TLC
shows how; each is in the list of section 3. A refused PREPARE aborts
PostgreSQL's transaction behind the sticky error's back (`find_prepare_commit`);
a refused COMMIT leaves `db_psql` in autocommit mode, and on Db2 `exec()` does not
look at it; two files of one stem write one output; `disconnect()` keeps
`handlers_`, and the next connection does not listen for them. A text of the whole
array is terminated behind it, a setter takes the row behind the last (`careless`),
and what such a write hits is undefined (`wild`); a surrogate is encoded as if it were
a character. A C string ends at its first null, so one inside a text
cannot be carried. The remaining hypotheses say what the types of the code or its
libraries give: the fields of a timestamp have sixteen bits, a byte has eight, a
server's years have four digits and its clock two, yaml-cpp's nodes are finite. Lost
connections, failed statements, failed thread starts and everything else stay
allowed.

None of the properties is inductive as it stands. TLC checked every inductive
invariant below on instances of the size of section 3 before it was proved
(`IndInv` is also checked in `async_psql`).

`AsyncDbProofs`. `IndInv` adds

- `CallShape`: the caller's place determines the call it is making, its number
  is the newest, and the row of a statement not yet posted is its own;
- `JobsShape`: a queued job and the job in hand are complete and carry the row
  of their own call (why `SnapshotIsolated` survives `RunStatement`);
- `Handover`: `busy_` says that the worker has a job in hand, and a call that has
  not posted is younger than everything posted (why `Fifo` survives a post);
- `QuietPlaces`, `Stopping`: after a drain the caller's place keeps the worker
  idle, and `stop_` is set only there (why nothing is left at the join);
- `CommitAlone`: a `commit()` that found no error has the worker to itself, so no
  error can appear between its test and its return (why clearing the
  transaction's failures cannot leave `error_` behind);
- `FailuresRan`: only jobs that have run can have failed, so a new failure is
  younger than all the others (why the first error is the smallest).

The transactions need more (`TxInv`): the COMMIT or ROLLBACK in the queue or in
hand is the one of the call in progress, which has the worker to itself
(`TxJobs`); the server's transaction holds statements of the present transaction
only, and none once it is decided (`TxHeld`); while nothing has failed, every
statement asked for has its effect or is on its way (`TxKept`, for
`CommitHonest`); nothing is durable before the decision or after a decision to
undo (`TxUndone`, for `FailedTxUndone`). The refinement follows step by step:
`RunInternal` of a COMMIT or ROLLBACK is the abstract decision, the return of the
call is `Reported`, and all the rest stutters or is `Ask`.

`DbConnectionProofs`. `Inv` adds that nothing is pending outside a transaction
(`Sound`), that an object that is not connected holds no handle (`DownIsClean`),
that the environment held is that of the connection held, and that the driver keeps
the environment of every connection it has (`HandlesSound`, why freeing the one
before the other frees both), that only statements that were run have an effect
(`EffectsRan`) and that nothing since the last boundary is durable
(`SinceNotDurable`, why a rollback undoes all of it).

`MetaLoaderProofs`. `HooksInv` says where every effect is: in the transaction only
those of the statement in hand, durable only those of described statements
(`EffectsPlaced`); nothing is known of statements not reached (`NotAhead`); a hook
that ran is pending as long as the transaction is intact (`RanIsPending`).

`ChangeListenerProofs`. `Inv` ties the two threads together. A call inside
`on_change()` has its trigger committed and a worker (`Places`); the request is
queued until the worker reports, and a report of success means that the channel
is listened on (`Request`), whatever the worker was doing when the request came;
so a handler is registered only behind a wired table, and on the first connection
nothing unwires it (`Wired`). Log, handler call, libpq's buffer and socket follow
each other in the order of the commits (`InOrder`), which every way of reading
keeps, and the server's next notification is behind all. What is owed belongs to
a table with a handler not older than the change (`Owing`), so neither the lookup
nor the replacement of the session can drop it. One lemma, `Flow`, lists the seven
things a step can do to a notification, and the order and loss arguments go by
its cases.

`PsqlQueryProofs`. Names are below the counter and unequal among the objects that
have a connection (`Names`); the cursor of an object stands behind the rows served
(`ObjectsOK`). A batch that is being read has in its queue exactly the replies of
the rows not read yet and of the synchronisation, for some first failing row, or
the one error of a lost connection (`BatchOK`); rows of a batch that failed with
all rows sent have no effect (`RowsOK`).

`Db2QueryProofs`. One object has the connection (`OneOwner`), the driver has that
object's handle or none (`HandlesKnown`), new storage is a new generation
(`GenerationsTell`), and what the driver was told is the owner's counters and
storage not older than the generation that `prepare()` recorded (`ToldInUse`), which
`check_layout()` compares before anything runs. `ToldOf` says so attribute by
attribute, each with its exception: the driver refused that one on this handle. So
a refused row size is worth one row, a refused counter the old object, and no
refusal excuses anything else.

`GenRunProofs`. `QueueInv` follows the main thread (`MainPlace`), the connections
(`ConnsOpen`), the first error (`FirstStays`) and each worker (`WorkerPlace`).
`GenInv` adds that the outputs behind a worker are written (`OutsBehind`) and that
a file handed out is at a worker, generated, dropped, or accounts for a failure
(`FilesServed`).

`Db2QueryProofs`, of `RowBuffers`. `BufferInv` gives the two buffers their shape
(`Shaped`: as many elements as rows times the stride of the category, an indicator
per row within -1 and the width and a null, and within the width while the caller
is careful: `ShortTexts`), only a careless caller behind anything `wild`, and a
result buffer only what a fetch can leave (`ResultIndicators`). A column is one flat
array, so which elements a row has is a product of two variables. `TimesMonotone`
and the lemmas after it keep the products to themselves: the stretches of two rows
do not meet, and the last ends with the array. Everything a method does is then
`OnlyRow`, what a row sends depends on its own stretch and indicator alone, and
`SentAsSet` and `ReadAsSent` go by rows.

`MetaLoaderProofs`, of `YamlInput`. `YamlInv`: the entries read are the statements of
the map, each under its own id, all of them or, once the file is given up, all but
the last; and while nothing was complained about, no entry read had anything to
complain of. Why an accepted file has every statement is then a count: the map has
as many ids as entries were read.

`GenRunProofs`, of `ColumnTypes`. `ColumnInv` says of every column at every stage what
its type, digits, name and size are in terms of the native type it came from and
the yaml entry; the properties follow by cases over the type tables.

`DbConnectionProofs`, of `ErrorStatus`. `ErrorInv`: a reported error is the translation
of a state that is no success. The tables are gone through once (`CodeRows` and its
companion for classes), so `StatusOfState` holds of any state, listed or not.

`DbConnectionProofs`, of `ValueText` and `TextTools`. The invariants (`StampInv`,
`TextsInv`) only keep the values in their sets; the work is what the functions
compute for every input. The recursive functions are tied to explicit descriptions,
by an argument that needs no induction rule with an operator parameter: a set of
numbers has a least one (`LeastNumber`, from the well-foundedness of `<`), so the
least place where a description fails would have a place before it where it holds
(`AllNumbers`).

- Numbers: a written number has the digits of its value (`DigitsAt`), reading them
  gives it back; nine weighted digits are the fraction, and trimming zeros from
  their end changes none of them. A timestamp is its fields at their places
  (`StampAt`), whatever follows them, so one argument serves the text sent and the
  text displayed.
- Bytes: the digits of byte i stand at 2i - 1 and 2i; `Undashed` keeps exactly the
  digits when dashes stand between bytes only, in a guid as in a dump.
- UTF-8: `Cuts` says that a set of places divides a text into whole characters; each
  code point appends one (`CutsAppend`), and a text with such places is well formed.
- Lines: `LinesKept` says of the getline loop that its segments, joined again, are
  the text, and `PrefixKept` that every line has its prefix; `TrimRight` says that
  the trimmed text begins as the untrimmed one.

Everywhere one lemma per action or per conjunct shows that a step keeps the
invariant, frame lemmas say which actions write which variables, and the theorems
are read off the invariant.

Proving changed the models where they were wrong or could not be reasoned about.
In `RowBuffers!Marshal` the branch of a NULL overlapped those of the categories,
which TLC reads in order and logic does not. `Undashed` skipped a dash within a byte as
well. `Segments` was stated by the breaks of a text and is now the loop of the source;
`read_fraction` and `ColumnTypes!Named` are written so that their arithmetic and
records are explicit.

Only model-checked: the liveness properties `CallsReturn`, `OnChangeReturns`,
`DisconnectReturns` and `Ends`. Liveness under fairness is out of the prover's reach.
The theorems of `ValueText`, `TextTools`, `ErrorStatus`, `YamlInput` and
`ColumnTypes` are about the behaviours of each module, and the run `sequential` puts
them side by side; that one leaves the state of the others alone is checked by TLC
only.

## 5. Plan

The modules of section 2 are written and checked, and every safety property the
runs check is proved. What is left:

1. `DbConnection` with a refused COMMIT: which weaker form of `AnswersHonest` the
   code still keeps.
2. A theorem about reconnects: what `on_change()` guarantees on a second
   connection besides order and quiet.

## 6. Running it

    tlc -config AsyncPsql.cfg MCAsyncDb
    tlapm AsyncDbProofs.tla

`PROJECT.json` names the module and configuration of every run and the module of
every theorem.

## 7. Not modelled

- inja, vendored: a template is rendered or fails.
- The logger, a submodule.
- The text of the templates and the generator's callbacks that only lay text
  out; what they decide (helpers, widths, categories) is in `ColumnTypes` and
  `RowBuffers`.
- The declarations of the options for CLI11; the checks after parsing are in
  `GenRun`.
- The statistics the workers print.
- Integers and floating-point numbers as text, which the standard library
  converts, and the formatting of intervals.
- What a change handler does.
- Tests, scripts, database setup and samples; they were read for what they say of
  the code.

The drivers and servers appear only through how the code uses them, and are
marked external in `PROJECT.json`.
