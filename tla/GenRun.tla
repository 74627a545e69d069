-------------------------------- MODULE GenRun --------------------------------
(***************************************************************************)
(* A run of the generator: cmd_line_params::load_parameters(), appl::exec()*)
(* with its worker threads (worker_run, process_one_file), and             *)
(* generator::generate() with the files it writes.  Parsing a file, loading*)
(* its metadata and rendering a template are the other modules' and inja's *)
(* matter: here each succeeds or fails with a status.  A file is its place *)
(* on the command line; what it generates is named by its stem.            *)
(***************************************************************************)
EXTENDS Naturals, Sequences, FiniteSetsExt, SequencesExt

CONSTANTS Stems,          \* the stem of each file, in order
          Parallel,       \* values of -j: "absent", "bare", or "1", "2"
          Hardware,       \* hardware_concurrency()
          ConnMayFail,    \* a connect() may fail
          FilesMayFail,   \* parsing, metadata or rendering may fail
          OutputMayFail   \* the folder may not be created, a file not opened, not written

ASSUME RunAssumption ==
  /\ Len(Stems) \in Nat \ {0} /\ DOMAIN Stems = 1..Len(Stems)
  /\ Parallel \subseteq {"absent", "bare", "1", "2"}
  /\ Hardware \in Nat

Files == DOMAIN Stems
Outs == <<"hpp", "cpp">>
Paths == {<<Stems[f], Outs[o]>> : f \in Files, o \in DOMAIN Outs}
MaxWorkers == Len(Stems)
Nobody == 0
Mixed == Len(Stems) + 1

VARIABLES pc,           \* main thread
          sts,          \* what exec() returns
          first_error,
          cursor,       \* next_file_idx, files taken so far
          w,            \* workers: pc, file, output, and the error at hand
          conns,        \* connections open: "main" and workers
          folder,       \* the output folder exists
          disk,         \* contents of each path: Nobody, the file it came from, Mixed (no file's whole)
          failures,     \* history: errors in the order they were recorded
          dropped       \* history: files of which write_file() lost an output
vars == <<pc, sts, first_error, cursor, w, conns, folder, disk, failures, dropped>>
mains == <<pc, sts>>
shared == <<first_error, cursor, failures>>
world == <<conns, folder, disk, dropped>>

Idle == [pc |-> "absent", file |-> 0, out |-> 0, err |-> "ok"]

Init ==
  /\ pc = "params" /\ sts = "ok" /\ first_error = "ok" /\ cursor = 0
  /\ w = [i \in 1..MaxWorkers |-> Idle] /\ conns = {} /\ folder \in BOOLEAN
  /\ disk = [p \in Paths |-> Nobody] /\ failures = <<>> /\ dropped = {}

-----------------------------------------------------------------------------
(* load_parameters(): a parse error is reported as connection_error.       *)
parallel(j) == CASE j \in {"absent", "1"} -> 1 [] j = "2" -> 2 [] j = "bare" -> Max({1, Hardware})
load_parameters ==
  /\ pc = "params"
  /\ \/ sts' \in {"cmd_all_help", "cmd_help", "cmd_version", "connection_error"} /\ pc' = "refused"
     \/ pc' = "preflight" /\ UNCHANGED sts
  /\ UNCHANGED <<shared, w, world>>

(* exec(): the connection is tried and closed again, then the templates    *)
(* are loaded and the output folder made; that step's error is ignored.    *)
Preflight ==
  /\ pc = "preflight"
  /\ \/ ConnMayFail /\ sts' = "connection_error" /\ pc' = "exit" /\ UNCHANGED conns
     \/ pc' = "connected" /\ conns' = conns \cup {"main"} /\ UNCHANGED sts
  /\ UNCHANGED <<shared, w, folder, disk, dropped>>
Disconnected ==
  /\ pc = "connected" /\ pc' = "prepare" /\ conns' = conns \ {"main"}
  /\ UNCHANGED <<sts, shared, w, folder, disk, dropped>>
prepare_templates ==
  /\ pc = "prepare"
  /\ \/ FilesMayFail /\ sts' \in {"error_reading_file", "inja"} /\ pc' = "exit" /\ UNCHANGED folder
     \/ /\ pc' = "spawn" /\ folder' \in (IF folder \/ ~OutputMayFail THEN {TRUE} ELSE BOOLEAN) /\ UNCHANGED sts
  /\ UNCHANGED <<shared, w, conns, disk, dropped>>
worker_count(j) == Min({parallel(j), Max({Len(Stems), 1})})
Spawn ==
  /\ pc = "spawn" /\ pc' = "join"
  /\ \E j \in Parallel :
       w' = [i \in 1..MaxWorkers |-> [Idle EXCEPT !.pc = IF i <= worker_count(j) THEN "connect" ELSE "absent"]]
  /\ UNCHANGED <<sts, shared, world>>
Join ==
  /\ pc = "join" /\ \A i \in 1..MaxWorkers : w[i].pc \in {"absent", "done"}
  /\ pc' = "exit" /\ sts' = IF first_error # "ok" THEN first_error ELSE sts
  /\ UNCHANGED <<shared, w, world>>

-----------------------------------------------------------------------------
(* worker_run().  fetch_add() hands out each index once; the first error   *)
(* recorded under sts_mutex stays.                                         *)
Running(i, at) == pc = "join" /\ w[i].pc = at
Go(i, at) == w' = [w EXCEPT ![i].pc = at]
FaultyRecorded(e) == e
Recorded(e) == IF first_error = "ok" THEN e ELSE first_error
Record(e) == first_error' = Recorded(e) /\ failures' = Append(failures, e)

WorkerConnect(i) ==
  /\ Running(i, "connect")
  /\ \/ ConnMayFail /\ Go(i, "done") /\ Record("connection_error") /\ UNCHANGED conns
     \/ Go(i, "loop") /\ conns' = conns \cup {i} /\ UNCHANGED <<first_error, failures>>
  /\ UNCHANGED <<mains, cursor, folder, disk, dropped>>
FaultyTaken(i) == cursor
TakenBy(i) == cursor + 1
Take(i) ==
  /\ Running(i, "loop") /\ cursor < Len(Stems) /\ cursor' = TakenBy(i)
  /\ w' = [w EXCEPT ![i] = [pc |-> "process", file |-> cursor + 1, out |-> 1, err |-> "ok"]]
  /\ UNCHANGED <<mains, first_error, failures, world>>
Closed(i) == conns \ {i}
WorkerClose(i) ==
  /\ Running(i, "loop") /\ cursor >= Len(Stems)
  /\ cursor' = cursor + 1 /\ Go(i, "done") /\ conns' = Closed(i)
  /\ UNCHANGED <<mains, first_error, failures, folder, disk, dropped>>

(* process_one_file(): parse, load the metadata, generate.                 *)
Load(i) ==
  /\ Running(i, "process")
  /\ \/ FilesMayFail /\ \E e \in {"yaml", "sql"} : w' = [w EXCEPT ![i].pc = "failed", ![i].err = e]
     \/ Go(i, IF folder THEN "render" ELSE "mkdir")
  /\ UNCHANGED <<mains, shared, world>>
(* generate() saw no folder: create_directories() answers false when it    *)
(* fails, and when another thread has made the folder since; what is then  *)
(* thrown leaves the thread's function, which is std::terminate().         *)
MakeFolder(i) ==
  /\ Running(i, "mkdir")
  /\ \/ ~folder /\ folder' = TRUE /\ Go(i, "render") /\ UNCHANGED pc
     \/ (folder \/ OutputMayFail) /\ pc' = "terminated" /\ UNCHANGED <<folder, w>>
  /\ UNCHANGED <<sts, shared, conns, disk, dropped>>
Path(i) == <<Stems[w[i].file], Outs[w[i].out]>>
Render(i) ==
  /\ Running(i, "render")
  /\ \/ FilesMayFail /\ w' = [w EXCEPT ![i].pc = "failed", ![i].err = "inja"]
     \/ Go(i, "open")
  /\ UNCHANGED <<mains, shared, world>>
(* write_file(): the ofstream truncates the file, or is not good(), which  *)
(* builds an unexpected value and drops it; the write then does nothing.   *)
(* A write that fails, or the flush of the destructor, leaves the file as  *)
(* it was opened or a part of the text in it, and nothing asks the stream. *)
(* The answer is that of success each time.                                *)
Written(f, old) == IF old \in {Nobody, f} THEN f ELSE Mixed
NextOut(i) ==
  w' = IF w[i].out < Len(Outs) THEN [w EXCEPT ![i].pc = "render", ![i].out = @ + 1] ELSE [w EXCEPT ![i].pc = "loop"]
Open(i) ==
  /\ Running(i, "open")
  /\ \/ disk' = [disk EXCEPT ![Path(i)] = Nobody] /\ Go(i, "write") /\ UNCHANGED dropped
     \/ OutputMayFail /\ NextOut(i) /\ dropped' = dropped \cup {w[i].file} /\ UNCHANGED disk
  /\ UNCHANGED <<mains, shared, conns, folder>>
Write(i) ==
  /\ Running(i, "write") /\ NextOut(i)
  /\ \/ disk' = [disk EXCEPT ![Path(i)] = Written(w[i].file, @)] /\ UNCHANGED dropped
     \/ /\ OutputMayFail /\ dropped' = dropped \cup {w[i].file}
        /\ \E left \in {disk[Path(i)], Mixed} : disk' = [disk EXCEPT ![Path(i)] = left]
  /\ UNCHANGED <<mains, shared, conns, folder>>
FaultyOnward == "done"
Onward == "loop"
FileFailed(i) ==
  /\ Running(i, "failed") /\ Record(w[i].err) /\ Go(i, Onward)
  /\ UNCHANGED <<mains, cursor, world>>

Worker(i) ==
  WorkerConnect(i) \/ Take(i) \/ WorkerClose(i) \/ Load(i) \/ MakeFolder(i) \/ Render(i) \/ Open(i) \/ Write(i) \/ FileFailed(i)
Main == load_parameters \/ Preflight \/ Disconnected \/ prepare_templates \/ Spawn \/ Join
Done == pc \in {"exit", "refused", "terminated"} /\ UNCHANGED vars

Next == Main \/ (\E i \in 1..MaxWorkers : Worker(i)) \/ Done
Spec == Init /\ [][Next]_vars

(* Threads are scheduled, and each call of theirs returns.                 *)
FairSpec == Spec /\ WF_vars(Main) /\ \A i \in 1..MaxWorkers : WF_vars(Worker(i))

-----------------------------------------------------------------------------
(* At most one worker is at a file, and at most as many work as there are  *)
(* files: "no file is ever handled by more than one worker".               *)
Busy(i) == w[i].pc \in {"process", "mkdir", "render", "open", "write", "failed"}
OneWorkerPerFile ==
  \A i, j \in 1..MaxWorkers : i # j /\ Busy(i) /\ Busy(j) => w[i].file # w[j].file

(* "the program's own exit code reflects the first error encountered": a   *)
(* run ends with the error that was recorded first, and with ok only if    *)
(* there was none.                                                         *)
ExitTellsFirst ==
  pc = "exit" /\ (\E i \in 1..MaxWorkers : w[i].pc = "done") =>
    sts = IF failures = <<>> THEN "ok" ELSE Head(failures)

(* "If any file fails, the other workers keep draining the queue rather    *)
(* than stopping early": once a worker is connected every file is taken.   *)
Drained ==
  pc = "exit" /\ (\E i \in 1..MaxWorkers : w[i].pc = "done") =>
    cursor >= Len(Stems) \/ \A i \in 1..MaxWorkers : w[i].pc = "done" => w[i].file = 0

(* A run that ends with ok has generated every file, those excepted of     *)
(* which write_file() could not open or write an output: see LossTold.     *)
OkMeansGenerated ==
  pc = "exit" /\ sts = "ok" =>
    \A f \in Files \ dropped, o \in DOMAIN Outs : disk[<<Stems[f], Outs[o]>>] = f

(* No connection outlives the run, whichever way it ends.                  *)
ConnectionsClosed == pc \in {"exit", "refused"} => conns = {}

(* Every run comes to its end.                                             *)
Ends == <>(pc \in {"exit", "refused", "terminated"})

(* The exit status is the truth about the run: its first error, or ok and  *)
(* every file generated.                                                   *)
ExitHonest == ExitTellsFirst /\ OkMeansGenerated

(* The queue of files is served: each file by one worker, all of them      *)
(* after a failure too, and every worker closes its connection.            *)
QueueServed == OneWorkerPerFile /\ Drained /\ ConnectionsClosed

-----------------------------------------------------------------------------
(* What the repository says and the code does not do; TLC refutes each on  *)
(* a small instance.                                                       *)

(* "the program's own exit code reflects the first error encountered": an  *)
(* output that could not be written is told by the exit status.            *)
LossTold == pc = "exit" /\ dropped # {} => sts # "ok"

(* A failure in one file is this file's: the run goes on to its exit status*)
(* ("unhandled_exception", for what exec() catches), and is not terminated.*)
NotTerminated == pc # "terminated"

(* parser_errors.hpp: connection_error is "cant connect to the database",  *)
(* and a command line that cannot be parsed has a status of its own.       *)
RefusalNamed == pc = "refused" => sts # "connection_error"
=============================================================================
