---------------------------- MODULE GenRunProofs ----------------------------
(***************************************************************************)
(* Proofs about GenRun, for any files, workers and failures, and about     *)
(* ColumnTypes, for any native types, names and field-len maps.            *)
(***************************************************************************)
EXTENDS GenRun, StatementColumns, Integers, Sequences, TLAPS

Ids == 1..MaxWorkers
Errors == {"connection_error", "yaml", "sql", "inja"}
AtFile == {"process", "mkdir", "render", "open", "write", "failed"}
Workers == [pc : {"absent", "connect", "loop", "done"} \cup AtFile,
            file : 0..Len(Stems), out : 0..2, err : {"ok"} \cup Errors]

(* No worker has been started, and nothing has been taken or recorded.     *)
Fresh == (\A i \in Ids : w[i] = Idle) /\ failures = <<>> /\ first_error = "ok" /\ cursor = 0

Typed ==
  /\ pc \in {"params", "preflight", "connected", "prepare", "spawn", "join", "exit", "refused", "terminated"}
  /\ w \in [Ids -> Workers] /\ cursor \in Nat
  /\ failures \in Seq(Errors) /\ first_error \in {"ok"} \cup Errors
  /\ folder \in BOOLEAN /\ disk \in [Paths -> 0..Mixed] /\ dropped \subseteq Files

(* What the main thread has done so far.                                   *)
MainPlace ==
  /\ pc \in {"params", "preflight", "connected", "prepare", "spawn", "refused"} => Fresh
  /\ pc \in {"params", "preflight", "connected", "prepare", "spawn", "join"} => sts = "ok"
  /\ pc = "join" => \E i \in Ids : w[i].pc # "absent"
  /\ pc = "exit" =>
       \/ Fresh /\ sts # "ok"
       \/ /\ \A i \in Ids : w[i].pc \in {"absent", "done"}
          /\ \E i \in Ids : w[i].pc = "done"
          /\ sts = first_error

(* A connection is open exactly while its thread is between the two calls. *)
ConnsOpen ==
  /\ pc \in {"params", "preflight", "prepare", "spawn", "refused"} => conns = {}
  /\ pc = "connected" => conns = {"main"}
  /\ pc \in {"join", "exit"} => conns = {i \in Ids : w[i].pc \in {"loop"} \cup AtFile}

(* The first error recorded is the first of all.                           *)
FirstStays ==
  /\ failures = <<>> => first_error = "ok"
  /\ failures # <<>> => first_error = Head(failures) /\ first_error # "ok"

(* The file a worker is at was handed out, and a worker is done when the   *)
(* files are, or when it did not get a connection.                         *)
WorkerPlace(i) ==
  /\ w[i].pc \in {"absent", "connect"} => w[i].file = 0
  /\ w[i].pc \in AtFile => w[i].file \in Files /\ w[i].file <= cursor /\ w[i].out \in 1..2
  /\ w[i].pc \in {"process", "mkdir"} => w[i].out = 1
  /\ w[i].pc = "failed" => w[i].err \in Errors
  /\ w[i].pc = "done" => w[i].file = 0 \/ cursor >= Len(Stems)
  /\ w[i].pc = "done" => failures # <<>> \/ cursor >= Len(Stems)

QueueInv ==
  /\ Typed /\ MainPlace /\ ConnsOpen /\ FirstStays
  /\ \A i \in Ids : WorkerPlace(i)
  /\ OneWorkerPerFile

-----------------------------------------------------------------------------
(* With distinct stems no two files share an output.                       *)
DistinctStems == \A f, g \in Files : Stems[f] = Stems[g] => f = g

OutOf(f, o) == disk[<<Stems[f], Outs[o]>>]

(* The outputs a worker has behind it are written, unless one was dropped, *)
(* and the one it is writing is empty.                                     *)
OutsBehind ==
  \A i \in Ids : w[i].pc \in AtFile =>
    /\ \A o \in 1..2 : o < w[i].out /\ w[i].file \notin dropped => OutOf(w[i].file, o) = w[i].file
    /\ w[i].pc = "write" => OutOf(w[i].file, w[i].out) = Nobody

(* A file that was handed out is at a worker, is generated, or accounts    *)
(* for a failure.                                                          *)
Generated(f) == f \in dropped \/ failures # <<>> \/ \A o \in 1..2 : OutOf(f, o) = f
FilesServed ==
  \A f \in Files : f <= cursor => Generated(f) \/ \E i \in Ids : w[i].pc \in AtFile /\ w[i].file = f

GenInv == QueueInv /\ OutsBehind /\ FilesServed

-----------------------------------------------------------------------------
(* The larger of two numbers, and the smaller.                             *)
LEMMA MaxMinPair ==
  ASSUME NEW a \in Nat, NEW b \in Nat
  PROVE  /\ Max({a, b}) \in Nat /\ Max({a, b}) >= a /\ Max({a, b}) >= b
         /\ Min({a, b}) \in {a, b}
  <1>1. \E x \in {a, b} : \A y \in {a, b} : x >= y
    OBVIOUS
  <1>2. \E x \in {a, b} : \A y \in {a, b} : x <= y
    OBVIOUS
  <1>. QED
    BY <1>1, <1>2 DEF Max, Min

(* At least one worker is started, whatever -j says.                       *)
LEMMA SomeWorker ==
  ASSUME NEW j \in Parallel
  PROVE  worker_count(j) \in Nat /\ worker_count(j) >= 1
  <1>1. parallel(j) \in Nat /\ parallel(j) >= 1
    BY RunAssumption, MaxMinPair DEF parallel
  <1>2. Max({Len(Stems), 1}) \in Nat /\ Max({Len(Stems), 1}) >= 1
    BY RunAssumption, MaxMinPair
  <1>. QED
    BY <1>1, <1>2, MaxMinPair DEF worker_count

(* One worker moves, and the others stay where they are.                   *)
Moves(i) == w' \in [Ids -> Workers] /\ \A j \in Ids : j # i => w'[j] = w[j]

(* A worker that only goes on keeps its file, its output and its error.    *)
LEMMA GoMoves ==
  ASSUME Typed, NEW i \in Ids, NEW at \in {"connect", "loop", "done"} \cup AtFile, Go(i, at)
  PROVE  /\ Moves(i) /\ w'[i].pc = at
         /\ w'[i].file = w[i].file /\ w'[i].out = w[i].out /\ w'[i].err = w[i].err
  <1>. DEFINE r == [w[i] EXCEPT !.pc = at]
  <1>1. w[i] \in Workers /\ w \in [Ids -> Workers]
    BY DEF Typed
  <1>2. r \in Workers /\ r.pc = at /\ r.file = w[i].file /\ r.out = w[i].out /\ r.err = w[i].err
    BY <1>1 DEF Workers
  <1>3. w' = [w EXCEPT ![i] = r]
    BY <1>1 DEF Go
  <1>. HIDE DEF r
  <1>. QED
    BY <1>1, <1>2, <1>3 DEF Moves

(* A worker whose file failed keeps the error.                             *)
LEMMA FailMoves ==
  ASSUME Typed, NEW i \in Ids, NEW e \in Errors, w' = [w EXCEPT ![i].pc = "failed", ![i].err = e]
  PROVE  /\ Moves(i) /\ w'[i].pc = "failed"
         /\ w'[i].file = w[i].file /\ w'[i].out = w[i].out /\ w'[i].err = e
  <1>. DEFINE r == [w[i] EXCEPT !.pc = "failed", !.err = e]
  <1>1. w[i] \in Workers /\ w \in [Ids -> Workers]
    BY DEF Typed
  <1>2. r \in Workers /\ r.pc = "failed" /\ r.file = w[i].file /\ r.out = w[i].out /\ r.err = e
    BY <1>1 DEF Workers, AtFile
  <1>3. w' = [w EXCEPT ![i] = r]
    BY <1>1
  <1>. HIDE DEF r
  <1>. QED
    BY <1>1, <1>2, <1>3 DEF Moves

(* After an output comes the next one, and after the last the next file.   *)
LEMMA NextOutMoves ==
  ASSUME Typed, NEW i \in Ids, w[i].out \in 1..2, NextOut(i)
  PROVE  /\ Moves(i) /\ w'[i].file = w[i].file
         /\ \/ w[i].out = 1 /\ w'[i].pc = "render" /\ w'[i].out = 2
            \/ w[i].out = 2 /\ w'[i].pc = "loop"
  <1>0. Len(Outs) = 2 /\ w[i] \in Workers /\ w \in [Ids -> Workers]
    BY DEF Outs, Typed
  <1>1. CASE w[i].out = 1
    <2>. DEFINE r == [w[i] EXCEPT !.pc = "render", !.out = w[i].out + 1]
    <2>1. w[i].out + 1 = 2 /\ w[i].out + 1 \in 0..2
      BY <1>1
    <2>2. r \in Workers /\ r.pc = "render" /\ r.file = w[i].file /\ r.out = w[i].out + 1
      BY <1>0, <2>1 DEF Workers, AtFile
    <2>3. w' = [w EXCEPT ![i].pc = "render", ![i].out = @ + 1]
      BY <1>0, <1>1 DEF NextOut
    <2>4. w' = [w EXCEPT ![i] = r]
      BY <1>0, <2>3 DEF Workers
    <2>. HIDE DEF r
    <2>. QED
      BY <1>0, <1>1, <2>1, <2>2, <2>4 DEF Moves
  <1>2. CASE w[i].out = 2
    <2>1. Go(i, "loop")
      BY <1>0, <1>2 DEF NextOut, Go
    <2>. QED
      BY <1>2, <2>1, GoMoves
  <1>. QED
    BY <1>1, <1>2

(* Recording an error keeps the first one first.                           *)
LEMMA RecordFirst ==
  ASSUME QueueInv, NEW e \in Errors, Record(e)
  PROVE  FirstStays' /\ failures' \in Seq(Errors) /\ failures' # <<>>
         /\ first_error' \in {"ok"} \cup Errors
  <1>1. failures' = Append(failures, e) /\ first_error' = Recorded(e) /\ failures \in Seq(Errors)
        /\ first_error \in {"ok"} \cup Errors /\ FirstStays
    BY DEF Record, QueueInv, Typed
  <1>2. failures' \in Seq(Errors) /\ failures' # <<>>
    BY <1>1
  <1>3. Head(failures') = IF failures = <<>> THEN e ELSE Head(failures)
    BY <1>1
  <1>4. e # "ok"
    BY DEF Errors
  <1>. QED
    BY <1>1, <1>2, <1>3, <1>4 DEF FirstStays, Recorded

-----------------------------------------------------------------------------
(* What a step of one worker may do: it goes to a place that fits the      *)
(* queue, takes at most a file nobody had, and its connection is open as   *)
(* long as it serves the queue.                                            *)
StepOf(i) ==
  /\ pc = "join" /\ pc' = "join" /\ sts' = sts
  /\ Moves(i) /\ w'[i].pc # "absent"
  /\ cursor' \in Nat /\ cursor' >= cursor
  /\ folder' \in BOOLEAN /\ disk' \in [Paths -> 0..Mixed] /\ dropped' \subseteq Files
  /\ \/ failures' = failures /\ first_error' = first_error
     \/ \E e \in Errors : Record(e)
  /\ conns' = IF w'[i].pc \in {"loop"} \cup AtFile THEN conns \cup {i} ELSE conns \ {i}
  /\ WorkerPlace(i)'
  /\ w'[i].pc \in AtFile =>
       \/ w'[i].file > cursor
       \/ w[i].pc \in AtFile /\ w'[i].file = w[i].file

(* Such a step keeps the invariant of the queue.                           *)
LEMMA StepInv == ASSUME QueueInv, NEW i \in Ids, StepOf(i) PROVE QueueInv'
  <1>0. /\ \A j \in Ids : j # i => w'[j] = w[j]
        /\ w' \in [Ids -> Workers] /\ w \in [Ids -> Workers] /\ pc = "join" /\ pc' = "join"
        /\ cursor \in Nat /\ cursor' \in Nat /\ cursor' >= cursor
    BY DEF StepOf, Moves, QueueInv, Typed
  <1>1. /\ failures' \in Seq(Errors) /\ first_error' \in {"ok"} \cup Errors /\ FirstStays'
        /\ failures # <<>> => failures' # <<>>
    <2>1. CASE failures' = failures /\ first_error' = first_error
      BY <2>1 DEF QueueInv, Typed, FirstStays
    <2>2. CASE \E e \in Errors : Record(e)
      BY <2>2, RecordFirst
    <2>. QED
      BY <2>1, <2>2 DEF StepOf
  <1>2. Typed'
    BY <1>0, <1>1 DEF StepOf, Typed
  <1>3. MainPlace'
    BY <1>0 DEF StepOf, QueueInv, MainPlace
  <1>4. ConnsOpen'
    <2>1. conns = {j \in Ids : w[j].pc \in {"loop"} \cup AtFile}
      BY <1>0 DEF QueueInv, ConnsOpen
    <2>2. conns' = IF w'[i].pc \in {"loop"} \cup AtFile THEN conns \cup {i} ELSE conns \ {i}
      BY DEF StepOf
    <2>3. conns' = {j \in Ids : w'[j].pc \in {"loop"} \cup AtFile}
      <3>. HIDE DEF AtFile
      <3>. QED
        BY <1>0, <2>1, <2>2
    <2>. QED
      BY <1>0, <2>3 DEF ConnsOpen
  <1>5. ASSUME NEW j \in Ids PROVE WorkerPlace(j)'
    <2>1. CASE j = i
      BY <2>1 DEF StepOf
    <2>2. CASE j # i
      <3>1. w'[j] = w[j] /\ WorkerPlace(j) /\ w[j] \in Workers
        BY <1>0, <2>2 DEF QueueInv
      <3>2. w[j].file \in Nat /\ Len(Stems) \in Nat
        BY <3>1, RunAssumption DEF Workers
      <3>. QED
        BY <1>0, <1>1, <3>1, <3>2 DEF WorkerPlace
    <2>. QED
      BY <2>1, <2>2
  <1>6. OneWorkerPerFile'
    <2>. SUFFICES ASSUME NEW j \in Ids, NEW k \in Ids, j # k, w'[j].pc \in AtFile, w'[k].pc \in AtFile
                  PROVE  w'[j].file # w'[k].file
      BY DEF OneWorkerPerFile, Busy, AtFile, Ids
    <2>0. \A m, n \in Ids : m # n /\ w[m].pc \in AtFile /\ w[n].pc \in AtFile => w[m].file # w[n].file
      BY DEF QueueInv, OneWorkerPerFile, Busy, AtFile, Ids
    <2>1. CASE j # i /\ k # i
      BY <1>0, <2>0, <2>1
    <2>2. ASSUME NEW m \in Ids, m # i, w[m].pc \in AtFile, w'[i].pc \in AtFile
          PROVE  w'[i].file # w[m].file
      <3>1. w[m].file <= cursor /\ w[m].file \in Nat /\ w'[i].file \in Nat
        BY <1>0, <2>2 DEF QueueInv, WorkerPlace, Workers
      <3>2. CASE w'[i].file > cursor
        BY <1>0, <3>1, <3>2
      <3>3. CASE w[i].pc \in AtFile /\ w'[i].file = w[i].file
        BY <2>0, <2>2, <3>3
      <3>. QED
        BY <2>2, <3>2, <3>3 DEF StepOf
    <2>. QED
      BY <1>0, <2>1, <2>2
  <1>. QED
    BY <1>1, <1>2, <1>3, <1>4, <1>5, <1>6 DEF QueueInv

(* What the steps of a worker use of the invariant.                        *)
LEMMA WorkerKnown ==
  ASSUME QueueInv, NEW i \in Ids
  PROVE  /\ Typed /\ w[i] \in Workers /\ WorkerPlace(i) /\ cursor \in Nat
         /\ folder \in BOOLEAN /\ disk \in [Paths -> 0..Mixed] /\ dropped \subseteq Files
         /\ w[i].file \in Nat /\ Len(Stems) \in Nat /\ Files = 1..Len(Stems)
         /\ pc = "join" => (w[i].pc \in {"loop"} \cup AtFile <=> i \in conns)
  BY RunAssumption DEF QueueInv, Typed, Workers, Files, ConnsOpen

(* A worker connects, or is done.                                          *)
LEMMA ConnectStep == ASSUME QueueInv, NEW i \in Ids, WorkerConnect(i) PROVE StepOf(i)
  <1>0. /\ pc = "join" /\ w[i].pc = "connect" /\ pc' = pc /\ sts' = sts /\ cursor' = cursor
        /\ folder' = folder /\ disk' = disk /\ dropped' = dropped
    BY DEF WorkerConnect, Running, mains
  <1>1. CASE Go(i, "done") /\ Record("connection_error") /\ conns' = conns
    <2>1. Moves(i) /\ w'[i].pc = "done" /\ w'[i].file = w[i].file
      BY <1>1, WorkerKnown, GoMoves
    <2>2. "connection_error" \in Errors /\ failures' # <<>>
      BY <1>1, RecordFirst DEF Errors
    <2>3. i \notin conns
      BY <1>0, WorkerKnown DEF AtFile
    <2>. QED
      BY <1>0, <1>1, <2>1, <2>2, <2>3, WorkerKnown DEF StepOf, WorkerPlace, AtFile
  <1>2. CASE Go(i, "loop") /\ conns' = conns \cup {i} /\ failures' = failures /\ first_error' = first_error
    <2>1. Moves(i) /\ w'[i].pc = "loop" /\ w'[i].file = w[i].file
      BY <1>2, WorkerKnown, GoMoves
    <2>. QED
      BY <1>0, <1>2, <2>1, WorkerKnown DEF StepOf, WorkerPlace, AtFile
  <1>. QED
    BY <1>1, <1>2 DEF WorkerConnect

(* fetch_add() hands a file to one worker.                                 *)
LEMMA TakeStep == ASSUME QueueInv, NEW i \in Ids, Take(i) PROVE StepOf(i)
  <1>. DEFINE r == [pc |-> "process", file |-> cursor + 1, out |-> 1, err |-> "ok"]
  <1>0. /\ pc = "join" /\ w[i].pc = "loop" /\ pc' = pc /\ sts' = sts /\ cursor' = cursor + 1
        /\ cursor < Len(Stems) /\ w' = [w EXCEPT ![i] = r]
        /\ folder' = folder /\ disk' = disk /\ dropped' = dropped /\ conns' = conns
        /\ failures' = failures /\ first_error' = first_error
    BY DEF Take, TakenBy, Running, mains, world
  <1>1. cursor + 1 \in 0..Len(Stems) /\ cursor + 1 \in Files /\ 1 \in 0..2
    BY <1>0, WorkerKnown
  <1>2. r \in Workers /\ r.pc = "process" /\ r.file = cursor + 1 /\ r.out = 1
    BY <1>1 DEF Workers, AtFile
  <1>. HIDE DEF r
  <1>3. Moves(i) /\ w'[i] = r
    BY <1>0, <1>2, WorkerKnown DEF Moves, Typed
  <1>4. i \in conns
    BY <1>0, WorkerKnown
  <1>5. WorkerPlace(i)'
    BY <1>0, <1>1, <1>2, <1>3, WorkerKnown DEF WorkerPlace, AtFile
  <1>. QED
    BY <1>0, <1>2, <1>3, <1>4, <1>5, WorkerKnown DEF StepOf, AtFile

(* No file is left: the worker disconnects.                                *)
LEMMA CloseStep == ASSUME QueueInv, NEW i \in Ids, WorkerClose(i) PROVE StepOf(i)
  <1>0. /\ pc = "join" /\ w[i].pc = "loop" /\ pc' = pc /\ sts' = sts /\ cursor' = cursor + 1
        /\ cursor >= Len(Stems) /\ Go(i, "done")
        /\ folder' = folder /\ disk' = disk /\ dropped' = dropped /\ conns' = conns \ {i}
        /\ failures' = failures /\ first_error' = first_error
    BY DEF WorkerClose, Closed, Running, mains
  <1>1. Moves(i) /\ w'[i].pc = "done" /\ w'[i].file = w[i].file
    BY <1>0, WorkerKnown, GoMoves
  <1>. QED
    BY <1>0, <1>1, WorkerKnown DEF StepOf, WorkerPlace, AtFile

(* A worker at a file stays at it.                                         *)
LEMMA AtFileStep ==
  ASSUME QueueInv, NEW i \in Ids, pc = "join", w[i].pc \in AtFile, pc' = pc, sts' = sts,
         cursor' = cursor, failures' = failures, first_error' = first_error, conns' = conns,
         folder' \in BOOLEAN, disk' \in [Paths -> 0..Mixed], dropped' \subseteq Files,
         Moves(i), w'[i].pc \in AtFile, w'[i].file = w[i].file, w'[i].out \in 1..2,
         w'[i].pc \notin {"process", "mkdir"} \/ w'[i].out = 1,
         w'[i].pc = "failed" => w'[i].err \in Errors
  PROVE  StepOf(i)
  <1>1. WorkerPlace(i)'
    BY WorkerKnown DEF WorkerPlace, AtFile
  <1>. QED
    BY <1>1, WorkerKnown DEF StepOf, AtFile

(* process_one_file(): parsing and the metadata.                           *)
LEMMA LoadStep == ASSUME QueueInv, NEW i \in Ids, Load(i) PROVE StepOf(i)
  <1>0. /\ pc = "join" /\ w[i].pc = "process" /\ w[i].pc \in AtFile /\ pc' = pc /\ sts' = sts
        /\ cursor' = cursor /\ failures' = failures /\ first_error' = first_error /\ conns' = conns
        /\ folder' = folder /\ disk' = disk /\ dropped' = dropped
    BY DEF Load, Running, mains, shared, world, AtFile
  <1>1. w[i].out = 1
    BY <1>0, WorkerKnown DEF WorkerPlace
  <1>2. CASE \E e \in {"yaml", "sql"} : w' = [w EXCEPT ![i].pc = "failed", ![i].err = e]
    <2>1. PICK e \in Errors : w' = [w EXCEPT ![i].pc = "failed", ![i].err = e]
      BY <1>2 DEF Errors
    <2>2. Moves(i) /\ w'[i].pc = "failed" /\ w'[i].file = w[i].file /\ w'[i].out = 1 /\ w'[i].err \in Errors
      BY <1>1, <2>1, WorkerKnown, FailMoves
    <2>. QED
      BY <1>0, <2>2, AtFileStep, WorkerKnown DEF AtFile
  <1>3. CASE Go(i, IF folder THEN "render" ELSE "mkdir")
    <2>1. PICK at \in {"render", "mkdir"} : Go(i, at)
      BY <1>3
    <2>2. Moves(i) /\ w'[i].pc = at /\ w'[i].file = w[i].file /\ w'[i].out = 1
      BY <1>1, <2>1, WorkerKnown, GoMoves DEF AtFile
    <2>. QED
      BY <1>0, <2>1, <2>2, AtFileStep, WorkerKnown DEF AtFile
  <1>. QED
    BY <1>2, <1>3 DEF Load

(* generate() makes the folder it did not see.                             *)
LEMMA MakeFolderStep ==
  ASSUME QueueInv, NEW i \in Ids, MakeFolder(i), pc' # "terminated" PROVE StepOf(i)
  <1>0. /\ pc = "join" /\ w[i].pc = "mkdir" /\ w[i].pc \in AtFile /\ pc' = pc /\ sts' = sts
        /\ cursor' = cursor /\ failures' = failures /\ first_error' = first_error /\ conns' = conns
        /\ folder' = TRUE /\ disk' = disk /\ dropped' = dropped /\ Go(i, "render")
    BY DEF MakeFolder, Running, shared, AtFile
  <1>1. w[i].out = 1
    BY <1>0, WorkerKnown DEF WorkerPlace
  <1>2. Moves(i) /\ w'[i].pc = "render" /\ w'[i].file = w[i].file /\ w'[i].out = 1
    BY <1>0, <1>1, WorkerKnown, GoMoves DEF AtFile
  <1>3. folder' \in BOOLEAN
    BY <1>0
  <1>. QED
    BY <1>0, <1>2, <1>3, AtFileStep, WorkerKnown DEF AtFile

(* Rendering a template.                                                   *)
LEMMA RenderStep == ASSUME QueueInv, NEW i \in Ids, Render(i) PROVE StepOf(i)
  <1>0. /\ pc = "join" /\ w[i].pc = "render" /\ w[i].pc \in AtFile /\ pc' = pc /\ sts' = sts
        /\ cursor' = cursor /\ failures' = failures /\ first_error' = first_error /\ conns' = conns
        /\ folder' = folder /\ disk' = disk /\ dropped' = dropped
    BY DEF Render, Running, mains, shared, world, AtFile
  <1>1. w[i].out \in 1..2
    BY <1>0, WorkerKnown DEF WorkerPlace
  <1>2. CASE w' = [w EXCEPT ![i].pc = "failed", ![i].err = "inja"]
    <2>1. Moves(i) /\ w'[i].pc = "failed" /\ w'[i].file = w[i].file /\ w'[i].out = w[i].out /\ w'[i].err \in Errors
      BY <1>2, WorkerKnown, FailMoves DEF Errors
    <2>. QED
      BY <1>0, <1>1, <2>1, AtFileStep, WorkerKnown DEF AtFile
  <1>3. CASE Go(i, "open")
    <2>1. Moves(i) /\ w'[i].pc = "open" /\ w'[i].file = w[i].file /\ w'[i].out = w[i].out
      BY <1>3, WorkerKnown, GoMoves DEF AtFile
    <2>. QED
      BY <1>0, <1>1, <2>1, AtFileStep, WorkerKnown DEF AtFile
  <1>. QED
    BY <1>2, <1>3 DEF Render

(* A worker that has its last output behind it takes the next file.        *)
LEMMA LoopStep ==
  ASSUME QueueInv, NEW i \in Ids, pc = "join", w[i].pc \in AtFile, pc' = pc, sts' = sts,
         cursor' = cursor, conns' = conns,
         (failures' = failures /\ first_error' = first_error) \/ \E e \in Errors : Record(e),
         folder' \in BOOLEAN, disk' \in [Paths -> 0..Mixed], dropped' \subseteq Files,
         Moves(i), w'[i].pc = "loop"
  PROVE  StepOf(i)
  <1>1. WorkerPlace(i)'
    BY DEF WorkerPlace, AtFile
  <1>2. i \in conns
    BY WorkerKnown
  <1>. QED
    BY <1>1, <1>2, WorkerKnown DEF StepOf, AtFile

(* The path a worker writes is one of the outputs.                         *)
LEMMA PathKnown ==
  ASSUME QueueInv, NEW i \in Ids, w[i].pc \in AtFile
  PROVE  /\ Path(i) \in Paths /\ w[i].file \in Files /\ w[i].out \in 1..2
         /\ Path(i) = <<Stems[w[i].file], Outs[w[i].out]>>
  <1>1. w[i].file \in Files /\ w[i].out \in 1..2
    BY WorkerKnown DEF WorkerPlace
  <1>2. DOMAIN Outs = 1..2
    BY DEF Outs
  <1>. QED
    BY <1>1, <1>2 DEF Path, Paths

(* write_file() opens the output, or drops it.                             *)
LEMMA OpenStep == ASSUME QueueInv, NEW i \in Ids, Open(i) PROVE StepOf(i)
  <1>0. /\ pc = "join" /\ w[i].pc = "open" /\ w[i].pc \in AtFile /\ pc' = pc /\ sts' = sts
        /\ cursor' = cursor /\ failures' = failures /\ first_error' = first_error /\ conns' = conns
        /\ folder' = folder
    BY DEF Open, Running, mains, shared, AtFile
  <1>1. w[i].out \in 1..2 /\ w[i].file \in Files
    BY <1>0, PathKnown
  <1>2. CASE disk' = [disk EXCEPT ![Path(i)] = Nobody] /\ Go(i, "write") /\ dropped' = dropped
    <2>1. Moves(i) /\ w'[i].pc = "write" /\ w'[i].file = w[i].file /\ w'[i].out = w[i].out
      BY <1>2, WorkerKnown, GoMoves DEF AtFile
    <2>2. Nobody \in 0..Mixed
      BY WorkerKnown DEF Nobody, Mixed
    <2>3. disk' \in [Paths -> 0..Mixed]
      BY <1>2, <2>2, WorkerKnown
    <2>. QED
      BY <1>0, <1>1, <1>2, <2>1, <2>3, AtFileStep, WorkerKnown DEF AtFile
  <1>3. CASE NextOut(i) /\ dropped' = dropped \cup {w[i].file} /\ disk' = disk
    <2>1. Moves(i) /\ w'[i].file = w[i].file
          /\ ((w'[i].pc = "render" /\ w'[i].out = 2) \/ w'[i].pc = "loop")
      BY <1>1, <1>3, WorkerKnown, NextOutMoves
    <2>2. dropped' \subseteq Files
      BY <1>1, <1>3, WorkerKnown
    <2>3. CASE w'[i].pc = "render" /\ w'[i].out = 2
      BY <1>0, <1>3, <2>1, <2>2, <2>3, AtFileStep, WorkerKnown DEF AtFile
    <2>4. CASE w'[i].pc = "loop"
      BY <1>0, <1>3, <2>1, <2>2, <2>4, LoopStep, WorkerKnown
    <2>. QED
      BY <2>1, <2>3, <2>4
  <1>. QED
    BY <1>2, <1>3 DEF Open

(* write_file() writes the output, or loses it.                            *)
LEMMA WriteStep == ASSUME QueueInv, NEW i \in Ids, Write(i) PROVE StepOf(i)
  <1>0. /\ pc = "join" /\ w[i].pc = "write" /\ w[i].pc \in AtFile /\ pc' = pc /\ sts' = sts
        /\ cursor' = cursor /\ failures' = failures /\ first_error' = first_error /\ conns' = conns
        /\ folder' = folder /\ NextOut(i)
    BY DEF Write, Running, mains, shared, AtFile
  <1>1. w[i].out \in 1..2 /\ w[i].file \in Files /\ Path(i) \in Paths
    BY <1>0, PathKnown
  <1>2. PICK c : /\ disk' = [disk EXCEPT ![Path(i)] = c]
                 /\ c \in {Written(w[i].file, disk[Path(i)]), disk[Path(i)], Mixed}
    BY <1>1, WorkerKnown DEF Write
  <1>3. disk' \in [Paths -> 0..Mixed] /\ dropped' \subseteq Files
    <2>1. c \in 0..Mixed
      BY <1>1, <1>2, WorkerKnown DEF Written, Mixed
    <2>2. dropped' = dropped \/ dropped' = dropped \cup {w[i].file}
      BY DEF Write
    <2>. QED
      BY <1>1, <1>2, <2>1, <2>2, WorkerKnown
  <1>4. Moves(i) /\ w'[i].file = w[i].file
        /\ ((w'[i].pc = "render" /\ w'[i].out = 2) \/ w'[i].pc = "loop")
    BY <1>0, <1>1, WorkerKnown, NextOutMoves
  <1>5. CASE w'[i].pc = "render" /\ w'[i].out = 2
    BY <1>0, <1>3, <1>4, <1>5, AtFileStep, WorkerKnown DEF AtFile
  <1>6. CASE w'[i].pc = "loop"
    BY <1>0, <1>3, <1>4, <1>6, LoopStep, WorkerKnown
  <1>. QED
    BY <1>4, <1>5, <1>6

(* A failed file is recorded, and the worker goes on.                      *)
LEMMA FailedStep == ASSUME QueueInv, NEW i \in Ids, FileFailed(i) PROVE StepOf(i)
  <1>0. /\ pc = "join" /\ w[i].pc = "failed" /\ w[i].pc \in AtFile /\ pc' = pc /\ sts' = sts
        /\ cursor' = cursor /\ conns' = conns /\ Record(w[i].err) /\ Go(i, "loop")
        /\ folder' = folder /\ disk' = disk /\ dropped' = dropped
    BY DEF FileFailed, Running, Onward, mains, world, AtFile
  <1>1. w[i].err \in Errors
    BY <1>0, WorkerKnown DEF WorkerPlace
  <1>2. Moves(i) /\ w'[i].pc = "loop"
    BY <1>0, WorkerKnown, GoMoves
  <1>. QED
    BY <1>0, <1>1, <1>2, LoopStep, WorkerKnown

(* Every step of a worker that does not end the program is such a step.    *)
LEMMA WorkerStep ==
  ASSUME QueueInv, NEW i \in Ids, Worker(i), pc' # "terminated" PROVE StepOf(i)
  BY ConnectStep, TakeStep, CloseStep, LoadStep, MakeFolderStep, RenderStep, OpenStep, WriteStep,
     FailedStep DEF Worker

-----------------------------------------------------------------------------
(* The program has just been started.                                      *)
LEMMA QueueInit == ASSUME Init PROVE QueueInv
  <1>0. /\ pc = "params" /\ sts = "ok" /\ first_error = "ok" /\ cursor = 0
        /\ w = [i \in Ids |-> Idle] /\ conns = {} /\ folder \in BOOLEAN
        /\ disk = [p \in Paths |-> Nobody] /\ failures = <<>> /\ dropped = {}
    BY DEF Init, Ids
  <1>1. Idle \in Workers /\ Idle.pc = "absent" /\ Idle.file = 0
    BY RunAssumption DEF Idle, Workers
  <1>2. Nobody \in 0..Mixed
    BY RunAssumption DEF Nobody, Mixed
  <1>. HIDE DEF Idle
  <1>3. \A i \in Ids : w[i] = Idle
    BY <1>0
  <1>4. w \in [Ids -> Workers] /\ disk \in [Paths -> 0..Mixed] /\ failures \in Seq(Errors)
    BY <1>0, <1>1, <1>2
  <1>5. Typed
    BY <1>0, <1>4 DEF Typed
  <1>6. MainPlace /\ ConnsOpen /\ FirstStays
    BY <1>0, <1>3 DEF MainPlace, ConnsOpen, FirstStays, Fresh
  <1>7. \A i \in Ids : WorkerPlace(i)
    BY <1>1, <1>3 DEF WorkerPlace, AtFile
  <1>8. OneWorkerPerFile
    BY <1>1, <1>3 DEF OneWorkerPerFile, Busy, Ids
  <1>. QED
    BY <1>5, <1>6, <1>7, <1>8 DEF QueueInv

(* The main thread before and after the workers.                           *)
LEMMA MainInv == ASSUME QueueInv, Main PROVE QueueInv'
  <1>0. Typed /\ MainPlace /\ ConnsOpen /\ FirstStays /\ (\A i \in Ids : WorkerPlace(i)) /\ OneWorkerPerFile
    BY DEF QueueInv
  <1>1. CASE load_parameters
    <2>1. /\ pc = "params" /\ w' = w /\ conns' = conns /\ folder' = folder /\ disk' = disk /\ dropped' = dropped
          /\ first_error' = first_error /\ cursor' = cursor /\ failures' = failures
          /\ pc' = "refused" \/ (pc' = "preflight" /\ sts' = sts)
      BY <1>1 DEF load_parameters, shared, world
    <2>. QED
      BY <1>0, <2>1 DEF QueueInv, Typed, MainPlace, ConnsOpen, FirstStays, WorkerPlace, OneWorkerPerFile, Busy, Fresh
  <1>2. CASE Preflight
    <2>1. /\ pc = "preflight" /\ w' = w /\ folder' = folder /\ disk' = disk /\ dropped' = dropped
          /\ first_error' = first_error /\ cursor' = cursor /\ failures' = failures
          /\ \/ sts' = "connection_error" /\ pc' = "exit" /\ conns' = conns
             \/ pc' = "connected" /\ conns' = conns \cup {"main"} /\ sts' = sts
      BY <1>2 DEF Preflight, shared
    <2>2. Fresh /\ conns = {}
      BY <1>0, <2>1 DEF MainPlace, ConnsOpen
    <2>3. \A i \in Ids : w[i].pc = "absent"
      BY <2>2 DEF Fresh, Idle
    <2>4. {i \in Ids : w[i].pc \in {"loop"} \cup AtFile} = {}
      BY <2>3 DEF AtFile
    <2>. QED
      BY <1>0, <2>1, <2>2, <2>4 DEF QueueInv, Typed, MainPlace, ConnsOpen, FirstStays, WorkerPlace, OneWorkerPerFile, Busy, Fresh
  <1>3. CASE Disconnected
    <2>1. /\ pc = "connected" /\ w' = w /\ folder' = folder /\ disk' = disk /\ dropped' = dropped
          /\ first_error' = first_error /\ cursor' = cursor /\ failures' = failures
          /\ sts' = sts /\ pc' = "prepare" /\ conns' = conns \ {"main"}
      BY <1>3 DEF Disconnected, shared
    <2>. QED
      BY <1>0, <2>1 DEF QueueInv, Typed, MainPlace, ConnsOpen, FirstStays, WorkerPlace, OneWorkerPerFile, Busy, Fresh
  <1>4. CASE prepare_templates
    <2>1. /\ pc = "prepare" /\ w' = w /\ conns' = conns /\ folder' \in BOOLEAN /\ disk' = disk /\ dropped' = dropped
          /\ first_error' = first_error /\ cursor' = cursor /\ failures' = failures
          /\ \/ sts' # "ok" /\ pc' = "exit"
             \/ sts' = sts /\ pc' = "spawn"
      BY <1>0, <1>4 DEF prepare_templates, shared, Typed
    <2>2. Fresh /\ conns = {}
      BY <1>0, <2>1 DEF MainPlace, ConnsOpen
    <2>3. \A i \in Ids : w[i].pc = "absent"
      BY <2>2 DEF Fresh, Idle
    <2>4. {i \in Ids : w[i].pc \in {"loop"} \cup AtFile} = {}
      BY <2>3 DEF AtFile
    <2>. QED
      BY <1>0, <2>1, <2>2, <2>4 DEF QueueInv, Typed, MainPlace, ConnsOpen, FirstStays, WorkerPlace, OneWorkerPerFile, Busy, Fresh
  <1>5. CASE Join
    <2>1. /\ pc = "join" /\ pc' = "exit" /\ w' = w /\ conns' = conns /\ folder' = folder /\ disk' = disk /\ dropped' = dropped
          /\ first_error' = first_error /\ cursor' = cursor /\ failures' = failures
          /\ sts' = IF first_error # "ok" THEN first_error ELSE sts
          /\ \A i \in Ids : w[i].pc \in {"absent", "done"}
      BY <1>5 DEF Join, shared, world, Ids
    <2>. QED
      BY <1>0, <2>1 DEF QueueInv, Typed, MainPlace, ConnsOpen, FirstStays, WorkerPlace, OneWorkerPerFile, Busy, Fresh
  <1>6. CASE Spawn
    <2>1. /\ pc = "spawn" /\ pc' = "join" /\ sts' = sts /\ conns' = conns /\ folder' = folder /\ disk' = disk
          /\ dropped' = dropped /\ first_error' = first_error /\ cursor' = cursor /\ failures' = failures
      BY <1>6 DEF Spawn, shared, world
    <2>2. PICK j \in Parallel :
            w' = [i \in Ids |-> [Idle EXCEPT !.pc = IF i <= worker_count(j) THEN "connect" ELSE "absent"]]
      BY <1>6 DEF Spawn, Ids
    <2>3. ASSUME NEW at \in {"connect", "absent"}
          PROVE  /\ [Idle EXCEPT !.pc = at] \in Workers /\ [Idle EXCEPT !.pc = at].pc = at
                 /\ [Idle EXCEPT !.pc = at].file = 0
      BY RunAssumption DEF Idle, Workers
    <2>. HIDE DEF Idle
    <2>4. w' \in [Ids -> Workers] /\ \A i \in Ids : w'[i].pc \in {"connect", "absent"} /\ w'[i].file = 0
      BY <2>2, <2>3
    <2>5. 1 \in Ids /\ 1 <= worker_count(j)
      BY SomeWorker, RunAssumption DEF Ids, MaxWorkers
    <2>6. w'[1].pc = "connect"
      BY <2>2, <2>3, <2>5
    <2>7. conns = {} /\ sts = "ok"
      BY <1>0, <2>1 DEF ConnsOpen, MainPlace
    <2>8. {i \in Ids : w'[i].pc \in {"loop"} \cup AtFile} = {}
      BY <2>4 DEF AtFile
    <2>9. Typed'
      BY <1>0, <2>1, <2>4 DEF Typed
    <2>10. MainPlace'
      BY <2>1, <2>5, <2>6, <2>7 DEF MainPlace
    <2>11. ConnsOpen' /\ FirstStays'
      BY <1>0, <2>1, <2>7, <2>8 DEF ConnsOpen, FirstStays
    <2>12. \A i \in Ids : WorkerPlace(i)'
      BY <2>4 DEF WorkerPlace, AtFile
    <2>13. OneWorkerPerFile'
      BY <2>4 DEF OneWorkerPerFile, Busy, Ids
    <2>. QED
      BY <2>9, <2>10, <2>11, <2>12, <2>13 DEF QueueInv
  <1>. QED
    BY <1>1, <1>2, <1>3, <1>4, <1>5, <1>6 DEF Main

(* Every step keeps the invariant of the queue.                            *)
LEMMA QueueNext == ASSUME QueueInv, [Next]_vars PROVE QueueInv'
  <1>1. CASE Main
    BY <1>1, MainInv
  <1>2. CASE UNCHANGED vars
    BY <1>2 DEF vars, QueueInv, Typed, MainPlace, ConnsOpen, FirstStays, WorkerPlace, OneWorkerPerFile, Busy, Fresh
  <1>3. ASSUME NEW i \in Ids, Worker(i) PROVE QueueInv'
    <2>1. CASE pc' # "terminated"
      BY <1>3, <2>1, WorkerStep, StepInv
    <2>2. CASE pc' = "terminated"
      <3>1. pc = "join"
        BY <1>3 DEF Worker, WorkerConnect, Take, WorkerClose, Load, MakeFolder, Render, Open, Write,
                    FileFailed, Running
      <3>2. MakeFolder(i)
        BY <1>3, <2>2, <3>1 DEF Worker, WorkerConnect, Take, WorkerClose, Load, Render, Open, Write,
                    FileFailed, mains
      <3>3. /\ w' = w /\ folder' = folder /\ sts' = sts /\ conns' = conns /\ disk' = disk /\ dropped' = dropped
            /\ first_error' = first_error /\ cursor' = cursor /\ failures' = failures
        BY <2>2, <3>1, <3>2 DEF MakeFolder, shared
      <3>. QED
        BY <2>2, <3>3 DEF QueueInv, Typed, MainPlace, ConnsOpen, FirstStays, WorkerPlace, OneWorkerPerFile, Busy, Fresh
    <2>. QED
      BY <2>1, <2>2
  <1>. QED
    BY <1>1, <1>2, <1>3 DEF Next, Done, Ids

(* At the end of a run every connection is closed, and the queue is empty. *)
LEMMA QueueServedFact == ASSUME QueueInv PROVE QueueServed
  <1>1. OneWorkerPerFile
    BY DEF QueueInv
  <1>2. Drained
    BY DEF QueueInv, WorkerPlace, Drained, Ids
  <1>3. ConnectionsClosed
    <2>1. CASE pc = "refused"
      BY <2>1 DEF QueueInv, ConnsOpen, ConnectionsClosed
    <2>2. CASE pc = "exit"
      <3>1. \A i \in Ids : w[i].pc \in {"absent", "done"}
        BY <2>2 DEF QueueInv, MainPlace, Fresh, Idle
      <3>. QED
        BY <2>2, <3>1 DEF QueueInv, ConnsOpen, AtFile, ConnectionsClosed
    <2>. QED
      BY <2>1, <2>2 DEF ConnectionsClosed
  <1>. QED
    BY <1>1, <1>2, <1>3 DEF QueueServed

(* Whatever the number of files and workers and whichever of them fail:    *)
(* no file is at two workers, the queue is drained, and every connection   *)
(* is closed when the run ends.                                            *)
THEOREM QueueServedThm == Spec => []QueueServed
  <1>1. QueueInv => QueueServed
    BY QueueServedFact
  <1>. QED
    BY <1>1, QueueInit, QueueNext, PTL DEF Spec

-----------------------------------------------------------------------------
(* What a run's exit status says of the files it generated.                *)

(* Distinct stems have distinct outputs: writing one changes no other.     *)
LEMMA OneOutput ==
  ASSUME DistinctStems, QueueInv, NEW i \in Ids, w[i].pc \in AtFile, NEW v,
         disk' = [disk EXCEPT ![Path(i)] = v], NEW f \in Files, NEW o \in 1..2
  PROVE  OutOf(f, o)' = IF f = w[i].file /\ o = w[i].out THEN v ELSE OutOf(f, o)
  <1>1. /\ Path(i) \in Paths /\ w[i].file \in Files /\ w[i].out \in 1..2
        /\ Path(i) = <<Stems[w[i].file], Outs[w[i].out]>>
    BY PathKnown
  <1>2. DOMAIN Outs = 1..2 /\ Outs[1] = "hpp" /\ Outs[2] = "cpp"
    BY DEF Outs
  <1>3. <<Stems[f], Outs[o]>> \in Paths
    BY <1>2 DEF Paths
  <1>4. Outs[o] = Outs[w[i].out] => o = w[i].out
    BY <1>1, <1>2
  <1>5. Stems[f] = Stems[w[i].file] => f = w[i].file
    BY <1>1 DEF DistinctStems
  <1>6. <<Stems[f], Outs[o]>> = Path(i) <=> f = w[i].file /\ o = w[i].out
    BY <1>1, <1>4, <1>5
  <1>7. disk \in [Paths -> 0..Mixed]
    BY WorkerKnown
  <1>. QED
    BY <1>1, <1>3, <1>6, <1>7 DEF OutOf

(* What the steps that write nothing keep: where the worker is at a file   *)
(* it stays at it, or the failure of that file has been recorded, and a    *)
(* file handed out is at the worker that took it.                          *)
LEMMA NothingWritten ==
  ASSUME GenInv, NEW i \in Ids, Moves(i), disk' = disk, dropped' = dropped,
         failures # <<>> => failures' # <<>>,
         w'[i].pc # "write", w'[i].pc \in AtFile => w'[i].out \in 1..2,
         w'[i].pc \in AtFile => \/ w[i].pc \in AtFile /\ w'[i].file = w[i].file /\ w'[i].out = w[i].out
                               \/ w'[i].out = 1,
         w[i].pc \in AtFile => failures' # <<>> \/ (w'[i].pc \in AtFile /\ w'[i].file = w[i].file),
         \A f \in Files : f <= cursor' => f <= cursor \/ (w'[i].pc \in AtFile /\ w'[i].file = f)
  PROVE  OutsBehind' /\ FilesServed'
  <1>0. /\ \A j \in Ids : j # i => w'[j] = w[j]
        /\ \A f, o : OutOf(f, o)' = OutOf(f, o)
    BY DEF Moves, OutOf
  <1>1. OutsBehind /\ FilesServed
    BY DEF GenInv
  <1>2. OutsBehind'
    <2>. SUFFICES ASSUME NEW j \in Ids, w'[j].pc \in AtFile
                  PROVE  /\ \A o \in 1..2 : o < w'[j].out /\ w'[j].file \notin dropped
                               => OutOf(w'[j].file, o) = w'[j].file
                         /\ w'[j].pc = "write" => OutOf(w'[j].file, w'[j].out) = Nobody
      BY <1>0 DEF OutsBehind, OutOf
    <2>1. CASE j # i
      BY <1>0, <1>1, <2>1 DEF OutsBehind
    <2>2. CASE j = i /\ w[i].pc \in AtFile /\ w'[i].file = w[i].file /\ w'[i].out = w[i].out
      BY <1>1, <2>2 DEF OutsBehind
    <2>3. CASE j = i /\ w'[i].out = 1
      BY <2>3
    <2>. QED
      BY <2>1, <2>2, <2>3
  <1>3. FilesServed'
    <2>. SUFFICES ASSUME NEW f \in Files, f <= cursor'
                  PROVE  \/ f \in dropped \/ failures' # <<>> \/ \A o \in 1..2 : OutOf(f, o) = f
                         \/ \E j \in Ids : w'[j].pc \in AtFile /\ w'[j].file = f
      BY <1>0 DEF FilesServed, Generated, OutOf
    <2>1. CASE w'[i].pc \in AtFile /\ w'[i].file = f
      BY <2>1
    <2>2. CASE f <= cursor
      <3>1. CASE Generated(f)
        BY <3>1 DEF Generated
      <3>2. ASSUME NEW j \in Ids, w[j].pc \in AtFile, w[j].file = f
            PROVE  failures' # <<>> \/ \E k \in Ids : w'[k].pc \in AtFile /\ w'[k].file = f
        BY <1>0, <3>2
      <3>. QED
        BY <1>1, <2>2, <3>1, <3>2 DEF FilesServed
    <2>. QED
      BY <2>1, <2>2
  <1>. QED
    BY <1>2, <1>3

(* The steps of a worker that write nothing.                               *)
LEMMA QuietStep ==
  ASSUME GenInv, NEW i \in Ids, pc' # "terminated",
         WorkerConnect(i) \/ Take(i) \/ WorkerClose(i) \/ Load(i) \/ MakeFolder(i) \/ Render(i) \/ FileFailed(i)
  PROVE  OutsBehind' /\ FilesServed'
  <1>0. QueueInv /\ Worker(i) /\ StepOf(i) /\ Moves(i)
    BY WorkerStep DEF GenInv, Worker, StepOf
  <1>1. /\ Typed /\ w[i] \in Workers /\ w'[i] \in Workers /\ cursor \in Nat /\ Len(Stems) \in Nat
        /\ Files = 1..Len(Stems) /\ WorkerPlace(i) /\ WorkerPlace(i)'
    BY <1>0, WorkerKnown DEF Moves, StepOf
  <1>2. failures # <<>> => failures' # <<>>
    <2>1. CASE failures' = failures
      BY <2>1
    <2>2. CASE \E e \in Errors : Record(e)
      BY <1>0, <2>2, RecordFirst
    <2>. QED
      BY <1>0, <2>1, <2>2 DEF StepOf
  <1>3. disk' = disk /\ dropped' = dropped
    BY DEF WorkerConnect, Take, WorkerClose, Load, MakeFolder, Render, FileFailed, world
  <1>4. w'[i].pc \in AtFile => w'[i].out \in 1..2
    BY <1>1 DEF WorkerPlace
  <1>5. CASE w[i].pc \in {"process", "mkdir", "render"}
    <2>1. cursor' = cursor
      BY <1>5 DEF WorkerConnect, Take, WorkerClose, Load, MakeFolder, Render, FileFailed, shared, Running
    <2>2. w'[i].pc \in AtFile /\ w'[i].pc # "write" /\ w'[i].file = w[i].file /\ w'[i].out = w[i].out
      <3>1. CASE \E at \in {"render", "mkdir", "open"} : Go(i, at)
        BY <1>1, <3>1, GoMoves DEF AtFile
      <3>2. CASE \E e \in Errors : w' = [w EXCEPT ![i].pc = "failed", ![i].err = e]
        BY <1>1, <3>2, FailMoves DEF AtFile
      <3>3. (\E at \in {"render", "mkdir", "open"} : Go(i, at))
            \/ \E e \in Errors : w' = [w EXCEPT ![i].pc = "failed", ![i].err = e]
        <4>1. CASE Load(i)
          BY <4>1 DEF Load, Errors
        <4>2. CASE MakeFolder(i)
          BY <4>2 DEF MakeFolder
        <4>3. CASE Render(i)
          BY <4>3 DEF Render, Errors
        <4>. QED
          BY <1>5, <4>1, <4>2, <4>3 DEF WorkerConnect, Take, WorkerClose, FileFailed, Running
      <3>. QED
        BY <3>1, <3>2, <3>3
    <2>3. w[i].pc \in AtFile
      BY <1>5 DEF AtFile
    <2>. QED
      BY <1>0, <1>1, <1>2, <1>3, <1>4, <2>1, <2>2, <2>3, NothingWritten
  <1>6. CASE WorkerConnect(i)
    <2>1. cursor' = cursor /\ w[i].pc \notin AtFile
      BY <1>6 DEF WorkerConnect, Running, AtFile
    <2>2. w'[i].pc \notin AtFile /\ w'[i].pc # "write"
      BY <1>1, <1>6, GoMoves DEF WorkerConnect, AtFile
    <2>. QED
      BY <1>0, <1>1, <1>2, <1>3, <2>1, <2>2, NothingWritten
  <1>7. CASE Take(i)
    <2>1. cursor' = cursor + 1 /\ w[i].pc \notin AtFile
      BY <1>7 DEF Take, TakenBy, Running, AtFile
    <2>2. w'[i] = [pc |-> "process", file |-> cursor + 1, out |-> 1, err |-> "ok"]
      BY <1>1, <1>7 DEF Take, Typed
    <2>3. w'[i].pc = "process" /\ w'[i].pc # "write" /\ w'[i].file = cursor + 1 /\ w'[i].out = 1 /\ w'[i].pc \in AtFile
      BY <2>2 DEF AtFile
    <2>4. \A f \in Files : f <= cursor' => f <= cursor \/ f = cursor + 1
      BY <1>1, <2>1
    <2>. QED
      BY <1>0, <1>1, <1>2, <1>3, <1>4, <2>1, <2>3, <2>4, NothingWritten
  <1>8. CASE WorkerClose(i)
    <2>1. cursor' = cursor + 1 /\ w[i].pc \notin AtFile /\ cursor >= Len(Stems)
      BY <1>8 DEF WorkerClose, Running, AtFile
    <2>2. w'[i].pc \notin AtFile /\ w'[i].pc # "write"
      BY <1>1, <1>8, GoMoves DEF WorkerClose, AtFile
    <2>3. \A f \in Files : f <= cursor
      BY <1>1, <2>1
    <2>. QED
      BY <1>0, <1>1, <1>2, <1>3, <2>1, <2>2, <2>3, NothingWritten
  <1>9. CASE FileFailed(i)
    <2>1. cursor' = cursor /\ Record(w[i].err) /\ Go(i, "loop") /\ w[i].pc = "failed"
      BY <1>9 DEF FileFailed, Onward, Running
    <2>2. failures' # <<>>
      BY <1>0, <1>1, <2>1, RecordFirst DEF WorkerPlace
    <2>3. w'[i].pc \notin AtFile /\ w'[i].pc # "write"
      BY <1>1, <2>1, GoMoves DEF AtFile
    <2>. QED
      BY <1>0, <1>1, <1>2, <1>3, <2>1, <2>2, <2>3, NothingWritten
  <1>. QED
    BY <1>5, <1>6, <1>7, <1>8, <1>9 DEF Load, MakeFolder, Render, Running

(* The file a worker is at is at no other worker.                          *)
LEMMA OwnFile ==
  ASSUME QueueInv, NEW i \in Ids, NEW j \in Ids, i # j, w[i].pc \in AtFile, w[j].pc \in AtFile
  PROVE  w[j].file # w[i].file /\ w[j].file \in Files /\ w[j].out \in 1..2
  BY DEF QueueInv, OneWorkerPerFile, Busy, AtFile, Ids, WorkerPlace

(* write_file() empties the output of its own file only.                   *)
LEMMA OpenGen ==
  ASSUME DistinctStems, GenInv, NEW i \in Ids, Open(i)
  PROVE  OutsBehind' /\ FilesServed'
  <1>0. /\ QueueInv /\ OutsBehind /\ FilesServed /\ w[i].pc = "open" /\ w[i].pc \in AtFile
        /\ cursor' = cursor /\ failures' = failures
    BY DEF GenInv, Open, Running, shared, AtFile
  <1>1. w[i].out \in 1..2 /\ w[i].file \in Files /\ Typed /\ Moves(i) /\ StepOf(i)
    BY <1>0, PathKnown, WorkerKnown, OpenStep DEF StepOf
  <1>2. \A j \in Ids : j # i => w'[j] = w[j]
    BY <1>1 DEF Moves
  <1>3. CASE disk' = [disk EXCEPT ![Path(i)] = Nobody] /\ Go(i, "write") /\ dropped' = dropped
    <2>1. w'[i].pc = "write" /\ w'[i].pc \in AtFile /\ w'[i].file = w[i].file /\ w'[i].out = w[i].out
      BY <1>1, <1>3, GoMoves DEF AtFile
    <2>2. ASSUME NEW f \in Files, NEW o \in 1..2
          PROVE  OutOf(f, o)' = IF f = w[i].file /\ o = w[i].out THEN Nobody ELSE OutOf(f, o)
      BY <1>0, <1>3, OneOutput
    <2>3. OutsBehind'
      <3>. SUFFICES ASSUME NEW j \in Ids, w'[j].pc \in AtFile
                    PROVE  /\ \A o \in 1..2 : o < w'[j].out /\ w'[j].file \notin dropped
                                 => disk'[<<Stems[w'[j].file], Outs[o]>>] = w'[j].file
                           /\ w'[j].pc = "write" => disk'[<<Stems[w'[j].file], Outs[w'[j].out]>>] = Nobody
        BY <1>3 DEF OutsBehind, OutOf
      <3>1. CASE j = i
        BY <1>0, <1>1, <2>1, <2>2, <3>1 DEF OutsBehind, OutOf
      <3>2. CASE j # i
        <4>1. w'[j] = w[j] /\ w[j].file # w[i].file /\ w[j].file \in Files /\ w[j].out \in 1..2
          BY <1>0, <1>2, <3>2, OwnFile
        <4>2. \A o \in 1..2 : disk'[<<Stems[w[j].file], Outs[o]>>] = OutOf(w[j].file, o)
          BY <2>2, <4>1 DEF OutOf
        <4>. QED
          BY <1>0, <4>1, <4>2 DEF OutsBehind, OutOf
      <3>. QED
        BY <3>1, <3>2
    <2>4. FilesServed'
      <3>. SUFFICES ASSUME NEW f \in Files, f <= cursor
                    PROVE  \/ f \in dropped \/ failures # <<>>
                           \/ \A o \in 1..2 : disk'[<<Stems[f], Outs[o]>>] = f
                           \/ \E j \in Ids : w'[j].pc \in AtFile /\ w'[j].file = f
        BY <1>0, <1>3 DEF FilesServed, Generated, OutOf
      <3>1. CASE f = w[i].file
        BY <2>1, <3>1
      <3>2. CASE f # w[i].file
        <4>1. \A o \in 1..2 : disk'[<<Stems[f], Outs[o]>>] = OutOf(f, o)
          BY <2>2, <3>2 DEF OutOf
        <4>2. CASE Generated(f)
          BY <4>1, <4>2 DEF Generated
        <4>3. CASE \E j \in Ids : w[j].pc \in AtFile /\ w[j].file = f
          BY <1>2, <3>2, <4>3
        <4>. QED
          BY <1>0, <4>2, <4>3 DEF FilesServed
      <3>. QED
        BY <3>1, <3>2
    <2>. QED
      BY <2>3, <2>4
  <1>4. CASE NextOut(i) /\ dropped' = dropped \cup {w[i].file} /\ disk' = disk
    <2>1. /\ w'[i].file = w[i].file
          /\ (w'[i].pc = "render" \/ w'[i].pc = "loop")
      BY <1>1, <1>4, NextOutMoves
    <2>2. OutsBehind'
      <3>. SUFFICES ASSUME NEW j \in Ids, w'[j].pc \in AtFile
                    PROVE  /\ \A o \in 1..2 : o < w'[j].out /\ w'[j].file \notin dropped'
                                 => OutOf(w'[j].file, o) = w'[j].file
                           /\ w'[j].pc = "write" => OutOf(w'[j].file, w'[j].out) = Nobody
        BY <1>4 DEF OutsBehind, OutOf
      <3>1. CASE j = i
        BY <1>4, <2>1, <3>1
      <3>2. CASE j # i
        BY <1>0, <1>2, <1>4, <3>2 DEF OutsBehind
      <3>. QED
        BY <3>1, <3>2
    <2>3. FilesServed'
      <3>. SUFFICES ASSUME NEW f \in Files, f <= cursor
                    PROVE  \/ f \in dropped' \/ failures # <<>> \/ \A o \in 1..2 : OutOf(f, o) = f
                           \/ \E j \in Ids : w'[j].pc \in AtFile /\ w'[j].file = f
        BY <1>0, <1>4 DEF FilesServed, Generated, OutOf
      <3>1. CASE f = w[i].file
        BY <1>4, <3>1
      <3>2. CASE f # w[i].file
        BY <1>0, <1>2, <1>4, <3>2 DEF FilesServed, Generated
      <3>. QED
        BY <3>1, <3>2
    <2>. QED
      BY <2>2, <2>3
  <1>. QED
    BY <1>3, <1>4 DEF Open

(* write_file() writes the output of its own file, which was empty.        *)
WrittenOut(i) == dropped' = dropped /\ disk' = [disk EXCEPT ![Path(i)] = Written(w[i].file, @)]
LEMMA WriteKept ==
  ASSUME DistinctStems, GenInv, NEW i \in Ids, Write(i), WrittenOut(i)
  PROVE  OutsBehind' /\ FilesServed'
  <1>0. /\ QueueInv /\ OutsBehind /\ FilesServed /\ w[i].pc = "write" /\ w[i].pc \in AtFile
        /\ cursor' = cursor /\ failures' = failures /\ dropped' = dropped /\ NextOut(i)
        /\ disk' = [disk EXCEPT ![Path(i)] = Written(w[i].file, @)]
    BY DEF GenInv, Write, WrittenOut, Running, shared, AtFile
  <1>1. /\ w[i].out \in 1..2 /\ w[i].file \in Files /\ Typed /\ Moves(i) /\ StepOf(i)
        /\ Path(i) = <<Stems[w[i].file], Outs[w[i].out]>> /\ Path(i) \in Paths /\ disk \in [Paths -> 0..Mixed]
    BY <1>0, PathKnown, WorkerKnown, WriteStep DEF StepOf
  <1>2. \A j \in Ids : j # i => w'[j] = w[j]
    BY <1>1 DEF Moves
  <1>3. Written(w[i].file, disk[Path(i)]) = w[i].file
    BY <1>0, <1>1 DEF OutsBehind, OutOf, Written
  <1>4. disk' = [disk EXCEPT ![Path(i)] = w[i].file]
    BY <1>0, <1>1, <1>3
  <1>5. ASSUME NEW f \in Files, NEW o \in 1..2
        PROVE  OutOf(f, o)' = IF f = w[i].file /\ o = w[i].out THEN w[i].file ELSE OutOf(f, o)
    <2>1. PICK v : v = w[i].file
      OBVIOUS
    <2>2. disk' = [disk EXCEPT ![Path(i)] = v]
      BY <1>4, <2>1
    <2>3. OutOf(f, o)' = IF f = w[i].file /\ o = w[i].out THEN v ELSE OutOf(f, o)
      <3>1. QueueInv /\ w[i].pc \in AtFile
        BY <1>0
      <3>. QED
        BY <1>5, <2>2, <3>1, OneOutput
    <2>. QED
      BY <2>1, <2>3
  <1>6. /\ w'[i].file = w[i].file
        /\ \/ w[i].out = 1 /\ w'[i].pc = "render" /\ w'[i].out = 2
           \/ w[i].out = 2 /\ w'[i].pc = "loop"
    BY <1>0, <1>1, NextOutMoves
  <1>7. OutsBehind'
    <2>. SUFFICES ASSUME NEW j \in Ids, w'[j].pc \in AtFile
                  PROVE  /\ \A o \in 1..2 : o < w'[j].out /\ w'[j].file \notin dropped
                               => disk'[<<Stems[w'[j].file], Outs[o]>>] = w'[j].file
                         /\ w'[j].pc = "write" => disk'[<<Stems[w'[j].file], Outs[w'[j].out]>>] = Nobody
      BY <1>0 DEF OutsBehind, OutOf
    <2>1. CASE j = i
      <3>1. w[i].out = 1 /\ w'[i].pc = "render" /\ w'[i].out = 2
        BY <1>6, <2>1 DEF AtFile
      <3>2. disk'[<<Stems[w[i].file], Outs[1]>>] = w[i].file
        BY <1>1, <1>5, <3>1 DEF OutOf
      <3>. QED
        BY <1>6, <2>1, <3>1, <3>2
    <2>2. CASE j # i
      <3>1. w'[j] = w[j] /\ w[j].file # w[i].file /\ w[j].file \in Files /\ w[j].out \in 1..2
        BY <1>0, <1>2, <2>2, OwnFile
      <3>2. \A o \in 1..2 : disk'[<<Stems[w[j].file], Outs[o]>>] = OutOf(w[j].file, o)
        BY <1>5, <3>1 DEF OutOf
      <3>. QED
        BY <1>0, <3>1, <3>2 DEF OutsBehind, OutOf
    <2>. QED
      BY <2>1, <2>2
  <1>8. FilesServed'
    <2>. SUFFICES ASSUME NEW f \in Files, f <= cursor
                  PROVE  \/ f \in dropped \/ failures # <<>>
                         \/ \A o \in 1..2 : disk'[<<Stems[f], Outs[o]>>] = f
                         \/ \E j \in Ids : w'[j].pc \in AtFile /\ w'[j].file = f
      BY <1>0 DEF FilesServed, Generated, OutOf
    <2>1. CASE f = w[i].file /\ w[i].out = 1
      BY <1>6, <2>1 DEF AtFile
    <2>2. CASE f = w[i].file /\ w[i].out = 2
      <3>1. f \in dropped \/ OutOf(f, 1) = f
        BY <1>0, <2>2 DEF OutsBehind
      <3>2. disk'[<<Stems[f], Outs[1]>>] = OutOf(f, 1) /\ disk'[<<Stems[f], Outs[2]>>] = f
        BY <1>5, <2>2 DEF OutOf
      <3>. QED
        BY <3>1, <3>2
    <2>3. CASE f # w[i].file
      <3>1. \A o \in 1..2 : disk'[<<Stems[f], Outs[o]>>] = OutOf(f, o)
        BY <1>5, <2>3 DEF OutOf
      <3>2. CASE Generated(f)
        BY <3>1, <3>2 DEF Generated
      <3>3. CASE \E j \in Ids : w[j].pc \in AtFile /\ w[j].file = f
        BY <1>2, <2>3, <3>3
      <3>. QED
        BY <1>0, <3>2, <3>3 DEF FilesServed
    <2>. QED
      BY <1>1, <2>1, <2>2, <2>3
  <1>. QED
    BY <1>7, <1>8

(* An output that write_file() loses is that of a dropped file.            *)
LEMMA WriteLost ==
  ASSUME DistinctStems, GenInv, NEW i \in Ids, Write(i), dropped' = dropped \cup {w[i].file},
         NEW left, disk' = [disk EXCEPT ![Path(i)] = left]
  PROVE  OutsBehind' /\ FilesServed'
  <1>0. /\ QueueInv /\ OutsBehind /\ FilesServed /\ w[i].pc = "write" /\ w[i].pc \in AtFile
        /\ cursor' = cursor /\ failures' = failures /\ NextOut(i)
    BY DEF GenInv, Write, Running, shared, AtFile
  <1>1. w[i].out \in 1..2 /\ w[i].file \in Files /\ Typed /\ Moves(i)
    BY <1>0, PathKnown, WorkerKnown, WriteStep DEF StepOf
  <1>2. \A j \in Ids : j # i => w'[j] = w[j]
    BY <1>1 DEF Moves
  <1>3. w'[i].file = w[i].file /\ (w'[i].pc = "render" \/ w'[i].pc = "loop")
    BY <1>0, <1>1, NextOutMoves
  <1>4. ASSUME NEW f \in Files, NEW o \in 1..2, f # w[i].file
        PROVE  disk'[<<Stems[f], Outs[o]>>] = OutOf(f, o)
    <2>1. OutOf(f, o)' = IF f = w[i].file /\ o = w[i].out THEN left ELSE OutOf(f, o)
      BY <1>0, OneOutput
    <2>. QED
      BY <1>4, <2>1 DEF OutOf
  <1>5. OutsBehind'
    <2>. SUFFICES ASSUME NEW j \in Ids, w'[j].pc \in AtFile
                  PROVE  /\ \A o \in 1..2 : o < w'[j].out /\ w'[j].file \notin dropped'
                               => disk'[<<Stems[w'[j].file], Outs[o]>>] = w'[j].file
                         /\ w'[j].pc = "write" => disk'[<<Stems[w'[j].file], Outs[w'[j].out]>>] = Nobody
      BY DEF OutsBehind, OutOf
    <2>1. CASE j = i
      BY <1>3, <2>1
    <2>2. CASE j # i
      <3>1. w'[j] = w[j] /\ w[j].file # w[i].file /\ w[j].file \in Files /\ w[j].out \in 1..2
        BY <1>0, <1>2, <2>2, OwnFile
      <3>2. \A o \in 1..2 : disk'[<<Stems[w[j].file], Outs[o]>>] = OutOf(w[j].file, o)
        BY <1>4, <3>1
      <3>. QED
        BY <1>0, <3>1, <3>2 DEF OutsBehind
    <2>. QED
      BY <2>1, <2>2
  <1>6. FilesServed'
    <2>. SUFFICES ASSUME NEW f \in Files, f <= cursor
                  PROVE  \/ f \in dropped' \/ failures # <<>>
                         \/ \A o \in 1..2 : disk'[<<Stems[f], Outs[o]>>] = f
                         \/ \E j \in Ids : w'[j].pc \in AtFile /\ w'[j].file = f
      BY <1>0 DEF FilesServed, Generated, OutOf
    <2>1. CASE f = w[i].file
      BY <2>1
    <2>2. CASE f # w[i].file
      <3>1. \A o \in 1..2 : disk'[<<Stems[f], Outs[o]>>] = OutOf(f, o)
        BY <1>4, <2>2
      <3>2. CASE Generated(f)
        BY <3>1, <3>2 DEF Generated
      <3>3. CASE \E j \in Ids : w[j].pc \in AtFile /\ w[j].file = f
        BY <1>2, <2>2, <3>3
      <3>. QED
        BY <1>0, <3>2, <3>3 DEF FilesServed
    <2>. QED
      BY <2>1, <2>2
  <1>. QED
    BY <1>5, <1>6

(* write_file() touches the output of its own file only.                   *)
LEMMA WriteGen ==
  ASSUME DistinctStems, GenInv, NEW i \in Ids, Write(i)
  PROVE  OutsBehind' /\ FilesServed'
  <1>1. CASE WrittenOut(i)
    BY <1>1, WriteKept
  <1>2. CASE /\ dropped' = dropped \cup {w[i].file}
             /\ \E left \in {disk[Path(i)], Mixed} : disk' = [disk EXCEPT ![Path(i)] = left]
    BY <1>2, WriteLost
  <1>. QED
    BY <1>1, <1>2 DEF Write, WrittenOut

(* Before the workers nothing has been taken, and the main thread touches  *)
(* no output.                                                              *)
LEMMA MainGen == ASSUME GenInv, Main PROVE OutsBehind' /\ FilesServed'
  <1>0. QueueInv /\ OutsBehind /\ FilesServed /\ MainPlace /\ QueueInv'
    BY MainInv DEF GenInv, QueueInv
  <1>1. CASE Join
    BY <1>0, <1>1 DEF Join, shared, world, OutsBehind, FilesServed, Generated, OutOf
  <1>2. CASE ~Join
    <2>1. cursor' = 0 /\ \A i \in Ids : w'[i].pc \notin AtFile
      <3>1. CASE Spawn
        <4>1. cursor' = cursor /\ Fresh
          BY <1>0, <3>1 DEF Spawn, shared, MainPlace
        <4>2. PICK j \in Parallel :
                w' = [i \in Ids |-> [Idle EXCEPT !.pc = IF i <= worker_count(j) THEN "connect" ELSE "absent"]]
          BY <3>1 DEF Spawn, Ids
        <4>3. ASSUME NEW at \in {"connect", "absent"} PROVE [Idle EXCEPT !.pc = at].pc \notin AtFile
          BY DEF Idle, AtFile
        <4>. HIDE DEF Idle
        <4>. QED
          BY <4>1, <4>2, <4>3 DEF Fresh
      <3>2. CASE load_parameters \/ Preflight \/ Disconnected \/ prepare_templates
        <4>1. Fresh
          BY <1>0, <3>2 DEF load_parameters, Preflight, Disconnected, prepare_templates, MainPlace
        <4>2. w' = w /\ cursor' = cursor
          BY <3>2 DEF load_parameters, Preflight, Disconnected, prepare_templates, shared
        <4>. QED
          BY <4>1, <4>2 DEF Fresh, Idle, AtFile
      <3>. QED
        BY <1>2, <3>1, <3>2 DEF Main
    <2>2. \A f \in Files : ~(f <= cursor')
      BY <2>1, RunAssumption DEF Files
    <2>. QED
      BY <2>1, <2>2 DEF OutsBehind, FilesServed
  <1>. QED
    BY <1>1, <1>2

(* Every step keeps the account of the files.                              *)
LEMMA GenNext == ASSUME DistinctStems, GenInv, [Next]_vars PROVE GenInv'
  <1>0. QueueInv'
    BY QueueNext DEF GenInv
  <1>1. CASE Main
    BY <1>0, <1>1, MainGen DEF GenInv
  <1>2. CASE UNCHANGED vars
    BY <1>0, <1>2 DEF vars, GenInv, OutsBehind, FilesServed, Generated, OutOf
  <1>3. ASSUME NEW i \in Ids, Worker(i) PROVE OutsBehind' /\ FilesServed'
    <2>1. CASE pc' = "terminated"
      <3>1. QueueInv /\ pc = "join"
        BY <1>3 DEF GenInv, Worker, WorkerConnect, Take, WorkerClose, Load, MakeFolder, Render, Open, Write,
                    FileFailed, Running
      <3>2. MakeFolder(i)
        BY <1>3, <2>1, <3>1 DEF Worker, WorkerConnect, Take, WorkerClose, Load, Render, Open, Write,
                    FileFailed, mains
      <3>3. w' = w /\ disk' = disk /\ dropped' = dropped /\ cursor' = cursor /\ failures' = failures
        BY <2>1, <3>1, <3>2 DEF MakeFolder, shared
      <3>. QED
        BY <3>3 DEF GenInv, OutsBehind, FilesServed, Generated, OutOf
    <2>2. CASE pc' # "terminated"
      BY <1>3, <2>2, QuietStep, OpenGen, WriteGen DEF Worker
    <2>. QED
      BY <2>1, <2>2
  <1>. QED
    BY <1>0, <1>1, <1>2, <1>3 DEF Next, Done, Ids, GenInv

(* A run ends with the first error that was recorded.                      *)
LEMMA ExitTellsFirstFact == ASSUME QueueInv PROVE ExitTellsFirst
  <1>. SUFFICES ASSUME pc = "exit", NEW i \in Ids, w[i].pc = "done"
                PROVE  sts = IF failures = <<>> THEN "ok" ELSE Head(failures)
    BY DEF ExitTellsFirst, Ids
  <1>1. ~Fresh
    BY DEF Fresh, Idle
  <1>2. sts = first_error
    BY <1>1 DEF QueueInv, MainPlace
  <1>. QED
    BY <1>2 DEF QueueInv, FirstStays

(* With no error, every file was taken and none is left at a worker.       *)
LEMMA OkMeansGeneratedFact == ASSUME GenInv PROVE OkMeansGenerated
  <1>. SUFFICES ASSUME pc = "exit", sts = "ok", NEW f \in Files, f \notin dropped, NEW o \in 1..2
                PROVE  OutOf(f, o) = f
    <2>1. DOMAIN Outs = 1..2
      BY DEF Outs
    <2>. QED
      BY <2>1 DEF OkMeansGenerated, OutOf
  <1>0. QueueInv /\ FilesServed
    BY DEF GenInv
  <1>1. /\ \A i \in Ids : w[i].pc \in {"absent", "done"}
        /\ \E i \in Ids : w[i].pc = "done"
        /\ first_error = "ok"
    BY <1>0 DEF QueueInv, MainPlace
  <1>2. failures = <<>>
    BY <1>0, <1>1 DEF QueueInv, FirstStays
  <1>3. cursor >= Len(Stems) /\ cursor \in Nat
    BY <1>0, <1>1, <1>2 DEF QueueInv, WorkerPlace, Typed
  <1>4. f <= cursor
    BY <1>3, RunAssumption DEF Files
  <1>5. Generated(f)
    BY <1>0, <1>1, <1>4 DEF FilesServed, AtFile
  <1>. QED
    BY <1>2, <1>5 DEF Generated

(* The exit status is the truth about the run, for any number of files and *)
(* workers and any failures, when no two files on the command line have    *)
(* the same stem: with the same one they write the same outputs.           *)
THEOREM ExitHonestThm ==
  ASSUME \A f, g \in Files : Stems[f] = Stems[g] => f = g
  PROVE  Spec => []ExitHonest
  <1>0. DistinctStems
    BY DEF DistinctStems
  <1>1. Init => GenInv
    <2>. SUFFICES ASSUME Init PROVE GenInv
      OBVIOUS
    <2>1. QueueInv
      BY QueueInit
    <2>2. cursor = 0 /\ \A i \in Ids : w[i] = Idle
      BY DEF Init, Ids
    <2>3. \A i \in Ids : w[i].pc \notin AtFile
      BY <2>2 DEF Idle, AtFile
    <2>4. \A f \in Files : ~(f <= cursor)
      BY <2>2, RunAssumption DEF Files
    <2>. QED
      BY <2>1, <2>3, <2>4 DEF GenInv, OutsBehind, FilesServed
  <1>2. GenInv /\ [Next]_vars => GenInv'
    BY <1>0, GenNext
  <1>3. GenInv => ExitHonest
    BY ExitTellsFirstFact, OkMeansGeneratedFact DEF GenInv, ExitHonest
  <1>. QED
    BY <1>1, <1>2, <1>3, PTL DEF Spec

-----------------------------------------------------------------------------
(* What a worker makes of the columns the database reports of a statement: *)
(* ColumnTypes, by way of StatementColumns.                                *)

(* What get_sql_metadata() of backend b makes of a native type.            *)
TypeOf(b, code) == IF b = "psql" THEN C!from_oid(code) ELSE C!from_odbc(code)
SizeOf(b, k, nat) ==
  IF b # "psql" THEN nat.n
  ELSE IF k = "param" THEN C!column_width(nat.code, -1, -1)
       ELSE C!column_width(nat.code, C!TypmodOf(nat), C!FixedSize(nat.code))
DigitsOf(b, k, nat) ==
  IF b # "psql" THEN nat.s ELSE IF k = "param" THEN 0 ELSE C!column_scale(nat.code, C!TypmodOf(nat))

(* Column i of list k at a stage: its type and digits are the database's   *)
(* throughout, its name the yaml file's once given, and its size the       *)
(* database's until the widths are settled.                                *)
IsDscr(c) == c = [name |-> c.name, native |-> c.native, type |-> c.type, size |-> c.size, digits |-> c.digits]
Width(y, c, rep) == C!Or(y.field_len, c.name, IF rep = 0 THEN Fallback ELSE rep)
ColumnOK(b, y, st, k, i, c) ==
  /\ IsDscr(c) /\ c.native \in Natives[b]
  /\ c.type = TypeOf(b, c.native.code) /\ c.digits = DigitsOf(b, k, c.native)
  /\ st # "describe" /\ i <= Len(y.names[k]) => c.name = y.names[k][i]
  /\ st \in {"describe", "named"} => c.size = SizeOf(b, k, c.native)
  /\ st \in {"sized", "emitted"} =>
       c.size = IF C!IsString(c.type) THEN Width(y, c, SizeOf(b, k, c.native)) ELSE SizeOf(b, k, c.native)
IsList(s) == \E S : s \in Seq(S)

ColumnInv ==
  /\ backend \in DOMAIN Natives
  /\ yaml \in [names : [C!Kinds -> Renamings], field_len : FieldLens]
  /\ stage \in {"describe", "named", "sized", "emitted"}
  /\ meta = [k \in C!Kinds |-> meta[k]]
  /\ \A k \in C!Kinds : IsList(meta[k])
  /\ \A k \in C!Kinds : \A i \in DOMAIN meta[k] : ColumnOK(backend, yaml, stage, k, i, meta[k][i])
  /\ needs = IF stage = "emitted" THEN UNION {C!note_helpers(c.type) : c \in C!Columns} ELSE {}

(* The width and scale read from a typmod are counts.                      *)
LEMMA SizeType ==
  ASSUME NativesOK, NEW b \in DOMAIN Natives, NEW nat \in Natives[b], NEW k
  PROVE  SizeOf(b, k, nat) \in Nat /\ DigitsOf(b, k, nat) \in Nat
  <1>1. nat.n \in Nat /\ nat.s \in Nat
    BY DEF NativesOK
  <1>2. C!TypmodOf(nat) \in Int
    BY <1>1 DEF C!TypmodOf
  <1>3. C!FixedSize(nat.code) \in Int
    BY DEF C!FixedSize, C!Or
  <1>4. ASSUME NEW o, NEW t \in Int, NEW z \in Int
        PROVE  C!column_width(o, t, z) \in Nat /\ C!column_scale(o, t) \in Nat
    <2>1. C!column_width(o, t, z) \in Nat
      BY <1>4 DEF C!column_width, C!Unbounded
    <2>2. C!column_scale(o, t) \in Nat
      BY <1>4 DEF C!column_scale
    <2>. QED
      BY <2>1, <2>2
  <1>. QED
    BY <1>1, <1>2, <1>3, <1>4 DEF SizeOf, DigitsOf

(* The typmod is taken apart as it was put together.                       *)
LEMMA TypmodRoundTrip ==
  ASSUME NativesOK, NEW b \in DOMAIN Natives, b = "psql", NEW nat \in Natives[b]
  PROVE  /\ nat.code \in {"bpchar", "varchar"} => SizeOf(b, "result", nat) = nat.n
         /\ nat.code = "numeric" => DigitsOf(b, "result", nat) = nat.s
  <1>1. nat.n \in Nat /\ nat.s \in Nat
    BY DEF NativesOK
  <1>2. ASSUME nat.code \in {"bpchar", "varchar"} PROVE SizeOf(b, "result", nat) = nat.n
    <2>1. C!TypmodOf(nat) = IF nat.n = 0 THEN -1 ELSE nat.n + 4
      BY <1>1, <1>2 DEF C!TypmodOf
    <2>2. ASSUME NEW t \in Int, NEW z
          PROVE  C!column_width(nat.code, t, z) = IF t > 4 THEN t - 4 ELSE 0
      BY <1>2 DEF C!column_width, C!Unbounded
    <2>3. C!TypmodOf(nat) \in Int /\ (IF C!TypmodOf(nat) > 4 THEN C!TypmodOf(nat) - 4 ELSE 0) = nat.n
      BY <1>1, <2>1
    <2>. QED
      BY <2>2, <2>3 DEF SizeOf
  <1>3. ASSUME nat.code = "numeric" PROVE DigitsOf(b, "result", nat) = nat.s
    <2>1. nat.s < 65536 /\ (nat.n = 0 => nat.s = 0)
      BY <1>3 DEF NativesOK
    <2>2. C!TypmodOf(nat) = IF nat.n = 0 THEN -1 ELSE nat.n * 65536 + nat.s + 4
      BY <1>1, <1>3 DEF C!TypmodOf
    <2>3. ASSUME NEW t \in Int
          PROVE  C!column_scale("numeric", t) = IF t < 4 THEN 0 ELSE (t - 4) % 65536
      BY DEF C!column_scale
    <2>4. ASSUME NEW n \in Nat, NEW s \in Nat, s < 65536
          PROVE  (n * 65536 + s + 4 - 4) % 65536 = s
      BY <2>4
    <2>5. CASE nat.n = 0
      BY <1>3, <2>1, <2>2, <2>3, <2>5 DEF DigitsOf
    <2>6. CASE nat.n # 0
      <3>1. PICK t : t = nat.n * 65536 + nat.s + 4
        OBVIOUS
      <3>2. t \in Int /\ t >= 4 /\ C!TypmodOf(nat) = t
        BY <1>1, <2>2, <2>6, <3>1
      <3>3. C!column_scale("numeric", t) = (t - 4) % 65536
        BY <2>3, <3>2
      <3>4. (t - 4) % 65536 = nat.s
        BY <1>1, <2>1, <2>4, <3>1
      <3>. QED
        BY <1>3, <3>2, <3>3, <3>4 DEF DigitsOf
    <2>. QED
      BY <2>5, <2>6
  <1>. QED
    BY <1>2, <1>3

(* Appending keeps a list a list.                                          *)
LEMMA ListAppend ==
  ASSUME NEW s, IsList(s), NEW c
  PROVE  /\ IsList(Append(s, c)) /\ Len(s) \in Nat
         /\ DOMAIN Append(s, c) = DOMAIN s \cup {Len(s) + 1}
         /\ Append(s, c)[Len(s) + 1] = c /\ Len(s) + 1 \notin DOMAIN s
         /\ \A i \in DOMAIN s : Append(s, c)[i] = s[i]
  <1>1. PICK S : s \in Seq(S)
    BY DEF IsList
  <1>2. s \in Seq(S \cup {c})
    BY <1>1
  <1>3. Append(s, c) \in Seq(S \cup {c})
    BY <1>2
  <1>. QED
    BY <1>2, <1>3 DEF IsList

(* So does changing every entry in its place.                              *)
LEMMA ListMap ==
  ASSUME NEW s, IsList(s), NEW t, DOMAIN t = DOMAIN s, t = [i \in DOMAIN t |-> t[i]]
  PROVE  IsList(t)
  <1>1. PICK S : s \in Seq(S)
    BY DEF IsList
  <1>2. Len(s) \in Nat /\ DOMAIN s = 1..Len(s)
    BY <1>1
  <1>3. PICK T : T = {t[i] : i \in DOMAIN t}
    OBVIOUS
  <1>4. t \in [1..Len(s) -> T]
    BY <1>2, <1>3
  <1>5. t \in Seq(T)
    BY <1>2, <1>4
  <1>. QED
    BY <1>5 DEF IsList

(* A freshly described parameter or column.                                *)
LEMMA DescribedOK ==
  ASSUME NEW nat \in Natives[backend], NEW n, NEW y, NEW i
  PROVE  /\ ColumnOK(backend, y, "describe", "param", i, C!Named(C!ParDscr(nat), n))
         /\ ColumnOK(backend, y, "describe", "result", i, C!Named(C!ColDscr(nat), n))
  <1>1. PICK p : p = C!Named(C!ParDscr(nat), n)
    OBVIOUS
  <1>2. PICK c : c = C!Named(C!ColDscr(nat), n)
    OBVIOUS
  <1>3. /\ IsDscr(p) /\ p.native = nat /\ p.type = TypeOf(backend, nat.code)
        /\ p.size = SizeOf(backend, "param", nat) /\ p.digits = DigitsOf(backend, "param", nat)
    BY <1>1 DEF C!Named, C!ParDscr, IsDscr, TypeOf, SizeOf, DigitsOf
  <1>4. /\ IsDscr(c) /\ c.native = nat /\ c.type = TypeOf(backend, nat.code)
        /\ c.size = SizeOf(backend, "result", nat) /\ c.digits = DigitsOf(backend, "result", nat)
    BY <1>2 DEF C!Named, C!ColDscr, IsDscr, TypeOf, SizeOf, DigitsOf
  <1>5. ColumnOK(backend, y, "describe", "param", i, p)
    BY <1>3 DEF ColumnOK
  <1>6. ColumnOK(backend, y, "describe", "result", i, c)
    BY <1>4 DEF ColumnOK
  <1>. QED
    BY <1>1, <1>2, <1>5, <1>6

(* Nothing is described at first.                                          *)
LEMMA ColumnInit ==
  ASSUME C!Init
  PROVE  ColumnInv
  <1>1. meta = [k \in C!Kinds |-> <<>>]
    BY DEF C!Init
  <1>2. <<>> \in Seq({})
    OBVIOUS
  <1>3. \A k \in C!Kinds : meta[k] = <<>> /\ IsList(meta[k]) /\ DOMAIN meta[k] = {}
    BY <1>1, <1>2 DEF IsList
  <1>4. meta = [k \in C!Kinds |-> meta[k]]
    BY <1>1
  <1>. QED
    BY <1>3, <1>4 DEF ColumnInv, C!Init

(* One entry more of one of the lists.                                     *)
LEMMA OneMore ==
  ASSUME ColumnInv, stage = "describe", NEW k \in C!Kinds, NEW c,
         ColumnOK(backend, yaml, stage, k, Len(meta[k]) + 1, c),
         meta' = [meta EXCEPT ![k] = Append(@, c)], UNCHANGED <<backend, yaml, stage, needs>>
  PROVE  ColumnInv'
  <1>1. meta = [j \in C!Kinds |-> meta[j]] /\ \A j \in C!Kinds : IsList(meta[j])
    BY DEF ColumnInv
  <1>2. \A j \in C!Kinds : meta'[j] = IF j = k THEN Append(meta[k], c) ELSE meta[j]
    BY <1>1
  <1>3. meta' = [j \in C!Kinds |-> meta'[j]]
    BY <1>1
  <1>4. \A j \in C!Kinds : IsList(meta'[j])
    BY <1>1, <1>2, ListAppend
  <1>5. ASSUME NEW j \in C!Kinds, NEW i \in DOMAIN meta'[j]
        PROVE  ColumnOK(backend, yaml, stage, j, i, meta'[j][i])
    <2>1. CASE j # k
      BY <1>2, <1>5, <2>1 DEF ColumnInv
    <2>2. CASE j = k
      <3>1. meta'[j] = Append(meta[k], c)
        BY <1>2, <2>2
      <3>2. i \in DOMAIN meta[k] \/ i = Len(meta[k]) + 1
        BY <1>1, <1>5, <3>1, ListAppend
      <3>3. CASE i \in DOMAIN meta[k]
        <4>1. meta'[j][i] = meta[k][i]
          BY <1>1, <3>1, <3>3, ListAppend
        <4>. QED
          BY <2>2, <3>3, <4>1 DEF ColumnInv
      <3>4. CASE i = Len(meta[k]) + 1
        <4>1. meta'[j][i] = c
          BY <1>1, <3>1, <3>4, ListAppend
        <4>. QED
          BY <2>2, <3>4, <4>1
      <3>. QED
        BY <3>2, <3>3, <3>4
    <2>. QED
      BY <2>1, <2>2
  <1>6. needs' = {} /\ stage' # "emitted"
    BY DEF ColumnInv
  <1>. QED
    BY <1>3, <1>4, <1>5, <1>6 DEF ColumnInv

(* get_sql_metadata(): a parameter or a column is described.               *)
LEMMA ColumnDescribe ==
  ASSUME ColumnInv, C!DescribeParam \/ C!DescribeCol
  PROVE  ColumnInv'
  <1>1. CASE C!DescribeParam
    <2>1. PICK nat \in Natives[backend] :
            meta' = [meta EXCEPT !["param"] = Append(@, C!Named(C!ParDscr(nat), C!ParName(Len(@) + 1)))]
      BY <1>1 DEF C!DescribeParam
    <2>2. PICK c : c = C!Named(C!ParDscr(nat), C!ParName(Len(meta["param"]) + 1))
      OBVIOUS
    <2>3. meta' = [meta EXCEPT !["param"] = Append(@, c)]
      BY <2>1, <2>2
    <2>4. stage = "describe" /\ UNCHANGED <<backend, yaml, stage, needs>> /\ "param" \in C!Kinds
      BY <1>1 DEF C!DescribeParam, C!Kinds
    <2>5. ColumnOK(backend, yaml, stage, "param", Len(meta["param"]) + 1, c)
      BY <2>2, <2>4, DescribedOK
    <2>. QED
      BY <2>3, <2>4, <2>5, OneMore
  <1>2. CASE C!DescribeCol
    <2>1. PICK nat \in Natives[backend], n \in Names :
            meta' = [meta EXCEPT !["result"] = Append(@, C!Named(C!ColDscr(nat), n))]
      BY <1>2 DEF C!DescribeCol
    <2>2. PICK c : c = C!Named(C!ColDscr(nat), n)
      OBVIOUS
    <2>3. meta' = [meta EXCEPT !["result"] = Append(@, c)]
      BY <2>1, <2>2
    <2>4. stage = "describe" /\ UNCHANGED <<backend, yaml, stage, needs>> /\ "result" \in C!Kinds
      BY <1>2 DEF C!DescribeCol, C!Kinds
    <2>5. ColumnOK(backend, yaml, stage, "result", Len(meta["result"]) + 1, c)
      BY <2>2, <2>4, DescribedOK
    <2>. QED
      BY <2>3, <2>4, <2>5, OneMore
  <1>. QED
    BY <1>1, <1>2

(* Every entry changed in its place.                                       *)
LEMMA EveryOne ==
  ASSUME ColumnInv, stage' \in {"named", "sized"}, UNCHANGED <<backend, yaml, needs>>, stage # "emitted",
         meta' = [k \in C!Kinds |-> meta'[k]],
         \A k \in C!Kinds : DOMAIN meta'[k] = DOMAIN meta[k] /\ meta'[k] = [i \in DOMAIN meta'[k] |-> meta'[k][i]],
         \A k \in C!Kinds : \A i \in DOMAIN meta[k] : ColumnOK(backend, yaml, stage', k, i, meta'[k][i])
  PROVE  ColumnInv'
  <1>1. \A k \in C!Kinds : IsList(meta'[k])
    <2>1. ASSUME NEW k \in C!Kinds PROVE IsList(meta'[k])
      <3>1. IsList(meta[k])
        BY DEF ColumnInv
      <3>. QED
        BY <3>1, ListMap
    <2>. QED
      BY <2>1
  <1>2. needs' = {} /\ stage' # "emitted"
    BY DEF ColumnInv
  <1>3. \A k \in C!Kinds : \A i \in DOMAIN meta'[k] : ColumnOK(backend', yaml', stage', k, i, meta'[k][i])
    OBVIOUS
  <1>. QED
    BY <1>1, <1>2, <1>3 DEF ColumnInv

(* push_column_names() changes names and nothing else.                     *)
LEMMA ColumnNamed ==
  ASSUME ColumnInv, C!push_column_names
  PROVE  ColumnInv'
  <1>1. stage = "describe" /\ stage' = "named" /\ UNCHANGED <<backend, yaml, needs>>
    BY DEF C!push_column_names
  <1>. DEFINE New(k, i) == [meta[k][i] EXCEPT !.name = IF i <= Len(yaml.names[k]) THEN yaml.names[k][i] ELSE @]
  <1>2. meta' = [k \in C!Kinds |-> [i \in DOMAIN meta[k] |-> New(k, i)]]
    BY DEF C!push_column_names
  <1>3. ASSUME NEW k \in C!Kinds, NEW i \in DOMAIN meta[k]
        PROVE  ColumnOK(backend, yaml, "named", k, i, New(k, i))
    <2>1. PICK c : c = meta[k][i]
      OBVIOUS
    <2>2. PICK d : d = New(k, i)
      OBVIOUS
    <2>3. ColumnOK(backend, yaml, "describe", k, i, c)
      BY <1>1, <2>1 DEF ColumnInv
    <2>4. IsDscr(c)
      BY <2>3 DEF ColumnOK
    <2>5. d = [c EXCEPT !.name = IF i <= Len(yaml.names[k]) THEN yaml.names[k][i] ELSE c.name]
      BY <2>1, <2>2
    <2>6. /\ IsDscr(d) /\ d.native = c.native /\ d.type = c.type /\ d.size = c.size /\ d.digits = c.digits
          /\ d.name = IF i <= Len(yaml.names[k]) THEN yaml.names[k][i] ELSE c.name
      BY <2>4, <2>5 DEF IsDscr
    <2>7. ColumnOK(backend, yaml, "named", k, i, d)
      BY <2>3, <2>6 DEF ColumnOK
    <2>. QED
      BY <2>2, <2>7
  <1>. HIDE DEF New
  <1>4. meta' = [k \in C!Kinds |-> meta'[k]]
    BY <1>2
  <1>5. \A k \in C!Kinds : meta'[k] = [i \in DOMAIN meta[k] |-> New(k, i)]
    BY <1>2
  <1>6. \A k \in C!Kinds : /\ DOMAIN meta'[k] = DOMAIN meta[k]
                            /\ meta'[k] = [i \in DOMAIN meta'[k] |-> meta'[k][i]]
                            /\ \A i \in DOMAIN meta[k] : meta'[k][i] = New(k, i)
    BY <1>5
  <1>7. \A k \in C!Kinds : \A i \in DOMAIN meta[k] : ColumnOK(backend, yaml, stage', k, i, meta'[k][i])
    BY <1>1, <1>3, <1>6
  <1>. QED
    BY <1>1, <1>4, <1>6, <1>7, EveryOne

(* apply_field_len() changes sizes and nothing else.                       *)
LEMMA ColumnSized ==
  ASSUME ColumnInv, C!apply_field_len
  PROVE  ColumnInv'
  <1>1. stage = "named" /\ stage' = "sized" /\ UNCHANGED <<backend, yaml, needs>>
    BY DEF C!apply_field_len
  <1>2. meta' = [k \in C!Kinds |-> [i \in DOMAIN meta[k] |-> C!Settled(meta[k][i])]]
    BY DEF C!apply_field_len
  <1>3. ASSUME NEW k \in C!Kinds, NEW i \in DOMAIN meta[k]
        PROVE  ColumnOK(backend, yaml, "sized", k, i, C!Settled(meta[k][i]))
    <2>1. PICK c : c = meta[k][i]
      OBVIOUS
    <2>2. PICK d : d = C!Settled(c)
      OBVIOUS
    <2>3. ColumnOK(backend, yaml, "named", k, i, c)
      BY <1>1, <2>1 DEF ColumnInv
    <2>4. IsDscr(c) /\ c.size = SizeOf(backend, k, c.native)
      BY <2>3 DEF ColumnOK
    <2>5. PICK z : z = IF C!IsString(c.type) THEN Width(yaml, c, c.size) ELSE c.size
      OBVIOUS
    <2>6. d = [c EXCEPT !.size = z]
      <3>1. CASE c.name \in DOMAIN yaml.field_len /\ C!IsString(c.type)
        BY <2>2, <2>5, <3>1 DEF C!Settled, Width, C!Or
      <3>2. CASE c.name \notin DOMAIN yaml.field_len /\ C!IsString(c.type) /\ c.size = 0
        BY <2>2, <2>5, <3>2 DEF C!Settled, Width, C!Or
      <3>3. CASE c.name \notin DOMAIN yaml.field_len /\ C!IsString(c.type) /\ c.size # 0
        BY <2>2, <2>5, <3>3 DEF C!Settled, Width, C!Or
      <3>4. CASE ~C!IsString(c.type)
        BY <2>2, <2>5, <3>4 DEF C!Settled
      <3>. QED
        BY <3>1, <3>2, <3>3, <3>4
    <2>7. IsDscr(d) /\ d.native = c.native /\ d.type = c.type /\ d.size = z /\ d.digits = c.digits /\ d.name = c.name
      BY <2>4, <2>6 DEF IsDscr
    <2>8. ColumnOK(backend, yaml, "sized", k, i, d)
      BY <2>3, <2>4, <2>5, <2>7 DEF ColumnOK, Width
    <2>. QED
      BY <2>1, <2>2, <2>8
  <1>4. meta' = [k \in C!Kinds |-> meta'[k]]
    BY <1>2
  <1>5. \A k \in C!Kinds : meta'[k] = [i \in DOMAIN meta[k] |-> C!Settled(meta[k][i])]
    BY <1>2
  <1>6. \A k \in C!Kinds : /\ DOMAIN meta'[k] = DOMAIN meta[k]
                            /\ meta'[k] = [i \in DOMAIN meta'[k] |-> meta'[k][i]]
                            /\ \A i \in DOMAIN meta[k] : meta'[k][i] = C!Settled(meta[k][i])
    BY <1>5
  <1>7. \A k \in C!Kinds : \A i \in DOMAIN meta[k] : ColumnOK(backend, yaml, stage', k, i, meta'[k][i])
    BY <1>1, <1>3, <1>6
  <1>. QED
    BY <1>1, <1>4, <1>6, <1>7, EveryOne

(* internal_model_to_json() notes the helpers.                             *)
LEMMA ColumnEmitted ==
  ASSUME ColumnInv, C!internal_model_to_json
  PROVE  ColumnInv'
  <1>1. stage = "sized" /\ stage' = "emitted" /\ UNCHANGED <<backend, meta, yaml>>
    BY DEF C!internal_model_to_json
  <1>2. needs' = UNION {C!note_helpers(c.type) : c \in C!Columns} /\ C!Columns' = C!Columns
    BY <1>1 DEF C!internal_model_to_json, C!Columns
  <1>3. ASSUME NEW k, NEW i, NEW c, ColumnOK(backend, yaml, "sized", k, i, c)
        PROVE  ColumnOK(backend, yaml, "emitted", k, i, c)
    BY <1>3 DEF ColumnOK
  <1>4. \A k \in C!Kinds : \A i \in DOMAIN meta[k] : ColumnOK(backend, yaml, "emitted", k, i, meta[k][i])
    BY <1>1, <1>3 DEF ColumnInv
  <1>5. needs' = IF stage' = "emitted" THEN UNION {C!note_helpers(c.type) : c \in C!Columns'} ELSE {}
    BY <1>1, <1>2
  <1>. QED
    BY <1>1, <1>4, <1>5 DEF ColumnInv

(* Every step keeps the invariant.                                         *)
LEMMA ColumnStep ==
  ASSUME ColumnInv, [C!Next]_(C!vars)
  PROVE  ColumnInv'
  <1>1. CASE UNCHANGED C!vars
    <2>1. UNCHANGED <<backend, meta, yaml, stage, needs>> /\ C!Columns' = C!Columns
      BY <1>1 DEF C!vars, C!Columns
    <2>. QED
      BY <2>1 DEF ColumnInv
  <1>2. CASE C!Next
    BY <1>1, <1>2, ColumnDescribe, ColumnNamed, ColumnSized, ColumnEmitted DEF C!Next, C!Done
  <1>. QED
    BY <1>1, <1>2

(* A column of either list is an entry of its list.                        *)
LEMMA EntryOf ==
  ASSUME ColumnInv
  PROVE  /\ \A k \in C!Kinds : \A c \in C!ToSet(meta[k]) :
              \E i \in DOMAIN meta[k] : c = meta[k][i] /\ ColumnOK(backend, yaml, stage, k, i, c)
         /\ \A c \in C!Columns : \E k \in C!Kinds : c \in C!ToSet(meta[k])
  <1>1. \A k \in C!Kinds : \A c \in C!ToSet(meta[k]) : \E i \in DOMAIN meta[k] : c = meta[k][i]
    BY DEF C!ToSet
  <1>2. \A c \in C!Columns : \E k \in C!Kinds : c \in C!ToSet(meta[k])
    BY DEF C!Columns, C!Kinds
  <1>. QED
    BY <1>1, <1>2 DEF ColumnInv

(* What was reported of a column is what the invariant says of it.         *)
LEMMA ReportedSize ==
  ASSUME NEW k \in C!Kinds, NEW nat
  PROVE  C!Reported(k, nat) = SizeOf(backend, k, nat)
  BY DEF C!Reported, C!ParDscr, C!ColDscr, SizeOf, C!Kinds

(* The widths, from the invariant.                                         *)
LEMMA WidthsFact ==
  ASSUME NativesOK, ColumnInv
  PROVE  WidthsKept
  <1>1. backend \in DOMAIN Natives /\ backend \in {"psql", "db2"}
    BY DEF ColumnInv, NativesOK
  <1>2. C!DeclaredKept
    <2>. SUFFICES ASSUME stage = "describe", NEW c \in C!ToSet(meta["result"])
                  PROVE  /\ c.native.code \in {"bpchar", "varchar"} => c.size = c.native.n
                         /\ c.native.code = "numeric" => c.digits = c.native.s
      BY DEF C!DeclaredKept
    <2>1. "result" \in C!Kinds
      BY DEF C!Kinds
    <2>2. PICK i \in DOMAIN meta["result"] : ColumnOK(backend, yaml, stage, "result", i, c)
      BY <2>1, EntryOf
    <2>3. /\ c.native \in Natives[backend] /\ c.size = SizeOf(backend, "result", c.native)
          /\ c.digits = DigitsOf(backend, "result", c.native)
      BY <2>2 DEF ColumnOK
    <2>4. PICK nat \in Natives[backend] : nat = c.native
      BY <2>3
    <2>5. CASE backend = "psql"
      BY <1>1, <2>3, <2>4, <2>5, TypmodRoundTrip
    <2>6. CASE backend # "psql"
      BY <2>3, <2>6 DEF SizeOf, DigitsOf
    <2>. QED
      BY <2>5, <2>6
  <1>3. C!WidthsSettled
    <2>. SUFFICES ASSUME stage \in {"sized", "emitted"}, NEW k \in C!Kinds, NEW i \in DOMAIN meta[k],
                         NEW c, c = meta[k][i], NEW rep, rep = C!Reported(k, c.native), C!IsString(c.type)
                  PROVE  c.size = C!Or(yaml.field_len, C!FinalName(k, i), IF rep = 0 THEN Fallback ELSE rep)
      BY DEF C!WidthsSettled
    <2>1. ColumnOK(backend, yaml, stage, k, i, c)
      BY DEF ColumnInv
    <2>2. rep = SizeOf(backend, k, c.native)
      BY ReportedSize
    <2>3. C!FinalName(k, i) = c.name
      BY <2>1 DEF C!FinalName, ColumnOK
    <2>. QED
      BY <2>1, <2>2, <2>3 DEF ColumnOK, Width
  <1>. QED
    BY <1>2, <1>3 DEF WidthsKept

(* The oid declared for a parameter is of its neutral type.                *)
LEMMA OidRoundTrip ==
  ASSUME NEW o
  PROVE  C!from_oid(C!to_oid(C!from_oid(o))) = C!from_oid(o)
  BY DEF C!from_oid, C!Or, C!to_oid, C!OidOf, C!Intervals

(* The category of a neutral type: the groups of sql_types.hpp are apart.  *)
AtomicTypes == {"integer", "smallint", "bigint", "tiny_int", "float_", "real", "double_", "bit"}
LEMMA CategoryOf ==
  ASSUME NEW t
  PROVE  /\ t \in AtomicTypes => C!Category(t) = "atomic"
         /\ t \in C!CStrings => C!Category(t) = "c_string"
         /\ t \in C!WStrings => C!Category(t) = "w_string"
         /\ t \in C!BStrings => C!Category(t) = "b_string"
         /\ t \notin AtomicTypes \cup C!CStrings \cup C!WStrings \cup C!BStrings => C!Category(t) = "structure"
         /\ C!Category(t) \in {"atomic", "c_string", "w_string", "b_string", "structure"}
  <1>1. DOMAIN C!Atomic = AtomicTypes
    BY DEF C!Atomic, AtomicTypes
  <1>2. DOMAIN C!Moments = {"date", "time", "timestamp", "type_date", "type_time", "type_timestamp", "guid"}
    BY DEF C!Moments
  <1>3. CASE t \in AtomicTypes
    <2>1. /\ t \notin C!CStrings /\ t \notin C!WStrings /\ t \notin C!BStrings /\ t \notin DOMAIN C!Moments
          /\ t \notin C!Intervals
      BY <1>2, <1>3 DEF AtomicTypes, C!CStrings, C!WStrings, C!BStrings, C!Intervals
    <2>2. C!get_sql_mapping(t) = [category |-> "atomic", cpp_type |-> C!Atomic[t]]
      BY <1>1, <1>3, <2>1 DEF C!get_sql_mapping
    <2>. QED
      BY <1>3, <2>1, <2>2 DEF C!Category
  <1>4. CASE t \in C!CStrings
    <2>1. /\ t \notin AtomicTypes /\ t \notin C!WStrings /\ t \notin C!BStrings /\ t \notin DOMAIN C!Moments
          /\ t \notin C!Intervals
      BY <1>2, <1>4 DEF AtomicTypes, C!CStrings, C!WStrings, C!BStrings, C!Intervals
    <2>2. C!get_sql_mapping(t) = [category |-> "c_string", cpp_type |-> "char"]
      BY <1>1, <1>4, <2>1 DEF C!get_sql_mapping
    <2>. QED
      BY <1>4, <2>1, <2>2 DEF C!Category
  <1>5. CASE t \in C!WStrings
    <2>1. /\ t \notin AtomicTypes /\ t \notin C!CStrings /\ t \notin C!BStrings /\ t \notin DOMAIN C!Moments
          /\ t \notin C!Intervals
      BY <1>2, <1>5 DEF AtomicTypes, C!CStrings, C!WStrings, C!BStrings, C!Intervals
    <2>2. C!get_sql_mapping(t) = [category |-> "w_string", cpp_type |-> "wchar_t"]
      BY <1>1, <1>5, <2>1 DEF C!get_sql_mapping
    <2>. QED
      BY <1>5, <2>1, <2>2 DEF C!Category
  <1>6. CASE t \in C!BStrings
    <2>1. /\ t \notin AtomicTypes /\ t \notin C!CStrings /\ t \notin C!WStrings /\ t \notin DOMAIN C!Moments
          /\ t \notin C!Intervals
      BY <1>2, <1>6 DEF AtomicTypes, C!CStrings, C!WStrings, C!BStrings, C!Intervals
    <2>2. C!get_sql_mapping(t) = [category |-> "b_string", cpp_type |-> "uint8_t"]
      BY <1>1, <1>6, <2>1 DEF C!get_sql_mapping
    <2>. QED
      BY <1>6, <2>1, <2>2 DEF C!Category
  <1>7. CASE t \notin AtomicTypes /\ t \notin C!CStrings /\ t \notin C!WStrings /\ t \notin C!BStrings
    <2>1. DOMAIN C!Moments \cap C!Intervals = {}
      BY <1>2 DEF C!Intervals
    <2>2. CASE t \in DOMAIN C!Moments
      <3>1. C!get_sql_mapping(t) = [category |-> "structure", cpp_type |-> C!Moments[t]]
        BY <1>1, <1>7, <2>1, <2>2 DEF C!get_sql_mapping
      <3>. QED
        BY <1>7, <3>1 DEF C!Category
    <2>3. CASE t \in C!Intervals
      <3>1. C!get_sql_mapping(t) = [category |-> "structure", cpp_type |-> "interval"]
        BY <1>1, <1>7, <2>1, <2>3 DEF C!get_sql_mapping
      <3>. QED
        BY <1>7, <3>1 DEF C!Category
    <2>4. CASE t \notin DOMAIN C!Moments /\ t \notin C!Intervals
      <3>1. C!get_sql_mapping(t) = [category |-> "structure", cpp_type |-> "void"]
        BY <1>1, <1>7, <2>4 DEF C!get_sql_mapping
      <3>. QED
        BY <1>7, <3>1 DEF C!Category
    <2>. QED
      BY <2>2, <2>3, <2>4
  <1>. QED
    BY <1>3, <1>4, <1>5, <1>6, <1>7

(* A value of category b_string is read from bytea, or from bits.          *)
LEMMA ReaderOfWire ==
  ASSUME NEW o, C!WireForm(o) # "bits"
  PROVE  C!Category(C!from_oid(o)) = "b_string" <=> C!WireForm(o) = "hex"
  <1>1. C!from_oid(o) \in C!BStrings <=> o \in {"bytea", "bit", "varbit"}
    BY DEF C!from_oid, C!Or, C!BStrings
  <1>2. PICK t : t = C!from_oid(o)
    OBVIOUS
  <1>3. C!Category(t) = "b_string" <=> t \in C!BStrings
    BY CategoryOf
  <1>4. o \notin {"bit", "varbit"} /\ (C!WireForm(o) = "hex" <=> o = "bytea")
    BY DEF C!WireForm
  <1>. QED
    BY <1>1, <1>2, <1>3, <1>4

(* The C type bound for a column is as wide as what its buffer stores.     *)
LEMMA BindWidth ==
  ASSUME NEW code, NEW t, t = C!from_odbc(code), t # "unknown", C!Category(t) # "w_string"
  PROVE  C!CBytesOf[C!to_odbc_c(t)] = C!BytesOf[C!attr_storage_type(t)]
  <1>1. DOMAIN C!Atomic = AtomicTypes
    BY DEF C!Atomic, AtomicTypes
  <1>2. DOMAIN C!Moments = {"date", "time", "timestamp", "type_date", "type_time", "type_timestamp", "guid"}
    BY DEF C!Moments
  <1>3. t \in AtomicTypes \cup C!CStrings \cup C!BStrings \cup DOMAIN C!Moments \cup C!Intervals
    <2>1. t \notin C!WStrings
      BY CategoryOf
    <2>2. t \in AtomicTypes \cup C!CStrings \cup C!WStrings \cup C!BStrings \cup DOMAIN C!Moments \cup C!Intervals
      BY <1>2 DEF C!from_odbc, C!Or, AtomicTypes, C!CStrings, C!WStrings, C!BStrings, C!Intervals
    <2>. QED
      BY <2>1, <2>2
  <1>4. CASE t \in AtomicTypes
    <2>1. C!get_sql_mapping(t) = [category |-> "atomic", cpp_type |-> C!Atomic[t]]
      BY <1>1, <1>2, <1>4 DEF C!get_sql_mapping, AtomicTypes, C!CStrings, C!WStrings, C!BStrings, C!Intervals
    <2>2. C!attr_storage_type(t) = IF C!Atomic[t] = "bool" THEN "uint8_t" ELSE C!Atomic[t]
      BY <2>1 DEF C!attr_storage_type
    <2>3. C!to_odbc_c(t) =
            [integer |-> "SQL_C_SLONG", smallint |-> "SQL_C_SHORT", bigint |-> "SQL_C_SBIGINT",
             tiny_int |-> "SQL_C_STINYINT", float_ |-> "SQL_C_DOUBLE", real |-> "SQL_C_FLOAT",
             double_ |-> "SQL_C_DOUBLE", bit |-> "SQL_C_BIT"][t]
      BY <1>1, <1>2, <1>4 DEF C!to_odbc_c, AtomicTypes, C!CStrings, C!WStrings, C!BStrings, C!Intervals
    <2>. QED
      BY <1>4, <2>2, <2>3 DEF AtomicTypes, C!Atomic, C!BytesOf, C!CBytesOf
  <1>5. CASE t \in C!CStrings
    <2>1. C!get_sql_mapping(t) = [category |-> "c_string", cpp_type |-> "char"]
      BY <1>1, <1>2, <1>5 DEF C!get_sql_mapping, AtomicTypes, C!CStrings, C!WStrings, C!BStrings, C!Intervals
    <2>2. C!to_odbc_c(t) = "SQL_C_CHAR"
      BY <1>1, <1>2, <1>5 DEF C!to_odbc_c, AtomicTypes, C!CStrings, C!WStrings, C!BStrings, C!Intervals
    <2>. QED
      BY <2>1, <2>2 DEF C!attr_storage_type, C!BytesOf, C!CBytesOf
  <1>6. CASE t \in C!BStrings
    <2>1. C!get_sql_mapping(t) = [category |-> "b_string", cpp_type |-> "uint8_t"]
      BY <1>1, <1>2, <1>6 DEF C!get_sql_mapping, AtomicTypes, C!CStrings, C!WStrings, C!BStrings, C!Intervals
    <2>2. C!to_odbc_c(t) = "SQL_C_BINARY"
      BY <1>1, <1>2, <1>6 DEF C!to_odbc_c, AtomicTypes, C!CStrings, C!WStrings, C!BStrings, C!Intervals
    <2>. QED
      BY <2>1, <2>2 DEF C!attr_storage_type, C!BytesOf, C!CBytesOf
  <1>7. CASE t \in C!Intervals
    <2>1. C!get_sql_mapping(t) = [category |-> "structure", cpp_type |-> "interval"]
      BY <1>1, <1>2, <1>7 DEF C!get_sql_mapping, AtomicTypes, C!CStrings, C!WStrings, C!BStrings, C!Intervals
    <2>2. C!to_odbc_c(t) = "SQL_C_INTERVAL"
      BY <1>1, <1>2, <1>7 DEF C!to_odbc_c, AtomicTypes, C!CStrings, C!WStrings, C!BStrings, C!Intervals
    <2>. QED
      BY <2>1, <2>2 DEF C!attr_storage_type, C!BytesOf, C!CBytesOf
  <1>8. CASE t \in DOMAIN C!Moments
    <2>1. C!get_sql_mapping(t) = [category |-> "structure", cpp_type |-> C!Moments[t]]
      BY <1>1, <1>2, <1>8 DEF C!get_sql_mapping, AtomicTypes, C!CStrings, C!WStrings, C!BStrings, C!Intervals
    <2>2. C!to_odbc_c(t) = [date |-> "SQL_C_TYPE_DATE", time |-> "SQL_C_TYPE_TIME",
                            timestamp |-> "SQL_C_TYPE_TIMESTAMP", guid |-> "SQL_C_GUID"][C!Moments[t]]
      BY <1>1, <1>2, <1>8 DEF C!to_odbc_c, AtomicTypes, C!CStrings, C!WStrings, C!BStrings, C!Intervals
    <2>3. C!Moments[t] \in {"date", "time", "timestamp", "guid"}
      BY <1>2, <1>8 DEF C!Moments
    <2>4. C!attr_storage_type(t) = C!Moments[t]
      BY <2>1, <2>3 DEF C!attr_storage_type
    <2>. QED
      BY <2>2, <2>3, <2>4 DEF C!BytesOf, C!CBytesOf
  <1>. QED
    BY <1>3, <1>4, <1>5, <1>6, <1>7, <1>8

(* A column's size is a count at every stage.                              *)
LEMMA ColumnTyped ==
  ASSUME NativesOK, ColumnInv, NEW c \in C!Columns
  PROVE  /\ c.size \in Nat /\ c.digits \in Nat /\ c.native \in Natives[backend]
         /\ c.type = TypeOf(backend, c.native.code)
  <1>0. PICK k \in C!Kinds : c \in C!ToSet(meta[k])
    BY EntryOf
  <1>1. PICK i \in DOMAIN meta[k] : ColumnOK(backend, yaml, stage, k, i, c)
    BY <1>0, EntryOf
  <1>2. PICK nat \in Natives[backend] : nat = c.native
    BY <1>1 DEF ColumnOK
  <1>3. backend \in DOMAIN Natives /\ stage \in {"describe", "named", "sized", "emitted"}
    BY DEF ColumnInv
  <1>4. SizeOf(backend, k, nat) \in Nat /\ DigitsOf(backend, k, nat) \in Nat
    BY <1>2, <1>3, SizeType
  <1>5. Width(yaml, c, SizeOf(backend, k, nat)) \in Nat
    <2>1. yaml.field_len \in FieldLens
      BY DEF ColumnInv
    <2>2. PICK f \in FieldLens : f = yaml.field_len
      BY <2>1
    <2>3. c.name \in DOMAIN f => f[c.name] \in Nat
      BY DEF NativesOK
    <2>4. Fallback \in Nat
      BY DEF NativesOK
    <2>. QED
      BY <1>4, <2>2, <2>3, <2>4 DEF Width, C!Or
  <1>6. c.size \in Nat
    BY <1>1, <1>2, <1>3, <1>4, <1>5 DEF ColumnOK
  <1>. QED
    BY <1>1, <1>2, <1>4, <1>6 DEF ColumnOK

(* note_helpers() follows attr_dump_value_to_string(), type by type.       *)
LEMMA HelperOf ==
  ASSUME NEW t
  PROVE  /\ C!note_helpers(t) \subseteq {"rtl_fmt", "utf8", "hex"}
         /\ "rtl_fmt" \in C!note_helpers(t) <=> C!attr_dump_value_to_string(t) = "fmt::format"
         /\ "utf8" \in C!note_helpers(t) <=> C!attr_dump_value_to_string(t) = "to_utf8"
         /\ "hex" \in C!note_helpers(t) <=> C!attr_dump_value_to_string(t) = "to_hex"
  <1>1. PICK g : g = C!Category(t)
    OBVIOUS
  <1>2. g \in {"atomic", "c_string", "w_string", "b_string", "structure"}
    BY <1>1, CategoryOf
  <1>3. C!note_helpers(t) = IF g = "structure" THEN {"rtl_fmt"} ELSE IF g = "w_string" THEN {"utf8"}
                            ELSE IF g = "b_string" THEN {"hex"} ELSE {}
    BY <1>1, <1>2 DEF C!note_helpers
  <1>4. C!attr_dump_value_to_string(t) = IF g = "structure" THEN "fmt::format" ELSE IF g = "w_string" THEN "to_utf8"
                                         ELSE IF g = "b_string" THEN "to_hex" ELSE "plain"
    BY <1>1, <1>2 DEF C!attr_dump_value_to_string
  <1>. QED
    BY <1>2, <1>3, <1>4

(* The types, from the invariant.                                          *)
LEMMA TypesFact ==
  ASSUME NativesOK, ColumnInv
  PROVE  TypesAgree
  <1>1. backend \in {"psql", "db2"} /\ stage \in {"describe", "named", "sized", "emitted"}
    BY DEF ColumnInv, NativesOK
  <1>2. C!ToSet(meta["param"]) \subseteq C!Columns /\ C!ToSet(meta["result"]) \subseteq C!Columns
    BY DEF C!Columns
  <1>3. needs \subseteq {"rtl_fmt", "utf8", "hex"}
    <2>1. \A c \in C!Columns : C!note_helpers(c.type) \subseteq {"rtl_fmt", "utf8", "hex"}
      BY HelperOf
    <2>2. UNION {C!note_helpers(c.type) : c \in C!Columns} \subseteq {"rtl_fmt", "utf8", "hex"}
      BY <2>1
    <2>. QED
      BY <2>2 DEF ColumnInv
  <1>4. C!TypeOK
    BY <1>1, <1>3, ColumnTyped DEF C!TypeOK
  <1>5. C!OidStable
    <2>. SUFFICES ASSUME backend = "psql", NEW c \in C!ToSet(meta["param"])
                  PROVE  C!from_oid(C!to_oid(c.type)) = c.type
      BY DEF C!OidStable
    <2>1. c.type = C!from_oid(c.native.code)
      BY <1>2, ColumnTyped DEF TypeOf
    <2>2. PICK o : o = c.native.code
      OBVIOUS
    <2>. QED
      BY <2>1, <2>2, OidRoundTrip
  <1>6. C!ReaderMatches
    <2>. SUFFICES ASSUME backend = "psql", NEW c \in C!ToSet(meta["result"]), NEW o, o = c.native.code,
                         C!WireForm(o) # "bits"
                  PROVE  C!Category(c.type) = "b_string" <=> C!WireForm(o) = "hex"
      BY DEF C!ReaderMatches
    <2>1. c.type = C!from_oid(o)
      BY <1>2, ColumnTyped DEF TypeOf
    <2>. QED
      BY <2>1, ReaderOfWire
  <1>7. C!BindFits
    <2>. SUFFICES ASSUME backend = "db2", NEW c \in C!Columns, NEW t, t = c.type, t # "unknown",
                         C!Category(t) # "w_string"
                  PROVE  C!CBytesOf[C!to_odbc_c(t)] = C!BytesOf[C!attr_storage_type(t)]
      BY DEF C!BindFits
    <2>1. PICK code : code = c.native.code
      OBVIOUS
    <2>2. t = C!from_odbc(code)
      BY <2>1, ColumnTyped DEF TypeOf
    <2>. QED
      BY <2>2, BindWidth
  <1>8. C!HelpersMatch
    <2>. SUFFICES ASSUME stage = "emitted", NEW used, used = {C!attr_dump_value_to_string(c.type) : c \in C!Columns}
                  PROVE  /\ "rtl_fmt" \in needs <=> "fmt::format" \in used
                         /\ "utf8" \in needs <=> "to_utf8" \in used
                         /\ "hex" \in needs <=> "to_hex" \in used
      BY DEF C!HelpersMatch
    <2>1. needs = UNION {C!note_helpers(c.type) : c \in C!Columns}
      BY DEF ColumnInv
    <2>2. ASSUME NEW h, NEW d, \A t : h \in C!note_helpers(t) <=> C!attr_dump_value_to_string(t) = d
          PROVE  h \in needs <=> d \in used
      BY <2>1, <2>2
    <2>3. /\ \A t : "rtl_fmt" \in C!note_helpers(t) <=> C!attr_dump_value_to_string(t) = "fmt::format"
          /\ \A t : "utf8" \in C!note_helpers(t) <=> C!attr_dump_value_to_string(t) = "to_utf8"
          /\ \A t : "hex" \in C!note_helpers(t) <=> C!attr_dump_value_to_string(t) = "to_hex"
      BY HelperOf
    <2>. QED
      BY <2>2, <2>3
  <1>. QED
    BY <1>4, <1>5, <1>6, <1>7, <1>8 DEF TypesAgree

(* get_sql_metadata(), push_column_names() and apply_field_len(), for any  *)
(* native types, names and field-len maps: a column is as wide as the      *)
(* database declares, the yaml file says or the fallback, in this order.   *)
THEOREM WidthsAreKept == C!Spec => []WidthsKept
  <1>. USE StatementColumnsAssumption
  <1>1. C!Init => ColumnInv
    BY ColumnInit
  <1>2. ColumnInv /\ [C!Next]_(C!vars) => ColumnInv'
    BY ColumnStep
  <1>3. ColumnInv => WidthsKept
    BY WidthsFact
  <1>. QED
    BY <1>1, <1>2, <1>3, PTL DEF C!Spec

(* The oid declared, the reader, the C type bound and the dump helpers of  *)
(* a column are chosen in four places and agree, for any native types.     *)
THEOREM TypesDoAgree == C!Spec => []TypesAgree
  <1>. USE StatementColumnsAssumption
  <1>1. C!Init => ColumnInv
    BY ColumnInit
  <1>2. ColumnInv /\ [C!Next]_(C!vars) => ColumnInv'
    BY ColumnStep
  <1>3. ColumnInv => TypesAgree
    BY TypesFact
  <1>. QED
    BY <1>1, <1>2, <1>3, PTL DEF C!Spec
=============================================================================
