------------------------------ MODULE YamlInput ------------------------------
(***************************************************************************)
(* Reading a yaml file: parse_yaml.cpp / parse_yaml.hpp (typed access to   *)
(* nodes, defaults), parser::parse_yaml_file(), parse_yaml_string() and    *)
(* parse_yaml_file_json() of parser.cpp, and the statement map of          *)
(* data_statements.cpp.  A node is its kind and its value; a scalar that is*)
(* not a number, or nothing but blanks, is a kind of its own.  Every       *)
(* log_().error() adds to complaints; traces are left out.  before,        *)
(* par-buf-size and parameter-names stand for their twins after,           *)
(* res-buf-size and result-names, which are read and set the same way.     *)
(***************************************************************************)
EXTENDS Naturals, Sequences, FiniteSets, SequencesExt, YamlNode

CONSTANTS Entries,   \* statement entries a file may hold: records of nodes
          MaxStmts   \* bound: entries of the file

Blanks == "blanks"  \* a string of nothing but whitespace
NoText == ""

VARIABLES via,         \* "file" or "string"
          root,        \* what yaml-cpp made of it: "none", "syntax", "unreadable", "other", "list", "map"
          left,        \* entries not parsed yet
          read,        \* entries parsed, in order
          stmts,       \* id |-> data_statement
          sts,         \* "reading", or the exit status
          complaints   \* errors logged
vars == <<via, root, left, read, stmts, sts, complaints>>

-----------------------------------------------------------------------------
(* exists(), is_map(), and get<T>(): a missing node and one that does not  *)
(* convert are both errors, of which only the latter is logged as one;     *)
(* get_or() answers the default for either.                                *)
exists(n) == n.kind \notin {"absent", "null"}
is_map(n) == exists(n) /\ n.kind = "map"
AsString(n) ==
  CASE n.kind = "blank" -> Blanks [] n.kind = "text" -> n.content [] n.kind = "number" -> ToString(n.content)
StringOK(n) == n.kind \in {"text", "blank", "number"}
SizeOK(n) == n.kind = "number"
Complains(n, ok) == IF exists(n) /\ ~ok THEN 1 ELSE 0
get_or_string(n, def) == IF StringOK(n) THEN AsString(n) ELSE def
get_or_size(n, def) == IF SizeOK(n) THEN n.content ELSE def

(* get_seq_of_strings_or(): one item that is no scalar spoils the list.    *)
SeqOK(n) == n.kind = "seq" /\ \A i \in DOMAIN n.content : StringOK(n.content[i])
get_seq_of_strings_or(n) == IF SeqOK(n) THEN [i \in DOMAIN n.content |-> AsString(n.content[i])] ELSE <<>>

(* get_map_of_sizes_or(): a bad entry is skipped, and complained about.    *)
GoodLens(m) == {k \in DOMAIN m : SizeOK(m[k])}
get_map_of_sizes_or(n) == IF is_map(n) THEN [k \in GoodLens(n.content) |-> n.content[k].content] ELSE <<>>
FaultySizeComplaints(n) == Complains(n, is_map(n))
SizeComplaints(n) ==
  IF is_map(n) THEN Cardinality(DOMAIN n.content \ GoodLens(n.content)) ELSE Complains(n, FALSE)

(* resolve_dialect_sql(): the general sql, then the backend's own over it. *)
resolve_dialect_sql(m) == get_or_string(m.psql, get_or_string(m.sql, NoText))
DialectComplaints(m) == Complains(m.sql, StringOK(m.sql)) + Complains(m.psql, StringOK(m.psql))
Hook(n) == IF is_map(n) THEN resolve_dialect_sql(n.content) ELSE NoText
HookComplaints(n) == IF is_map(n) THEN DialectComplaints(n.content) ELSE 0

(* The setters of data_statement; set_sql() trims.                         *)
Trimmed(s) == IF s = Blanks THEN NoText ELSE s
Statement(e) ==
  [sql |-> Trimmed(resolve_dialect_sql(e)), before_sql |-> Trimmed(Hook(e.before)),
   par_buf_size |-> get_or_size(e.par_buf_size, 1), field_len |-> get_map_of_sizes_or(e.field_len),
   param_names |-> get_seq_of_strings_or(e.parameter_names)]
EntryComplaints(e) ==
  DialectComplaints(e) + HookComplaints(e.before) + Complains(e.par_buf_size, SizeOK(e.par_buf_size))
    + SizeComplaints(e.field_len) + Complains(e.parameter_names, SeqOK(e.parameter_names))
    + Complains(e.id, StringOK(e.id))

-----------------------------------------------------------------------------
Init ==
  /\ via \in {"file", "string"} /\ root = "none" /\ left = <<>> /\ read = <<>>
  /\ stmts = <<>> /\ sts = "reading" /\ complaints = 0

Return(answer, errors) == sts' = answer /\ complaints' = complaints + errors

(* load() and load_from_string() answer any YAML::Exception with an Error; *)
(* the two callers make different statuses of it.                          *)
Load ==
  /\ root = "none" /\ sts = "reading"
  /\ \/ /\ \E r \in {"syntax"} \cup (IF via = "file" THEN {"unreadable"} ELSE {}) : root' = r
        /\ Return(IF via = "file" THEN "file_cant_be_open" ELSE "yaml_syntax_error", 0)
        /\ UNCHANGED left
     \/ /\ root' \in {"other", "list", "map"}
        /\ left' \in IF root' = "map" THEN UNION {[1..n -> Entries] : n \in 0..MaxStmts} ELSE {<<>>}
        /\ UNCHANGED <<sts, complaints>>
  /\ UNCHANGED <<via, read, stmts>>

(* get_seq_of_maps("statements"): missing, no sequence, or an item that is *)
(* no map.                                                                 *)
NoStatements ==
  /\ root \in {"other", "list"} /\ sts = "reading"
  /\ Return("statements_attr_missing", IF root = "list" THEN 2 ELSE 1)
  /\ UNCHANGED <<via, root, left, read, stmts>>

(* One turn of the loop of parse_yaml_file_json(), for entry e.  The checks*)
(* come in this order; add_statement() keeps the first of two equal ids.   *)
Consume(e) == left' = Tail(left) /\ read' = Append(read, e)
NoId(e) ==
  /\ ~StringOK(e.id)
  /\ Consume(e) /\ Return("stmt_unique_id_is_missing", EntryComplaints(e) + 1) /\ UNCHANGED stmts
NoSql(e) ==
  /\ StringOK(e.id) /\ resolve_dialect_sql(e) = NoText
  /\ Consume(e) /\ Return("no_sql_stmt_found", EntryComplaints(e) + 1) /\ UNCHANGED stmts
Taken(id) == id \in DOMAIN stmts
Duplicate(e) ==
  /\ StringOK(e.id) /\ resolve_dialect_sql(e) # NoText /\ Taken(AsString(e.id))
  /\ Consume(e) /\ Return("duplicated_stmt_id", EntryComplaints(e) + 2) /\ UNCHANGED stmts
add_statement(id, s) == [i \in DOMAIN stmts \cup {id} |-> IF i = id THEN s ELSE stmts[i]]
Add(e) ==
  /\ StringOK(e.id) /\ resolve_dialect_sql(e) # NoText /\ ~Taken(AsString(e.id))
  /\ Consume(e) /\ stmts' = add_statement(AsString(e.id), Statement(e))
  /\ complaints' = complaints + EntryComplaints(e) /\ UNCHANGED sts
Entry ==
  /\ sts = "reading" /\ left # <<>>
  /\ LET e == Head(left) IN NoId(e) \/ NoSql(e) \/ Duplicate(e) \/ Add(e)
  /\ UNCHANGED <<via, root>>

Finish ==
  /\ root = "map" /\ sts = "reading" /\ left = <<>>
  /\ Return("ok", 0) /\ UNCHANGED <<via, root, left, read, stmts>>
Done == sts # "reading" /\ UNCHANGED vars

Next == Load \/ NoStatements \/ Entry \/ Finish \/ Done
Spec == Init /\ [][Next]_vars

-----------------------------------------------------------------------------
(* A file that is accepted has every one of its statements in the map, each*)
(* under its own id: none is lost to another of the same id.               *)
AllKept == sts = "ok" => Cardinality(DOMAIN stmts) = Len(read) /\ left = <<>>

(* "A malformed entry is skipped with a warning rather than failing the    *)
(* whole file, so one bad width does not stop code generation": every good *)
(* width of an accepted file is in force.                                  *)
GoodWidthsKept ==
  sts = "ok" =>
    \A i \in DOMAIN read :
      LET e == read[i]  len == stmts[AsString(e.id)].field_len IN
      is_map(e.field_len) =>
        \A k \in GoodLens(e.field_len.content) : k \in DOMAIN len /\ len[k] = e.field_len.content[k].content

(* What a statement says and does not get is complained about: a run      *)
(* without a complaint has its sql, the backend's own before the general   *)
(* one, those of its hooks, its sizes and its names as written.  (A before *)
(* or after that is no map is not among it: parser.cpp passes over it and  *)
(* says nothing.)                                                          *)
SqlAsWritten(m, sql) ==
  LET own == IF exists(m.psql) THEN m.psql ELSE m.sql IN
  exists(own) => StringOK(own) /\ sql = Trimmed(AsString(own))
SilentMeansAsWritten ==
  sts = "ok" /\ complaints = 0 =>
    \A i \in DOMAIN read :
      LET e == read[i]  s == stmts[AsString(e.id)] IN
      /\ SqlAsWritten(e, s.sql)
      /\ is_map(e.before) => SqlAsWritten(e.before.content, s.before_sql)
      /\ exists(e.par_buf_size) => SizeOK(e.par_buf_size) /\ s.par_buf_size = e.par_buf_size.content
      /\ exists(e.field_len) => is_map(e.field_len) /\ DOMAIN s.field_len = DOMAIN e.field_len.content
      /\ exists(e.parameter_names) => Len(s.param_names) = Len(e.parameter_names.content)

-----------------------------------------------------------------------------
(* What the repository says and the code does not do; TLC refutes each on  *)
(* a small instance.                                                       *)

(* parser.cpp: "absent means one row - the buffer a statement gets when the*)
(* yaml says nothing about batching".                                      *)
DefaultOnlyWhenAbsent ==
  sts = "ok" => \A i \in DOMAIN read : exists(read[i].par_buf_size) => SizeOK(read[i].par_buf_size)

(* "before / after (optional) - sub-maps" (the user's guide): one that is  *)
(* a plain string is no part of an accepted file without a complaint.      *)
HooksTold ==
  sts = "ok" /\ complaints = 0 => \A i \in DOMAIN read : exists(read[i].before) => is_map(read[i].before)

(* parser_errors.hpp: no_sql_stmt_found, "sql statement is missing in the  *)
(* statement definition in yaml file".                                     *)
EveryStatementHasSql == sts = "ok" => \A id \in DOMAIN stmts : stmts[id].sql # NoText

(* parser_errors.hpp: yaml_syntax_error, "there is syntax error in the yaml*)
(* file".                                                                  *)
SyntaxNamed == root = "syntax" => sts = "yaml_syntax_error"
=============================================================================
