----------------------------- MODULE MCSequential -----------------------------
(* ValueText, TextTools, ErrorStatus, YamlInput and ColumnTypes for TLC.   *)
(* They share no state: a behaviour is one of a single part and leaves the *)
(* others at their initial states.                                         *)
EXTENDS Integers, Sequences, YamlNode, Conversions, YamlFile, StatementColumns

values == <<ts, blob>>
texts == <<text, wide>>
errors == <<fault, err>>
files == <<via, root, left, read, stmts, sts, complaints>>
columns == <<backend, meta, yaml, stage, needs>>
vars == <<part, values, texts, errors, files, columns>>

(* Entries that vary in what identifies them, entries that vary in what    *)
(* they add, and one whose sql is blank.                                   *)
Base == [id |-> TextNode("a"), sql |-> TextNode("s"), psql |-> NoNode, before |-> NoNode,
         par_buf_size |-> NoNode, field_len |-> NoNode, parameter_names |-> NoNode]
Hooks == {NoNode, TextNode("h"), MapNode([sql |-> TextNode("h"), psql |-> TextNode("hp")]),
          MapNode([sql |-> BlankNode, psql |-> MapNode(<<>>)])}
Lens == {NoNode, NumberNode(4), MapNode([x |-> NumberNode(4), y |-> TextNode("wide")])}
NameLists == {NoNode, NullNode, TextNode("n"), SeqNode(<<TextNode("n"), TextNode("m")>>),
              SeqNode(<<MapNode(<<>>)>>)}
Identified ==
  {[Base EXCEPT !.id = i, !.sql = s, !.psql = p] :
     i \in {NoNode, MapNode(<<>>), TextNode("a"), TextNode("7"), NumberNode(7)}, s \in {NoNode, TextNode("s")},
     p \in {NoNode, MapNode(<<>>), TextNode("p")}}
Detailed ==
  {[Base EXCEPT !.id = TextNode("b"), !.before = h, !.par_buf_size = z, !.field_len = l, !.parameter_names = n] :
     h \in Hooks, z \in {NoNode, NumberNode(5), TextNode("many")}, l \in Lens, n \in NameLists}
AllEntries == Identified \cup Detailed \cup {[Base EXCEPT !.sql = BlankNode]}

(* The native types of a run, and what the yaml entries say of columns.    *)
Nat3(code, n, s) == [code |-> code, n |-> n, s |-> s]
Plain(codes) == {Nat3(c, 0, 0) : c \in codes}
PsqlNatives ==
  Plain({"boolean", "int2", "int4", "int8", "oid", "float4", "float8", "char_", "bpchar", "varchar", "name", "text",
         "json", "jsonb", "xml", "numeric", "bytea", "date", "time", "timetz", "timestamp", "timestamptz", "interval",
         "uuid", "inet", "bit"})
    \cup {Nat3("bpchar", 1, 0), Nat3("varchar", 20, 0), Nat3("numeric", 9, 2)}
Db2Natives ==
  Plain({"SQL_INTEGER", "SQL_SMALLINT", "SQL_BIGINT", "SQL_TINYINT", "SQL_FLOAT", "SQL_REAL", "SQL_DOUBLE", "SQL_BIT",
         "SQL_CLOB", "SQL_XML", "SQL_DATE", "SQL_TIME", "SQL_TYPE_TIMESTAMP", "SQL_INTERVAL_DAY_TO_SECOND", "SQL_GUID",
         "SQL_LONGVARGRAPHIC", "SQL_DBCLOB"})
    \cup {Nat3("SQL_CHAR", 1, 0), Nat3("SQL_VARCHAR", 20, 0), Nat3("SQL_DECIMAL", 9, 2), Nat3("SQL_VARBINARY", 8, 0),
          Nat3("SQL_WVARCHAR", 20, 0)}
AllNatives == [psql |-> PsqlNatives, db2 |-> Db2Natives]

SomeNames == {<<>>, <<"a">>, <<"b">>}
SomeLens == {[c \in {} |-> 0], [a |-> 7], [par_1 |-> 7, b |-> 9]}

Unnamed == [names |-> [k \in C!Kinds |-> <<>>], field_len |-> [c \in {} |-> 0]]

Init ==
  /\ part \in {"times", "bytes", "texts", "wide", "errors", "file", "columns"}
  /\ V!Init /\ T!Init /\ E!Init /\ Y!Init /\ C!Init
  /\ part # "file" => via = "file"
  /\ part # "columns" => backend = "psql" /\ yaml = Unnamed

Values ==
  /\ part \in {"times", "bytes"} /\ V!Next /\ (part = "times" <=> UNCHANGED blob)
  /\ UNCHANGED <<part, texts, errors, files, columns>>
Texts ==
  /\ part \in {"texts", "wide"} /\ T!Next /\ (part = "texts" <=> UNCHANGED wide)
  /\ UNCHANGED <<part, values, errors, files, columns>>
Errors == part = "errors" /\ E!Next /\ UNCHANGED <<part, values, texts, files, columns>>
File   == part = "file"   /\ Y!Next /\ UNCHANGED <<part, values, texts, errors, columns>>
Column == part = "columns" /\ C!Next /\ UNCHANGED <<part, values, texts, errors, files>>

Next == Values \/ Texts \/ Errors \/ File \/ Column
Spec == Init /\ [][Next]_vars
=============================================================================
