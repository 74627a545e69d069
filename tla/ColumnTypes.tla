----------------------------- MODULE ColumnTypes -----------------------------
(***************************************************************************)
(* From what a database reports of a statement's parameters and columns to *)
(* the members of the generated buffers: get_sql_metadata() of a backend   *)
(* with its type tables (psql_types.hpp, db2_types.hpp), the neutral table *)
(* of sql_types.hpp, push_column_names() and apply_field_len() of          *)
(* data_statement.hpp and internal_model_to_json() of generator.cpp, and   *)
(* what query::prepare() declares and binds from it at run time.  A native *)
(* type is a code with its declared length n and scale s, 0 when none.     *)
(***************************************************************************)
EXTENDS Integers, Sequences, SequencesExt

CONSTANTS Natives,    \* native types [code, n, s] a statement may use, by backend
          Names,      \* column names the database reports
          Renamings,  \* lists of names a yaml file may give
          FieldLens,  \* field-len maps a yaml file may give
          Fallback,   \* --max-field-len
          MaxCols     \* bound: parameters, and columns, of the statement

Kinds == {"param", "result"}

VARIABLES backend,  \* the one the program was built for
          meta,   \* [Kinds -> Seq(meta_dscr)], native kept with each
          yaml,   \* names and field-len of the statement's yaml entry
          stage,  \* "describe", "named", "sized", "emitted"
          needs   \* helper headers the template includes
vars == <<backend, meta, yaml, stage, needs>>

Or(table, key, default) == IF key \in DOMAIN table THEN table[key] ELSE default

-----------------------------------------------------------------------------
(* sql_types.hpp: category and C++ type of each neutral type.              *)
Atomic == [integer |-> "int32_t", smallint |-> "int16_t", bigint |-> "int64_t", tiny_int |-> "int8_t",
           float_ |-> "double", real |-> "float", double_ |-> "double", bit |-> "bool"]
CStrings == {"char_", "numeric", "decimal", "var_char", "decfloat", "long_var_char", "clob", "xml"}
WStrings == {"wchar", "wvar_char", "wlong_var_char", "dbclob"}
BStrings == {"graphic", "var_graphic", "binary", "var_binary", "long_var_binary", "blob"}
Intervals == {"interval_year", "interval_month", "interval_year_to_month", "interval_day", "interval_hour",
              "interval_minute", "interval_second", "interval_day_to_hour", "interval_day_to_minute",
              "interval_day_to_second", "interval_hour_to_minute", "interval_hour_to_second",
              "interval_minute_to_second"}
Moments == [date |-> "date", time |-> "time", timestamp |-> "timestamp", type_date |-> "date",
            type_time |-> "time", type_timestamp |-> "timestamp", guid |-> "guid"]
get_sql_mapping(t) ==
  CASE t \in DOMAIN Atomic  -> [category |-> "atomic", cpp_type |-> Atomic[t]]
    [] t \in CStrings       -> [category |-> "c_string", cpp_type |-> "char"]
    [] t \in WStrings       -> [category |-> "w_string", cpp_type |-> "wchar_t"]
    [] t \in BStrings       -> [category |-> "b_string", cpp_type |-> "uint8_t"]
    [] t \in DOMAIN Moments -> [category |-> "structure", cpp_type |-> Moments[t]]
    [] t \in Intervals      -> [category |-> "structure", cpp_type |-> "interval"]
    [] OTHER                -> [category |-> "structure", cpp_type |-> "void"]
Category(t) == get_sql_mapping(t).category
IsString(t) == Category(t) \in {"c_string", "w_string", "b_string"}

(* psql_types.hpp.  A typmod carries n, or precision and scale, behind a   *)
(* four byte header; -1 says that nothing was declared.                    *)
from_oid(o) ==
  Or([boolean |-> "bit", int2 |-> "smallint", int4 |-> "integer", int8 |-> "bigint", oid |-> "bigint",
      float4 |-> "real", float8 |-> "double_", char_ |-> "char_", bpchar |-> "char_", name |-> "var_char",
      varchar |-> "var_char", text |-> "long_var_char", json |-> "long_var_char", jsonb |-> "long_var_char",
      xml |-> "xml", numeric |-> "numeric", bytea |-> "var_binary", bit |-> "var_binary",
      varbit |-> "var_binary", date |-> "type_date", time |-> "type_time", timetz |-> "type_time",
      timestamp |-> "type_timestamp", timestamptz |-> "type_timestamp",
      interval |-> "interval_day_to_second", uuid |-> "guid"], o, "unknown")
OidOf == [bit |-> "boolean", smallint |-> "int2", integer |-> "int4", bigint |-> "int8", tiny_int |-> "int2",
          real |-> "float4", float_ |-> "float8", double_ |-> "float8", char_ |-> "bpchar",
          var_char |-> "varchar", long_var_char |-> "text", clob |-> "text", xml |-> "xml",
          numeric |-> "numeric", decimal |-> "numeric", decfloat |-> "numeric", binary |-> "bytea",
          var_binary |-> "bytea", long_var_binary |-> "bytea", blob |-> "bytea", date |-> "date",
          type_date |-> "date", time |-> "time", type_time |-> "time", timestamp |-> "timestamp",
          type_timestamp |-> "timestamp", guid |-> "uuid"]
to_oid(t) == IF t \in Intervals THEN "interval" ELSE Or(OidOf, t, "unspecified")

TypmodOf(nat) ==
  CASE nat.n = 0                           -> -1
    [] nat.n > 0 /\ nat.code = "numeric"   -> nat.n * 65536 + nat.s + 4
    [] OTHER                               -> nat.n + 4
FixedSize(o) ==
  Or([boolean |-> 1, int2 |-> 2, int4 |-> 4, oid |-> 4, int8 |-> 8, float4 |-> 4, float8 |-> 8, char_ |-> 1,
      date |-> 4, time |-> 8, timestamp |-> 8, timestamptz |-> 8, timetz |-> 12, interval |-> 16,
      uuid |-> 16], o, -1)
Unbounded == {"text", "json", "jsonb", "xml", "bytea", "bit", "varbit", "name"}
column_width(o, typmod, size) ==
  CASE o \in {"bpchar", "varchar"} -> IF typmod > 4 THEN typmod - 4 ELSE 0
    [] o = "numeric"               -> 64
    [] o = "uuid"                  -> 36
    [] o \in Unbounded             -> 0
    [] OTHER                       -> IF size > 0 THEN size ELSE 0
column_scale(o, typmod) == IF o # "numeric" \/ typmod < 4 THEN 0 ELSE (typmod - 4) % 65536

(* db2_types.hpp: the ODBC codes, and the C types columns are bound as.    *)
from_odbc(c) ==
  Or([SQL_INTEGER |-> "integer", SQL_SMALLINT |-> "smallint", SQL_BIGINT |-> "bigint",
      SQL_TINYINT |-> "tiny_int", SQL_FLOAT |-> "float_", SQL_REAL |-> "real", SQL_DOUBLE |-> "double_",
      SQL_BIT |-> "bit", SQL_CHAR |-> "char_", SQL_NUMERIC |-> "numeric", SQL_DECIMAL |-> "decimal",
      SQL_VARCHAR |-> "var_char", SQL_DECFLOAT |-> "decfloat", SQL_LONGVARCHAR |-> "long_var_char",
      SQL_CLOB |-> "clob", SQL_XML |-> "xml", SQL_WCHAR |-> "wchar", SQL_WVARCHAR |-> "wvar_char",
      SQL_WLONGVARCHAR |-> "wlong_var_char", SQL_DBCLOB |-> "dbclob", SQL_GRAPHIC |-> "graphic",
      SQL_VARGRAPHIC |-> "var_graphic", SQL_BINARY |-> "binary", SQL_VARBINARY |-> "var_binary",
      SQL_LONGVARBINARY |-> "long_var_binary", SQL_BLOB |-> "blob", SQL_DATE |-> "date", SQL_TIME |-> "time",
      SQL_TIMESTAMP |-> "timestamp", SQL_TYPE_DATE |-> "type_date", SQL_TYPE_TIME |-> "type_time",
      SQL_TYPE_TIMESTAMP |-> "type_timestamp",
      SQL_INTERVAL_YEAR |-> "interval_year", SQL_INTERVAL_MONTH |-> "interval_month",
      SQL_INTERVAL_YEAR_TO_MONTH |-> "interval_year_to_month", SQL_INTERVAL_DAY |-> "interval_day",
      SQL_INTERVAL_HOUR |-> "interval_hour", SQL_INTERVAL_MINUTE |-> "interval_minute",
      SQL_INTERVAL_SECOND |-> "interval_second", SQL_INTERVAL_DAY_TO_HOUR |-> "interval_day_to_hour",
      SQL_INTERVAL_DAY_TO_MINUTE |-> "interval_day_to_minute",
      SQL_INTERVAL_DAY_TO_SECOND |-> "interval_day_to_second",
      SQL_INTERVAL_HOUR_TO_MINUTE |-> "interval_hour_to_minute",
      SQL_INTERVAL_HOUR_TO_SECOND |-> "interval_hour_to_second",
      SQL_INTERVAL_MINUTE_TO_SECOND |-> "interval_minute_to_second",
      SQL_GUID |-> "guid"], c, "unknown")
FaultyToOdbcC(t) == IF t \in {"real", "float_", "double_"} THEN "SQL_C_DOUBLE" ELSE "SQL_C_CHAR"
to_odbc_c(t) ==
  CASE t \in DOMAIN Atomic ->
         [integer |-> "SQL_C_SLONG", smallint |-> "SQL_C_SHORT", bigint |-> "SQL_C_SBIGINT",
          tiny_int |-> "SQL_C_STINYINT", float_ |-> "SQL_C_DOUBLE", real |-> "SQL_C_FLOAT",
          double_ |-> "SQL_C_DOUBLE", bit |-> "SQL_C_BIT"][t]
    [] t \in CStrings       -> "SQL_C_CHAR"
    [] t \in WStrings       -> "SQL_C_WCHAR"
    [] t \in BStrings       -> "SQL_C_BINARY"
    [] t \in Intervals      -> "SQL_C_INTERVAL"
    [] t \in DOMAIN Moments -> [date |-> "SQL_C_TYPE_DATE", time |-> "SQL_C_TYPE_TIME",
                                timestamp |-> "SQL_C_TYPE_TIMESTAMP", guid |-> "SQL_C_GUID"][Moments[t]]
    [] OTHER                -> "SQL_C_DEFAULT"

-----------------------------------------------------------------------------
(* get_sql_metadata(): one entry per parameter, then one per column.  libpq*)
(* tells nothing of a parameter but its type; Db2 reports all of each.     *)
ParDscr(nat) ==
  IF backend = "psql"
  THEN [native |-> nat, type |-> from_oid(nat.code), size |-> column_width(nat.code, -1, -1), digits |-> 0]
  ELSE [native |-> nat, type |-> from_odbc(nat.code), size |-> nat.n, digits |-> nat.s]
ColDscr(nat) ==
  IF backend = "psql"
  THEN [native |-> nat, type |-> from_oid(nat.code),
        size |-> column_width(nat.code, TypmodOf(nat), FixedSize(nat.code)),
        digits |-> column_scale(nat.code, TypmodOf(nat))]
  ELSE [native |-> nat, type |-> from_odbc(nat.code), size |-> nat.n, digits |-> nat.s]
Named(dscr, name) ==
  [name |-> name, native |-> dscr.native, type |-> dscr.type, size |-> dscr.size, digits |-> dscr.digits]
ParName(i) == <<"par_1", "par_2", "par_3">>[i]

Init ==
  /\ backend \in DOMAIN Natives
  /\ meta = [k \in Kinds |-> <<>>]
  /\ yaml \in [names : [Kinds -> Renamings], field_len : FieldLens]
  /\ stage = "describe" /\ needs = {}

DescribeParam ==
  /\ stage = "describe" /\ meta["result"] = <<>> /\ Len(meta["param"]) < MaxCols
  /\ \E nat \in Natives[backend] :
       meta' = [meta EXCEPT !["param"] = Append(@, Named(ParDscr(nat), ParName(Len(@) + 1)))]
  /\ UNCHANGED <<backend, yaml, stage, needs>>

DescribeCol ==
  /\ stage = "describe" /\ Len(meta["result"]) < MaxCols
  /\ \E nat \in Natives[backend], name \in Names :
       meta' = [meta EXCEPT !["result"] = Append(@, Named(ColDscr(nat), name))]
  /\ UNCHANGED <<backend, yaml, stage, needs>>

(* push_column_names(): as many as both lists have.                        *)
push_column_names ==
  /\ stage = "describe" /\ stage' = "named"
  /\ meta' = [k \in Kinds |-> [i \in DOMAIN meta[k] |->
                [meta[k][i] EXCEPT !.name = IF i <= Len(yaml.names[k]) THEN yaml.names[k][i] ELSE @]]]
  /\ UNCHANGED <<backend, yaml, needs>>

(* apply_field_len(): an entry for the column's name wins, for a string;   *)
(* the fallback is for strings without a width.                            *)
FaultySettled(col) ==
  [col EXCEPT !.size = IF IsString(col.type) /\ @ = 0 THEN Or(yaml.field_len, col.name, Fallback) ELSE @]
Settled(col) ==
  [col EXCEPT !.size =
     CASE col.name \in DOMAIN yaml.field_len /\ IsString(col.type) -> yaml.field_len[col.name]
       [] col.name \notin DOMAIN yaml.field_len /\ IsString(col.type) /\ @ = 0 -> Fallback
       [] OTHER -> @]
apply_field_len ==
  /\ stage = "named" /\ stage' = "sized"
  /\ meta' = [k \in Kinds |-> [i \in DOMAIN meta[k] |-> Settled(meta[k][i])]]
  /\ UNCHANGED <<backend, yaml, needs>>

(* internal_model_to_json(): the helper headers, noted column by column.   *)
note_helpers(t) == CASE Category(t) = "structure" -> {"rtl_fmt"}
                     [] Category(t) = "w_string"  -> {"utf8"}
                     [] Category(t) = "b_string"  -> {"hex"}
                     [] OTHER                     -> {}
Columns == ToSet(meta["result"]) \cup ToSet(meta["param"])
internal_model_to_json ==
  /\ stage = "sized" /\ stage' = "emitted"
  /\ needs' = UNION {note_helpers(c.type) : c \in Columns}
  /\ UNCHANGED <<backend, meta, yaml>>

Done == stage = "emitted" /\ UNCHANGED vars

Next == DescribeParam \/ DescribeCol \/ push_column_names \/ apply_field_len \/ internal_model_to_json \/ Done
Spec == Init /\ [][Next]_vars

-----------------------------------------------------------------------------
(* The entries are complete meta_dscr values, and the stages follow.       *)
TypeOK ==
  /\ stage \in {"describe", "named", "sized", "emitted"} /\ needs \subseteq {"rtl_fmt", "utf8", "hex"}
  /\ \A c \in Columns : c.size \in Nat /\ c.digits \in Nat /\ c.native \in Natives[backend]

(* The typmod is taken apart as the server put it together: what a column  *)
(* declares (char(n), varchar(n), numeric(p, s)) is what the entry says.   *)
DeclaredKept ==
  stage = "describe" =>
    \A c \in ToSet(meta["result"]) :
      /\ c.native.code \in {"bpchar", "varchar"} => c.size = c.native.n
      /\ c.native.code = "numeric" => c.digits = c.native.s

(* apply_field_len() runs on the names the user chose: a string column     *)
(* gets the width its field-len entry names, else what the database        *)
(* declared, else the fallback, whichever list it is in.                   *)
Reported(k, nat) == IF k = "param" THEN ParDscr(nat).size ELSE ColDscr(nat).size
FinalName(k, i) == IF i <= Len(yaml.names[k]) THEN yaml.names[k][i] ELSE meta[k][i].name
WidthsSettled ==
  stage \in {"sized", "emitted"} =>
    \A k \in Kinds : \A i \in DOMAIN meta[k] :
      LET c == meta[k][i]  w == Reported(k, c.native) IN
      IsString(c.type) => c.size = Or(yaml.field_len, FinalName(k, i), IF w = 0 THEN Fallback ELSE w)

(* The generated dump() reaches for exactly the headers that are included: *)
(* note_helpers() follows attr_dump_value_to_string().                     *)
attr_dump_value_to_string(t) ==
  CASE Category(t) = "structure"              -> "fmt::format"
    [] Category(t) \in {"atomic", "c_string"} -> "plain"
    [] Category(t) = "w_string"               -> "to_utf8"
    [] Category(t) = "b_string"               -> "to_hex"
HelpersMatch ==
  stage = "emitted" =>
    LET used == {attr_dump_value_to_string(c.type) : c \in Columns} IN
    /\ "rtl_fmt" \in needs <=> "fmt::format" \in used
    /\ "utf8" \in needs <=> "to_utf8" \in used
    /\ "hex" \in needs <=> "to_hex" \in used

(* What the Db2 driver is told to read or write (to_odbc_c) is, unit for   *)
(* unit, what the buffer stores (attr_storage_type): the driver writes past*)
(* a smaller element, and half fills a larger one.  Wide strings are the   *)
(* exception: wchar_t has four bytes where this library is built.          *)
attr_storage_type(t) == IF get_sql_mapping(t).cpp_type = "bool" THEN "uint8_t" ELSE get_sql_mapping(t).cpp_type
BytesOf == [int32_t |-> 4, int16_t |-> 2, int64_t |-> 8, int8_t |-> 1, double |-> 8, float |-> 4, uint8_t |-> 1,
            char |-> 1, wchar_t |-> 4, date |-> 6, time |-> 6, timestamp |-> 16, interval |-> 28, guid |-> 16]
CBytesOf == [SQL_C_SLONG |-> 4, SQL_C_SHORT |-> 2, SQL_C_SBIGINT |-> 8, SQL_C_STINYINT |-> 1, SQL_C_DOUBLE |-> 8,
             SQL_C_FLOAT |-> 4, SQL_C_BIT |-> 1, SQL_C_CHAR |-> 1, SQL_C_WCHAR |-> 2, SQL_C_BINARY |-> 1,
             SQL_C_TYPE_DATE |-> 6, SQL_C_TYPE_TIME |-> 6, SQL_C_TYPE_TIMESTAMP |-> 16,
             SQL_C_INTERVAL |-> 28, SQL_C_GUID |-> 16]
BindFits ==
  backend = "db2" =>
    \A c \in Columns :
      c.type # "unknown" /\ Category(c.type) # "w_string" => CBytesOf[to_odbc_c(c.type)] = BytesOf[attr_storage_type(c.type)]

(* The types psql's prepare() declares for parameters are of the neutral   *)
(* type the buffers were generated for.                                    *)
OidStable == backend = "psql" => \A c \in ToSet(meta["param"]) : from_oid(to_oid(c.type)) = c.type

(* A value's text form on the wire is the one the category's reader        *)
(* (store_value) takes: bytea's hex for a b_string, and so on.  Bit        *)
(* strings, which arrive as digits 0 and 1, are the exception.             *)
WireForm(o) == IF o \in {"bit", "varbit"} THEN "bits" ELSE IF o = "bytea" THEN "hex" ELSE "text"
ReaderMatches ==
  backend = "psql" =>
    \A c \in ToSet(meta["result"]) :
      WireForm(c.native.code) # "bits" => (Category(c.type) = "b_string" <=> WireForm(c.native.code) = "hex")

-----------------------------------------------------------------------------
(* What the repository says and the code does not do; TLC refutes each on  *)
(* a small instance.                                                       *)

(* The comment of apply_field_len(): "A width of 0 would generate a zero   *)
(* sized array, so one has to come from somewhere".                        *)
NoZeroWidth == stage = "emitted" => \A c \in Columns : IsString(c.type) => c.size > 0

(* The server accepts the types psql's prepare() declares where the        *)
(* statement was described with the parameter's own type: it casts by      *)
(* itself between the listed ones.                                         *)
CastsTo == [varchar |-> {"name", "text", "bpchar"}, bpchar |-> {"char_", "varchar", "text"}, int8 |-> {"oid"},
            text |-> {"varchar", "bpchar", "name"}, time |-> {"timetz"}, timestamp |-> {"timestamptz"}]
ServerAccepts ==
  \A c \in ToSet(meta["param"]) :
    LET declared == to_oid(c.type) IN
    declared \in {c.native.code, "unspecified"} \/ c.native.code \in Or(CastsTo, declared, {})

(* "max width in characters or bytes" (meta_dscr): a number that travels as*)
(* text has room for its sign, its digits and its point.                   *)
NumberText(nat) == nat.n + 1 + (IF nat.s > 0 THEN 1 ELSE 0)
NumberFits ==
  stage = "emitted" =>
    \A c \in Columns :
      c.type \in {"numeric", "decimal"} /\ c.name \notin DOMAIN yaml.field_len /\ c.native.n > 0
        => NumberText(c.native) <= c.size
=============================================================================
