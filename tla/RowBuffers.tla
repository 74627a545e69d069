----------------------------- MODULE RowBuffers -----------------------------
(***************************************************************************)
(* The generated parameter and result buffers (dbgen4/gen/generator.cpp,   *)
(* config/buf_cpp.jinja, rtl/rtl.hpp) and the conversions between them and *)
(* PostgreSQL's text (rtl/psql/query.cpp, query.hpp).  The columns of a    *)
(* buffer are arrays of their own, so a buffer has one column here, of any *)
(* category: mem is that array, flat, one element per byte of a string and *)
(* one per row otherwise; ind holds the length indicators.                 *)
(***************************************************************************)
EXTENDS Integers, Sequences

CONSTANTS L,          \* l_<name>, the width of a string column
          MaxRows,    \* bound: rows of a buffer
          MaxMoves,   \* bound: times a storage is allocated
          Bytes,      \* the bytes strings are made of
          MaxLen,     \* bound: length of the strings callers and server use
          Years,      \* years of the dates callers and server use
          Null        \* a model value: SQL NULL

(* Two storages are allocated before the first step, and NULL is no text.  *)
ConstantsOK ==
  /\ {L, MaxRows, MaxLen} \subseteq Nat \ {0} /\ MaxMoves \in Nat \ {0, 1}
  /\ Bytes \subseteq Nat /\ Years \subseteq Nat /\ Null \notin UNION {[1..n -> Bytes] : n \in 0..MaxLen}

Cats == {"c_string", "w_string", "b_string", "atomic", "structure"}
Terminated == {"c_string", "w_string"}
StringCats == Terminated \cup {"b_string"}
null_data == -1
Day(y, bc) == [year |-> y, bc |-> bc]
Zero(c) == IF c = "structure" THEN Day(0, FALSE) ELSE 0

VARIABLES
  cat,   \* category of the column
  par,   \* the parameter buffer
  res,   \* the result buffer
  moves, \* storages allocated so far
  \* history
  want,  \* what the caller last put into each row of par
  got,   \* what the server last sent for each row of res
  wild,  \* a write left the array
  careless   \* a setter took a text of l_<name> + 1 characters, or row == buffer_size()

vars == <<cat, par, res, moves, want, got, wild, careless>>

(* attr_storage_type(): char[l+1], wchar_t[l+1], byte[l], or the C++ type. *)
Stride(c) == CASE c \in Terminated -> L + 1 [] c = "b_string" -> L [] OTHER -> 1
Offset(row) == (row - 1) * Stride(cat)

(* A value is a sequence: its bytes, or its one element.                   *)
Strings == UNION {[1..n -> Bytes] : n \in 0..MaxLen}
Values(eras) ==
  CASE cat \in StringCats -> Strings
    [] cat = "atomic"     -> {<<b>> : b \in Bytes}
    [] OTHER              -> {<<Day(y, bc)>> : y \in Years, bc \in eras}
CallerValues == Values({FALSE})
ServerValues == Values(BOOLEAN) \cup {Null}

-----------------------------------------------------------------------------
(* resize_storage(): every element {}, every indicator 0, and the row-wise *)
(* references taken anew, since the vectors have moved.                    *)
Sized(rows, store) ==
  [rows |-> rows, mem |-> [i \in 1..(rows * Stride(cat)) |-> Zero(cat)],
   ind |-> [r \in 1..rows |-> 0], store |-> store, refs |-> store,
   nulled |-> {}]   \* history: rows that were NULL
Fresh(rows) == [r \in 1..rows |-> IF cat \in StringCats THEN <<>> ELSE <<Zero(cat)>>]
Positive(n) == IF n = 0 THEN 1 ELSE n

Init ==
  /\ cat \in Cats
  /\ par = Sized(1, 1) /\ res = Sized(1, 2)
  /\ moves = 2 /\ want = Fresh(1) /\ got = <<>> /\ wild = FALSE /\ careless = FALSE

SizeParams(n) ==
  /\ moves < MaxMoves /\ moves' = moves + 1
  /\ par' = Sized(Positive(n), moves') /\ want' = Fresh(Positive(n))
  /\ UNCHANGED <<cat, res, got, wild, careless>>

SizeResults(n) ==
  /\ moves < MaxMoves /\ moves' = moves + 1
  /\ res' = Sized(Positive(n), moves') /\ got' = <<>>
  /\ UNCHANGED <<cat, par, want, wild, careless>>

(* Writing w at element at; what falls past the array lands elsewhere, and *)
(* from then on nothing can be said of what is read.                       *)
Put(mem, at, w) == [i \in DOMAIN mem |-> IF i \in (at + 1)..(at + Len(w)) THEN w[i - at] ELSE mem[i]]
Leaves(mem, at, w) == at + Len(w) > Len(mem)

(* set_<name>(v, row): rtl::set_value() for strings, with the array's own  *)
(* size for NetCapacity and a null behind the text; a plain assignment     *)
(* through at() otherwise.  All write the indicator.  set_value() takes a  *)
(* text as long as the array, whose null falls behind it, and the row      *)
(* behind the last one.                                                    *)
Refuses(v, row) ==
  IF cat \in StringCats THEN Len(v) > Stride(cat) \/ par.rows < row - 1 ELSE par.rows < row
Image(v) == IF cat \in Terminated THEN Append(v, 0) ELSE v
Careless(v, row) == row > par.rows \/ (cat \in Terminated /\ Len(v) > L)
Indicated(ind, row, v) == IF row \in DOMAIN ind THEN [ind EXCEPT ![row] = Len(v)] ELSE ind

Set(row, v) ==
  /\ ~Refuses(v, row)
  /\ par' = [par EXCEPT !.mem = Put(@, Offset(row), Image(v)), !.ind = Indicated(@, row, v)]
  /\ want' = IF row \in DOMAIN want THEN [want EXCEPT ![row] = v] ELSE want
  /\ wild' = (wild \/ row > par.rows \/ Leaves(par.mem, Offset(row), Image(v)))
  /\ careless' = (careless \/ Careless(v, row))
  /\ UNCHANGED <<cat, res, moves, got>>

SetRefused(row, v) ==
  /\ Refuses(v, row) /\ UNCHANGED vars

SetNull(row) ==
  /\ par' = [par EXCEPT !.ind[row] = null_data] /\ want' = [want EXCEPT ![row] = Null]
  /\ UNCHANGED <<cat, res, moves, got, wild, careless>>

reset_all_null ==
  /\ par' = [par EXCEPT !.ind = [r \in DOMAIN @ |-> null_data]]
  /\ want' = [r \in DOMAIN want |-> Null]
  /\ UNCHANGED <<cat, res, moves, got, wild, careless>>

(* The defaulted copy constructor: a storage of its own, the row-wise      *)
(* references those of the original.                                       *)
Copy ==
  /\ moves < MaxMoves /\ moves' = moves + 1
  /\ par' = [par EXCEPT !.store = moves']
  /\ UNCHANGED <<cat, res, want, got, wild, careless>>

-----------------------------------------------------------------------------
(* store_value(): strings are cut to the width and set their indicator,    *)
(* the others leave it; a date needs a year of four digits, and what       *)
(* follows the day ("BC") is not read; a wide string is not converted.     *)
Cut(v, n) == IF Len(v) > n THEN SubSeq(v, 1, n) ELSE v
FaultyStoredText(v) == Append(Cut(v, L + 1), 0)
StoredText(v) == Append(Cut(v, L), 0)
FaultyStoreCString(b, row, v) ==
  [b EXCEPT !.mem = Put(@, Offset(row), StoredText(v)), !.ind[row] = Len(Cut(v, L + 1))]
StoreCString(b, row, v) ==
  [b EXCEPT !.mem = Put(@, Offset(row), StoredText(v)), !.ind[row] = Len(Cut(v, L))]
StoreBString(b, row, v) ==
  [b EXCEPT !.mem = Put(@, Offset(row), Cut(v, L)), !.ind[row] = Len(Cut(v, L))]
StoreAtomic(b, row, v) == [b EXCEPT !.mem = Put(@, Offset(row), v)]
ParsesDate(v) == v[1].year < 10000
StoreStructure(b, row, v) == [b EXCEPT !.mem = Put(@, Offset(row), <<Day(v[1].year, FALSE)>>)]
StoreNull(b, row) == [b EXCEPT !.ind[row] = null_data, !.nulled = @ \cup {row}]

StoreValue(b, row, v) ==
  CASE cat = "c_string"                    -> StoreCString(b, row, v)
    [] cat = "b_string"                    -> StoreBString(b, row, v)
    [] cat = "atomic"                      -> StoreAtomic(b, row, v)
    [] cat = "structure" /\ ParsesDate(v)  -> StoreStructure(b, row, v)
    [] OTHER                               -> StoreNull(b, row)

StoreLeaves(b, row, v) ==
  \/ cat = "c_string" /\ Leaves(b.mem, Offset(row), StoredText(v))
  \/ cat = "b_string" /\ Leaves(b.mem, Offset(row), Cut(v, L))
  \/ cat \in {"atomic", "structure"} /\ Leaves(b.mem, Offset(row), v)

(* fetch() copies rows into the buffer from the first one on; a page may   *)
(* be shorter than the buffer.                                             *)
FetchRow(v) ==
  /\ Len(got) < res.rows
  /\ res' = IF v = Null THEN StoreNull(res, Len(got) + 1) ELSE StoreValue(res, Len(got) + 1, v)
  /\ got' = Append(got, v)
  /\ wild' = (wild \/ (v # Null /\ StoreLeaves(res, Len(got) + 1, v)))
  /\ UNCHANGED <<cat, par, moves, want, careless>>

NextPage ==
  /\ got # <<>> /\ got' = <<>>
  /\ UNCHANGED <<cat, par, res, moves, want, wild, careless>>

(* The generated getters, and marshal_row() with load_value(): a text is   *)
(* handed over as a C string, a binary one as hex digits, a wide one not.  *)
Element(b, row) == SubSeq(b.mem, Offset(row) + 1, Offset(row) + 1)
Stretch(b, row, n) == SubSeq(b.mem, Offset(row) + 1, Offset(row) + n)
Getter(b, row) ==
  IF b.ind[row] = null_data THEN Null
  ELSE IF cat \in StringCats THEN Stretch(b, row, b.ind[row]) ELSE Element(b, row)

CStr(v) ==
  IF \E i \in DOMAIN v : v[i] = 0
  THEN SubSeq(v, 1, (CHOOSE i \in DOMAIN v : v[i] = 0 /\ \A j \in 1..(i - 1) : v[j] # 0) - 1)
  ELSE v
LoadString(b, row) == Stretch(b, row, IF b.ind[row] < L THEN b.ind[row] ELSE L)
Marshal(b, row) ==
  IF b.ind[row] = null_data THEN Null
  ELSE CASE cat = "c_string" -> CStr(LoadString(b, row))
         [] cat = "b_string" -> LoadString(b, row)
         [] cat = "w_string" -> <<>>
         [] OTHER            -> Element(b, row)

Next ==
  \/ \E n \in 0..MaxRows : SizeParams(n) \/ SizeResults(n)
  \/ \E row \in 1..(par.rows + 1), v \in CallerValues : Set(row, v) \/ SetRefused(row, v)
  \/ \E row \in 1..par.rows : SetNull(row)
  \/ reset_all_null
  \/ Copy
  \/ \E v \in ServerValues : FetchRow(v)
  \/ NextPage

Spec == Init /\ [][Next]_vars

-----------------------------------------------------------------------------
TypeOK ==
  /\ cat \in Cats /\ moves \in 2..MaxMoves /\ {wild, careless} \subseteq BOOLEAN
  /\ \A b \in {par, res} :
       /\ b.rows \in 1..MaxRows
       /\ DOMAIN b.mem = 1..(b.rows * Stride(cat)) /\ DOMAIN b.ind = 1..b.rows
       /\ \A r \in 1..b.rows : b.ind[r] \in -1..(L + 1)
  /\ Len(want) = par.rows /\ Len(got) <= res.rows

(* What a caller puts into a row is what it reads back and what the row    *)
(* sends, NULL for NULL, whatever the order of set_<name>(),               *)
(* set_<name>_null() and reset_all_null() and whatever the other rows are  *)
(* given.  (A wide string reaches PostgreSQL empty.)                       *)
Arrives(v) == IF cat = "w_string" /\ v # Null THEN <<>> ELSE v
SentAsSet ==
  \A r \in 1..par.rows : Getter(par, r) = want[r] /\ Marshal(par, r) = Arrives(want[r])

(* A fetched row reads as the server sent it: NULL exactly for NULL and    *)
(* for a value that does not convert, a string up to the column's width, a *)
(* date without its era.  (A row that was NULL since the buffer was sized  *)
(* stays NULL for numbers and dates: only strings write the indicator.)    *)
Converts(v) == v # Null /\ cat # "w_string" /\ (cat = "structure" => ParsesDate(v))
Expected(v) ==
  CASE ~Converts(v)                               -> Null
    [] Converts(v) /\ cat \in StringCats          -> Cut(v, L)
    [] Converts(v) /\ cat = "structure"           -> <<Day(v[1].year, FALSE)>>
    [] Converts(v) /\ cat = "atomic"              -> v
ReadAsSent ==
  \A r \in DOMAIN got :
    cat \in StringCats \/ r \notin res.nulled => Getter(res, r) = Expected(got[r])

(* Only the two arguments that set_value() should refuse and does not make *)
(* a write leave its column's array: no other text, row, resize or fetched *)
(* value does.                                                             *)
InBounds == wild => careless
=============================================================================
