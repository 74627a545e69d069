------------------------------- MODULE Buffers -------------------------------
(***************************************************************************)
(* The two buffers a query binds, mpar and mres: RowBuffers under the name *)
(* B, with its parameter and its result buffer.                            *)
(***************************************************************************)
CONSTANTS L, MaxRows, MaxMoves, Bytes, MaxLen, Years, Null

VARIABLES cat, mpar, mres, moves, want, got, wild, careless

B == INSTANCE RowBuffers WITH par <- mpar, res <- mres

ASSUME BuffersAssumption == B!ConstantsOK

(* A value goes through a buffer unchanged, out to the server and back     *)
(* from it (the generated setters and getters, load_value() and            *)
(* store_value()), in a buffer whose caller was careful, and where nothing *)
(* was written outside of the arrays.                                      *)
ValuesKept == (~careless => B!SentAsSet) /\ (~wild => B!ReadAsSent)

(* Buffers keep their shape, and neither a setter nor fetch() writes       *)
(* outside of the array of its column, but for an argument one too large   *)
(* (set_<name>(), resize_storage(), store_value()).                        *)
StorageSound == B!TypeOK /\ B!InBounds

-----------------------------------------------------------------------------
(* What the repository says and the code does not do.                      *)

(* "value.size() is bounded by NetCapacity (checked above)" (rtl.hpp): no  *)
(* text and no row that set_value() accepts is written outside the array.  *)
ArraysKept == ~wild

(* A row is "a struct of references into the same column-wise storage"     *)
(* (the user's guide), the buffer's own, also in a copy of it.             *)
RowsAreOwn == \A b \in {mpar, mres} : b.refs = b.store

(* is_<col>_null() tells "whether column <col> is NULL for row" (the       *)
(* user's guide): a row reads NULL only when the server sent NULL or what  *)
(* does not convert.                                                       *)
NullsAreSent == ~wild => \A r \in DOMAIN got : B!Getter(mres, r) = B!Expected(got[r])
=============================================================================
