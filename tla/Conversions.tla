----------------------------- MODULE Conversions -----------------------------
(***************************************************************************)
(* The conversions of values (ValueText), of texts (TextTools) and of the  *)
(* states of failed calls (ErrorStatus) side by side; part says which of   *)
(* them moves.                                                             *)
(***************************************************************************)
CONSTANTS Years, Months, Clock, Fractions, MaxBytes, Bytes,  \* ValueText
          MaxText, MaxWide, Points,                          \* TextTools
          BoundColumns, NotPrepared                          \* ErrorStatus

VARIABLES part, ts, blob, text, wide, fault, err

V == INSTANCE ValueText
T == INSTANCE TextTools
E == INSTANCE ErrorStatus

(* Values and texts come through every conversion of psql/query.cpp,       *)
(* rtl_fmt.hpp, common.cpp and utf8.hpp as they were.                      *)
ConversionsFaithful ==
  /\ part \in {"times", "bytes"} => V!ValuesFaithful
  /\ part \in {"texts", "wide"} => T!TextsFaithful

(* A db_error tells that the call failed, and whether to run it again      *)
(* (db_error.cpp, odbc_error.cpp).                                         *)
FailuresHonest == E!FailureIsFailure /\ E!RetryKnown

-----------------------------------------------------------------------------
(* What odbc_error.hpp says and the code does not do: column i + 1 asks    *)
(* for a diagnostic record that the failed call has not left.              *)
BindStateTold == part = "errors" => E!StateKept
=============================================================================
