-------------------------- MODULE StatementColumns --------------------------
(***************************************************************************)
(* The columns of one statement of the run: ColumnTypes under the name C,  *)
(* with what databases report and yaml files give.                         *)
(***************************************************************************)
EXTENDS Naturals

CONSTANTS Natives, Names, Renamings, FieldLens, Fallback, MaxCols

VARIABLES backend, meta, yaml, stage, needs

C == INSTANCE ColumnTypes

(* Lengths and scales are counts, and a numeric's scale fits its typmod    *)
(* and comes with a precision.                                             *)
NativesOK ==
  /\ DOMAIN Natives \subseteq {"psql", "db2"} /\ Fallback \in Nat /\ MaxCols \in Nat
  /\ \A b \in DOMAIN Natives : \A nat \in Natives[b] :
       /\ nat.n \in Nat /\ nat.s \in Nat
       /\ nat.code = "numeric" => nat.s < 65536 /\ (nat.n = 0 => nat.s = 0)
  /\ \A f \in FieldLens : \A x \in DOMAIN f : f[x] \in Nat
ASSUME StatementColumnsAssumption == NativesOK

(* The width of a column is the one the database declares, the yaml file   *)
(* gives or the fallback, in this order, to the generated member           *)
(* (get_sql_metadata(), apply_field_len()).                                *)
WidthsKept == C!DeclaredKept /\ C!WidthsSettled

(* The places that choose a type of their own for a column (the oid        *)
(* declared, the reader, the C type bound, the dump helpers) agree.        *)
TypesAgree == C!TypeOK /\ C!OidStable /\ C!ReaderMatches /\ C!BindFits /\ C!HelpersMatch
=============================================================================
