------------------------------ MODULE YamlFile ------------------------------
(***************************************************************************)
(* The yaml file of the run: YamlInput under the name Y.                   *)
(***************************************************************************)
CONSTANTS Entries, MaxStmts

VARIABLES via, root, left, read, stmts, sts, complaints

Y == INSTANCE YamlInput

(* A yaml file that is accepted has every statement under its own id and  *)
(* every good width in force, and logs an error for each sql, size, width  *)
(* or list of names that is not in force as written (parser.cpp); a before *)
(* or after that is no map is dropped without one.                         *)
FilesHonest == Y!AllKept /\ Y!GoodWidthsKept /\ Y!SilentMeansAsWritten
=============================================================================
