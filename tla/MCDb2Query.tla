----------------------------- MODULE MCDb2Query -----------------------------
(* Db2Query for TLC: the places of the object are interchangeable.         *)
EXTENDS Db2Query, TLC

Places == Permutations(Homes)
=============================================================================
