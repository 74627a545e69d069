---------------------------- MODULE MCPsqlQuery ----------------------------
(* PsqlQuery for TLC.  The places of query objects are interchangeable.    *)
(* With more than one object one execute() of one row is enough: they meet *)
(* only in their names and in the transaction.                             *)
EXTENDS PsqlQuery, TLC

Places == Permutations(Objs)

InFocus == counter > 1 => runs <= 1 /\ sizings = 0

MCSpec == Init /\ [][Next /\ InFocus']_vars
=============================================================================
