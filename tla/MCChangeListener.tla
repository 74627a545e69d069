-------------------------- MODULE MCChangeListener --------------------------
(* ChangeListener for TLC: two tables, and what a transaction may write.   *)
EXTENDS ChangeListener

TwoTables == {"t1", "t2"}
SomeWrites == {<<"INSERT">>, <<"UPDATE", "DELETE">>}
=============================================================================
