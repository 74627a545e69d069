------------------------------- MODULE MCGenRun -------------------------------
(* GenRun for TLC: the files on the command line.                          *)
EXTENDS GenRun

ThreeFiles == <<"a", "b", "c">>
=============================================================================
