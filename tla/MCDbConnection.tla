--------------------------- MODULE MCDbConnection ---------------------------
(* DbConnection for TLC.  One run checks a db_psql and a db_db2 object: a  *)
(* behaviour is one backend's from its first state on.                     *)
EXTENDS DbConnection

VARIABLE backend

Db2 == INSTANCE DbConnection WITH Backend <- "db2"

MCInit ==
  \/ backend = "psql" /\ Init
  \/ backend = "db2" /\ Db2!Init

MCNext ==
  /\ \/ backend = "psql" /\ Next
     \/ backend = "db2" /\ Db2!Next
  /\ UNCHANGED backend

MCSpec == MCInit /\ [][MCNext]_<<vars, backend>>
=============================================================================
