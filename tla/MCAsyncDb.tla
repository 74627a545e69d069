------------------------------ MODULE MCAsyncDb ------------------------------
(* AsyncDb for TLC: the constants are given in the .cfg files.             *)
EXTENDS AsyncDb

AllOps == {"prepare", "submit", "exec", "execute_sync", "fetch_more",
           "drain", "is_finished", "commit", "rollback"}
=============================================================================
