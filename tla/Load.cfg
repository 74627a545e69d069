CONSTANTS
  Backend = "psql"
  PrepareMayFail = TRUE
  CommitMayFail = FALSE
  ConnMayDrop = TRUE
  AllocMayFail = FALSE
  NFiles = 2
  NStmts = 2
SPECIFICATION Spec
INVARIANTS CleanStart HooksAtomic
