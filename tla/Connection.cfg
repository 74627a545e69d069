CONSTANTS
  Backend = "psql"
  PrepareMayFail = TRUE
  CommitMayFail = FALSE
  ConnMayDrop = TRUE
  AllocMayFail = TRUE
  MaxStmts = 3
  MaxConnects = 3
  MaxEnds = 3
SPECIFICATION MCSpec
INVARIANTS InsideTransaction HandlesAccounted AnswersHonest
