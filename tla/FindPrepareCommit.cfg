CONSTANTS
  Backend = "psql"
  PrepareMayFail = TRUE
  CommitMayFail = FALSE
  ConnMayDrop = FALSE
  Ops = {"prepare", "submit", "commit"}
  MaxCalls = 4
  MaxTasks = 2
  MaxBuffers = 0
  MaxCancels = 0
SPECIFICATION Spec
INVARIANT CommitHonest
