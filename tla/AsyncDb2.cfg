CONSTANTS
  Backend = "db2"
  PrepareMayFail = TRUE
  CommitMayFail = TRUE
  ConnMayDrop = TRUE
  Ops <- AllOps
  MaxCalls = 4
  MaxTasks = 2
  MaxBuffers = 1
  MaxCancels = 1
SPECIFICATION Spec
INVARIANTS QuietWhenTold CommitHonest FailedTxUndone CancelSafe
