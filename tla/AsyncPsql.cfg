CONSTANTS
  Backend = "psql"
  PrepareMayFail = FALSE
  CommitMayFail = FALSE
  ConnMayDrop = TRUE
  Ops = {"prepare", "submit", "execute_sync", "commit", "rollback"}
  MaxCalls = 6
  MaxTasks = 1
  MaxBuffers = 1
  MaxCancels = 0
SPECIFICATION FairSpec
INVARIANTS IndInv NoLostWakeup Fifo SnapshotIsolated FirstErrorWins CommitHonest FailedTxUndone
PROPERTIES SyncIsTruthful TransactionsAtomic CallsReturn
