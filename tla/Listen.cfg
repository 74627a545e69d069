CONSTANTS
  Backend = "psql"
  PrepareMayFail = FALSE
  CommitMayFail = TRUE
  ConnMayDrop = TRUE
  Tables <- TwoTables
  Writes <- SomeWrites
  MaxCalls = 3
  MaxChanges = 2
  MaxConnects = 1
  ListenMayFail = TRUE
  PollMayFail = TRUE
SPECIFICATION FairSpec
CHECK_DEADLOCK FALSE
INVARIANTS HandlersServed NotificationsKept
PROPERTIES QuietAfterDisconnect OnChangeReturns DisconnectReturns
