CONSTANTS
  Years = {0, 44, 2024, 9999}
  Months = {1, 10, 65535}
  Clock = {0, 9, 50}
  Fractions = {0, 1, 10, 120000000, 999999999}
  MaxBytes = 4
  Bytes = {0, 10, 45, 175, 255}
  MaxText = 6
  MaxWide = 2
  Points = {65, 127, 128, 2047, 2048, 65535, 65536, 1114111, 1114112}
  BoundColumns = 2
  NotPrepared = TRUE
  Entries <- AllEntries
  MaxStmts = 2
  Natives <- AllNatives
  Names = {"a", "b"}
  Renamings <- SomeNames
  FieldLens <- SomeLens
  Fallback = 4096
  MaxCols = 1
SPECIFICATION Spec
CHECK_DEADLOCK FALSE
INVARIANTS ConversionsFaithful FailuresHonest FilesHonest WidthsKept TypesAgree
