CONSTANTS
  Backend = "psql"
  PrepareMayFail = TRUE
  CommitMayFail = TRUE
  ConnMayDrop = TRUE
  Objs = {q1, q2}
  MaxNames = 3
  MaxRuns = 2
  MaxSizings = 2
  MaxTotal = 3
  MaxSize = 3
SPECIFICATION MCSpec
SYMMETRY Places
INVARIANTS NamesOwned PagesInOrder BatchHonest
PROPERTY DestroyHarmless
