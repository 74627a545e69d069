CONSTANTS
  Homes = {h1, h2}
  HasP = TRUE
  HasR = TRUE
  MaxHandles = 2
  MaxSizings = 2
  MaxSize = 2
  MaxRefused = 1
SPECIFICATION Spec
SYMMETRY Places
CHECK_DEADLOCK FALSE
INVARIANTS HandlesSound BoundInUse
