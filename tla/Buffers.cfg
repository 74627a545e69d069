CONSTANTS
  L = 1
  MaxRows = 2
  MaxMoves = 3
  Bytes = {1, 2}
  MaxLen = 3
  Years = {44, 12024}
  Null = Null
SPECIFICATION Spec
INVARIANTS ValuesKept StorageSound
