SPECIFICATION Spec
CONSTANTS
  Objects = {o1, o2}
  Size <- SizeDef
  FirstGC = 2
  MaxLinks = 4
INVARIANTS
  FreesUnreached
CHECK_DEADLOCK FALSE
