SPECIFICATION Spec
CONSTANTS
  Objects = {o1, o2, o3}
  Size <- SizeDef
  FirstGC = 3
  MaxLinks = 2
INVARIANTS
  TypeOK
  TraceExact
  GrayOnce
  
  AllocatedExact
SYMMETRY Symmetric
CHECK_DEADLOCK FALSE
