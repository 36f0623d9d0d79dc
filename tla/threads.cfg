SPECIFICATION Spec
CONSTANTS
  t1 = t1
  t2 = t2
  t3 = t3
  Main = Main
  Threads = {t1, t2, t3}
  Unfit = {t3}
  Structured = FALSE
  MaxCalls = 3
INVARIANTS
  TypeOK
  VmInUse
SYMMETRY Symmetric
CHECK_DEADLOCK FALSE
