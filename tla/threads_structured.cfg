SPECIFICATION FairSpec
CONSTANTS
  t1 = t1
  t2 = t2
  t3 = t3
  Main = Main
  Threads = {t1, t2, t3}
  Unfit = {}
  Structured = TRUE
  MaxCalls = 4
INVARIANTS
  SharedInUse
PROPERTIES
  MainEnds
CHECK_DEADLOCK FALSE
