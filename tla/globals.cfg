SPECIFICATION Spec
CONSTANTS
  k1 = k1
  k2 = k2
  k3 = k3
  Keys = {k1, k2, k3}
  Main = Main
  Others = {o1}
  NoKey = NoKey
  Hash <- HashOf
  Values <- MCValues
  Tables <- MCTables
  MinCap = 4
  MaxMain = 1
  MaxOther = 1
INVARIANTS
  TypeOK
  ReadsRight
  Kept
  OnlyGrowthBreaks
CHECK_DEADLOCK FALSE
