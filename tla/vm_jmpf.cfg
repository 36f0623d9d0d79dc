SPECIFICATION FairSpec
CONSTANTS
  s1 = s1
  s2 = s2
  native = native
  add = add
  loop = loop
  Funs <- FunsDef
  Scripts <- ScriptsDef
  Code <- CodeDef
  Consts <- ConstsDef
  Arity <- ArityDef
  Depth <- DepthDef
  Numbers = {0, 1}
  Strings = {s1, s2}
  Natives = {native}
  MaxDepth = 5
  FramesMax = 3
  StackMax = 15
  MaxMaps = 3
  MaxRuns = 3
  Absent = Absent
PROPERTIES
  JmpfPops
CHECK_DEADLOCK FALSE
