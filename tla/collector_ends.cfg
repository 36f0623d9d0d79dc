SPECIFICATION FairSpec
CONSTANTS
  Objects = {o1, o2}
  Size <- SizeDef
  FirstGC = 2
  MaxLinks = 4
PROPERTIES
  CollectionEnds
CHECK_DEADLOCK FALSE
