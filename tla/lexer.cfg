SPECIFICATION Spec
CONSTANTS
  Sources <- MCSources
  Lower <- LowerOf
  MaxText = 4
  MaxComment = 6
INVARIANTS
  TypeOK
  
  NothingLost
  LongestMatch
PROPERTY
  ScanEnds
CHECK_DEADLOCK FALSE
