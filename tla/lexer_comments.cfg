SPECIFICATION Spec
CONSTANTS
  Sources <- MCSources
  Lower <- LowerOf
  MaxText = 4
  MaxComment = 6
INVARIANTS
  CommentsSkipped
CHECK_DEADLOCK FALSE
