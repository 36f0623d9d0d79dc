SPECIFICATION Spec
CONSTANTS
  Programs <- MCPrograms
  Lower <- LowerOf
  Byte = 6
  MaxArgs = 3
  MaxJump = 14
  MaxCalls = 30
  MaxText = 3
  MaxOperands = 4
INVARIANTS
  TypeOK
  LocalsOnStack
  CodeWellFormed
  
PROPERTY
  CompileEnds
CHECK_DEADLOCK FALSE
