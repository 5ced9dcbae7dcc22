SPECIFICATION Spec
CONSTANTS
  IntTop = 8
  IntBits = 4
  LongBits = 8
  ByteTop = 2
  IntOperand <- MCIntOperand
  LongOperand <- MCLongOperand
  NumClasses <- MCNumClasses
  Super <- MCSuper
  Type <- MCType
  Element <- MCElement
  Implements <- MCImplements
  Methods <- MCMethods
  Fields <- MCFields
  References <- MCReferences
  SoughtIndexes = {0,1,2,3}
  SoughtIds = {0,1,2,3,4,5,6,7,8,9,10}
INVARIANTS DivisionExact ArithmeticExact BisectionOnTrack LookupExact CastsExact
PROPERTY InstructionEnds
CHECK_DEADLOCK FALSE
