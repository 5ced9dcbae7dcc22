SPECIFICATION Spec
CONSTANTS
  zero = zero
  error = error
  Stale = stale
  Word <- MCWord
  Zero = zero
  Throwable <- MCThrowable
  Method <- MCMethod
  start <- startMethod
  Handlers <- MCHandlers
  STACK_SIZE = 18
  MaxOperands = 5
INVARIANTS TypeOK FramesNested StackTraceExact
PROPERTY ImplementsCallStack
CHECK_DEADLOCK FALSE
