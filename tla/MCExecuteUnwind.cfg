CONSTANTS
  Thread = {t1}
  main = t1
  MaxFrames = 4
  MaxDepth = 5
SPECIFICATION Spec
CHECK_DEADLOCK FALSE
INVARIANT EveryExecuteHasItsFrame
