CONSTANTS
  Object = {o1, o2, o3, o4, o5, o6}
  NULL = NULL
  Thread = {t1, t2}
  main = t1
  NClasses = 2
  MARK_BIT_SIZE = 2
  StackBound = 2
SYMMETRY Symmetry
SPECIFICATION Spec
CHECK_DEADLOCK FALSE
INVARIANTS
  TypeOK
  NeededIsKept
  NoStaleMark
  OutOfMemoryIsReal
  ProtectionEnds
