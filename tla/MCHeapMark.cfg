CONSTANTS
  Object = {1, 2, 3, 4, 5}
  NSlots = 2
  NRoots = 2
  NULL = 0
SPECIFICATION MCSpec
CHECK_DEADLOCK FALSE
INVARIANTS
  TypeOK
  NoneForgotten
  LinkedIsPending
  NoLinkLeft
  MarkedIsReachable
PROPERTIES
  MarkingEnds
