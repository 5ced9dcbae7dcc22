CONSTANTS
  HeapSize = 9
  HEAP_HEADER_SIZE = 2
  Requests <- MCRequests
  Marks <- MCMarks
SPECIFICATION Spec
INVARIANTS
  TypeOK
  Tiling
  FreeListExact
  Coalesced
  SweepOnTrack
  SweptClean
  InsertLoopAgrees
  BestFitLoopAgrees
  ValidatePasses
PROPERTIES
  InUseUndisturbed
  ImplementsAllocator
  SweepEnds
