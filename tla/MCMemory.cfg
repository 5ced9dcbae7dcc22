SPECIFICATION Spec
CONSTANTS
  ALIGN = 2
  STACKABLE = 2
  HEAP_HEADER_SIZE = 1
  HeapSize = 6
  SizeLimit = 65536
  ByteTop = 2
  IntTop = 8
  NumSlots = 2
  NumStatics = 2
  Ints <- MCInts
  FieldInts <- MCFieldInts
  Longs <- MCLongs
  Counts <- MCCounts
  Indexes <- MCIndexes
  Lengths <- MCLengths
  Buffer <- MCBuffer
INVARIANTS TypeOK ArraysHaveRoom
PROPERTY ImplementsJavaMemory
CHECK_DEADLOCK FALSE
