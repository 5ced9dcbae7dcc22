SPECIFICATION DocsSpec
CONSTANTS
  ALIGN = 2
  STACKABLE = 2
  HEAP_HEADER_SIZE = 1
  HeapSize = 24
  SizeLimit = 7
  ByteTop = 2
  IntTop = 8
  NumSlots = 1
  NumStatics = 1
  Ints <- MCInts
  FieldInts <- MCFieldInts
  Longs <- MCLongs
  Counts <- MCCounts
  Indexes <- MCIndexes
  Lengths <- MCLengths
  Buffer <- MCBuffer
INVARIANT SomeStatementHolds
CHECK_DEADLOCK FALSE
