SPECIFICATION Spec
CONSTANTS
  NumThreads = 3
  ByteBits = 2
  MaxSymbols = 4
  CountBytes = 2
  SizeBytes = 2
  Sizes = {1, 2, 3, 5}
  SizeMax = 15
  Codes <- AllCodes
INVARIANTS
  TypeOK
  OwnSlot
  SlotsTileBuffer
  WholeFileRead
  FileIsPacked
  FetchesOwnSlot
  NoFailure
  BufferUsedUp
  TableRestored
  OutputIsReference
PROPERTIES
  CopiesFile
  ReachesEnd
