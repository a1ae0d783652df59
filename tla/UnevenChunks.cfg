SPECIFICATION Spec
CONSTANTS
  NumThreads = 4
  ByteBits = 2
  MaxSymbols = 4
  CountBytes = 2
  SizeBytes = 2
  Sizes = {5}
  SizeMax = 15
  Codes <- LongCodes
INVARIANT
  ResultIsCorrect
