SPECIFICATION Spec
CONSTANTS
  NumThreads = 2
  ByteBits = 2
  Sizes = {1, 2, 3, 4}
  Codes <- AllCodes
INVARIANT
  NoNullChild
