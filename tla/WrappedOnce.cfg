SPECIFICATION Spec
CONSTANTS
  OFFSET_BITS = 3
  LENGTH_BITS = 1
  MAX_UNCODED = 1
  Space = 1
  Chars = {0, 1}
  HASH_SIZE = 3
  HASH_SHIFT = 1
  Methods = {"kmp"}
  MaxReplaced = 0
INVARIANT
  ReturnsMatch
