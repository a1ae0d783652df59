SPECIFICATION UseSpec
CONSTANTS
  ByteBits = 3
  MaxBits = 7
  Counts = {0, 1, 2, 4}
PROPERTY
  StreamIsQueue
