SPECIFICATION ProgramSpec
CONSTANTS
  ByteBits = 2
  OFFSET_BITS = 2
  LENGTH_BITS = 1
  MAX_UNCODED = 1
  Space = 2
  Chars = {0, 2}
  Sizes = {0, 1, 2, 3, 4, 5, 6, 7}
  Rooms = {3, 14}
  InFile <- InputName
  CopySessions <- Copying
  OtherSessions <- CommandLines
  None = None
INVARIANTS
  WindowIsHistory
  EndsForAReason
  TestRestoresFile
PROPERTIES
  CopiesFile
  Termination
