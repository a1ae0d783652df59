SPECIFICATION Spec
CONSTANTS
  NumThreads = 3
  MaxSymbols = 4
  Sizes = {0, 1, 4}
INVARIANTS
  TypeOK
  NoDataRace
  Correct
PROPERTIES
  PublishesOnce
  Termination
