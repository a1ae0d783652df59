SPECIFICATION Spec
CONSTANTS
  MaxSymbols = 4
  UIntMax = 7
  MaxFrequency = 5
  Tables <- AllTables
INVARIANTS
  SingleEntryLeft
  Decodable
  LengthFitsByte
  Optimal
PROPERTY
  Termination
