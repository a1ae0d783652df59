SPECIFICATION Spec
CONSTANTS
  Clients = {c1, c2, c3}
  Workers = {}
  Groups = {g1, g2, g3, g4}
  Slots = 1
  TaskLimit = 1
  Counts = {1}
  OldTokens = 0
  MaxCalls = 8
  Null = Null
INVARIANTS
  TakesWhatItRead
