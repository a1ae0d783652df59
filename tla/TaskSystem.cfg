SPECIFICATION Spec
CONSTANTS
  Clients = {c1, c2}
  Workers = {w1}
  Groups = {g1, g2, g3}
  Slots = 1
  TaskLimit = 2
  Counts = {1, 2}
  OldTokens = 1
  MaxCalls = 5
  Null = Null
INVARIANTS
  TypeOK
  ActiveHoldsWaiting
  OneOwner
  CounterCounts
  StopsForAReason
PROPERTIES
  RunsTasksOnce
  SyncReturns
