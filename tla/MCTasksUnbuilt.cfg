SPECIFICATION Spec
CONSTANTS
  Keys = {k1, k2}
  Rests = {r1, r2}
  Programs <- MCPrograms
  Stores <- SomeStores
  LimitValues = {1, 2}
  BoundValues = {1}
  NoLimit = 9
  Matching = {1, 3}
  MaxClients = 2
INVARIANTS UsableClient
CHECK_DEADLOCK FALSE
