SPECIFICATION FairSpec
CONSTANTS
  Keys = {k1, k2}
  Rests = {r1, r2}
  Callers = {c1, c2}
  Grace = 2
  MaxClients = 4
INVARIANTS TypeOK ClientMatchesConfig OnePlace
PROPERTIES ImplementsCell RetiredClosed
CHECK_DEADLOCK FALSE
