SPECIFICATION Spec
CONSTANTS
  Keys = {k1, k2}
  Rests = {r1, r2}
  Callers = {c1}
  Grace = 2
  MaxClients = 4
INVARIANTS GraceGiven
CHECK_DEADLOCK FALSE
