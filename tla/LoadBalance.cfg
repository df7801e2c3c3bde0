SPECIFICATION Spec
CONSTANTS
  Requests = {q1, q2, q3}
  MaxEndpoints = 3
  Cycle = 6
  MaxNodes = 4
  MaxWeight = 3
  NotANumber = NotANumber
  N = 2
  MaxCreated = 3
  Callers = {q1, q2}
  Members = {i1, i2}
  Addresses = {a1, a2}
  NoAddress = NoAddress
  MaxUpdates = 2
INVARIANTS EvenSpread CycleExact Smooth ActiveAccurate
PROPERTIES NearlyLeast StalePicksEnd
