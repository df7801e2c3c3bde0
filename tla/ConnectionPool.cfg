SPECIFICATION FairSpec
CONSTANTS
  Callers = {c1, c2, c3}
  Targets = {t1}
  Conns = {k1, k2, k3}
  NoTarget = NoTarget
  NoConn = NoConn
  MaxConnectionsPerTarget = 2
INVARIANTS CapRespected ActiveCountsHolders LentStaysOpen OneOwner
PROPERTIES AcquireReturns CloseClosesAll
