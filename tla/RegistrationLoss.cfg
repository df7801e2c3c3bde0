SPECIFICATION FairSpec
CONSTANTS
  Registrars = {r1}
  Leases = {l1, l2}
  NoLease = NoLease
  TTL = 4
  CallTimeout = 1
  MaxFailures = 0
  MaxLosses = 1
PROPERTIES RestoredAfterLoss
