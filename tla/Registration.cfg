SPECIFICATION FairSpec
CONSTANTS
  Registrars = {r1}
  Leases = {l1, l2, l3, l4}
  NoLease = NoLease
  TTL = 4
  CallTimeout = 1
  MaxFailures = 2
  MaxLosses = 1
PROPERTIES StoppedDisappears StaysRegistered
