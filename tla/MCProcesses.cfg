SPECIFICATION FairSpec
CONSTANTS
  MaxCalls = 2
  MaxRequests = 1
  MaxStreams = 2
  Bytes = 1
  Services = {a, b}
  Stranger = Stranger
  Nobody = Nobody
  Caller = Caller
  Admits = {a}
  Addresses = {x}
  MaxMoves = 1
  MaxRotations = 1
  MaxBreaks = 1
  Registrars = {r1, r2}
  Leases = {l1, l2}
  NoLease = NoLease
  TTL = 4
  CallTimeout = 1
  MaxFailures = 1
  MaxLosses = 0
INVARIANTS GracefulExit ReadyMeansListening CleanEndIsComplete TalksToService
           KeepAliveMeansRegistered
PROPERTIES ProcessesEnd RelayEnds ReconnectsAfterRotation
CHECK_DEADLOCK FALSE
