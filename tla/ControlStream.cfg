SPECIFICATION FairSpec
CONSTANTS
  Sidecars = {s1}
  Endpoints = {e1, e2}
  MaxRevision = 5
  MaxBreaks = 2
INVARIANTS IdleMeansCurrent
PROPERTIES ImplementsSnapshotCache CachesConverge
CHECK_DEADLOCK FALSE
