SPECIFICATION LossFairSpec
CONSTANTS
  Sidecars = {s1}
  Endpoints = {e1}
  MaxRevision = 3
  MaxBreaks = 1
  MaxLosses = 1
PROPERTY CachesRecover
CHECK_DEADLOCK FALSE
