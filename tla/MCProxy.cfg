SPECIFICATION Spec
CONSTANTS
  Requests = {q1, q2}
  Endpoints = {e1, e2}
  NoTarget = NoTarget
  NoPermit = NoPermit
  MaxAttempts = 2
  RetryBudget <- MCRetryBudget
  RetryableCodes <- MCRetryableCodes
  FailureCodes <- MCFailureCodes
  UpstreamCodes <- MCUpstreamCodes
  Scale = 1
  WindowSize = 1
  MinimumRequests = 1
  RateNum = 1
  RateDen = 2
  Cooldown = 1
  HalfOpenMaxRequests = 1
INVARIANTS NothingLeaks ProbesReport HonestResult
PROPERTIES RetriesOnlyRetryable
SYMMETRY MCSymmetry
