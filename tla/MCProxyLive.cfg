SPECIFICATION FairSpec
CONSTANTS
  Requests = {q1, q2}
  Endpoints = {e1}
  NoTarget = NoTarget
  NoPermit = NoPermit
  MaxAttempts = 2
  RetryBudget <- MCLiveBudget
  RetryableCodes <- MCRetryableCodes
  FailureCodes <- MCFailureCodes
  UpstreamCodes <- MCLiveCodes
  Scale = 1
  WindowSize = 1
  MinimumRequests = 1
  RateNum = 1
  RateDen = 2
  Cooldown = 1
  HalfOpenMaxRequests = 1
PROPERTIES InvokeReturns
