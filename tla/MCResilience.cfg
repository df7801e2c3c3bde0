SPECIFICATION MCSpec
CONSTANTS
  Callers = {c1, c2, c3}
  NoPermit = NoPermit
  WindowSize = 3
  MinimumRequests = 2
  RateNum = 1
  RateDen = 2
  Cooldown = 2
  HalfOpenMaxRequests = 2
  MaxGeneration = 7
  s1 = s1
  s2 = s2
  m1 = m1
  m2 = m2
  Scale = 3
  Width = 5
  Retries = 6
  NoRule = NoRule
  Services <- MCServices
  Methods <- MCMethods
  DefaultRule <- MCDefaultRule
  ServiceRules <- MCServiceRules
  RouteRules <- MCRouteRules
INVARIANTS TypeOK WindowAccurate ProbesAccounted ClosedBelowThreshold WithinRate BackoffExact
PROPERTIES ImplementsAbstract HalfOpenDecides OpenIsProbed RejectsOnlyExcess
CHECK_DEADLOCK FALSE
