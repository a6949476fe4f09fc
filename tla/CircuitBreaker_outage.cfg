SPECIFICATION FairSpec
CONSTANTS
  Callers = {c1, c2, c3}
  FailureThreshold = 2
  SuccessThreshold = 2
  OpenTimeout = 2
  HalfOpenMaxRequests = 2
  MaxAttempts = 2
INVARIANTS
  OutageIsContained
PROPERTIES
  ClosesOnConsecutiveSuccesses
  RecoversIfProbesSucceed
