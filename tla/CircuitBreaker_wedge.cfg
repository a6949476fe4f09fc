SPECIFICATION FairSpec
CONSTANTS
  Callers = {c1, c2}
  FailureThreshold = 2
  SuccessThreshold = 2
  OpenTimeout = 1
  HalfOpenMaxRequests = 2
  MaxAttempts = 2
PROPERTIES
  RecoversOnceHealthy
