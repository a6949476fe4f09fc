SPECIFICATION Spec
CONSTANTS
  NumEvents = 3
  Clocks <- const_Clocks
  Callers = {c1, c2}
  Processes = {p1, p2}
  Users = {u1, u2}
  Contents = {v1, v2}
  L1TTL = 2
  TTLs = {0, 1, 3}
  Keys = {k1, k2}
  Burst = 2
  Rate = 2
  Cost = 3
  CleanupInterval = 4
  Messages = {m1, m2, m3}
  QueueRoom = 1
  Workers = {w1, w2}
  BatchSize = 2
  ConfiguredModels <- const_ConfiguredModels
  ConfiguredLevel = "standard"
  ConfiguredMin = 1200
  Traces <- const_Traces
  Goroutines = {g1, g2}
INVARIANTS
  ArrivalIsKept
  CleanReportLasts
  LimiterIsBucket
  BatchesBoundedAndDisjoint
  VerdictOfOneStrategy
PROPERTIES
  CallsReturn
  StaleDiesOut
  DelayedIsSettled
CHECK_DEADLOCK FALSE
