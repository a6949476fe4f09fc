SPECIFICATION Spec
CONSTANTS
  Requests = {r1}
  Commits = {k1}
  Traces = {t1}
  Levels = {"compliance"}
  MaxChunks = 1
  MaxFaults = 1
INVARIANTS
  ComplianceIsLocked
CHECK_DEADLOCK FALSE
