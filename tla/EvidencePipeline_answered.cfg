SPECIFICATION Spec
CONSTANTS
  Requests = {r1}
  Commits = {k1}
  Traces = {t1}
  Levels = {"internal"}
  MaxChunks = 1
  MaxFaults = 0
PROPERTIES
  AnsweredIsCovered
CHECK_DEADLOCK FALSE
