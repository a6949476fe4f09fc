SPECIFICATION FairSpec
CONSTANTS
  Requests = {r1}
  Commits = {k1, k2}
  Traces = {t1}
  Levels = {"internal", "compliance"}
  MaxChunks = 2
  MaxFaults = 2
INVARIANTS
  CertIsStorePrefix
  CertsNested
  EvidenceIsConsistent
PROPERTIES
  ImplementsLedger
  EvidenceSettles
CHECK_DEADLOCK FALSE
