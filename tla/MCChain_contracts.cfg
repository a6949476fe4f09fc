SPECIFICATION Spec
CONSTANTS
  Callers = {p1, p2}
  Certs = {c1}
  MaxCalls = 3
  MaxBlocks = 3
  MaxReorgs = 1
  Accounts = {a1, a2, a3, a4}
  Owner = a1
  Parties = {a3, a4}
  Disputes = {1, 2}
  Refusing = {a4}
  Stakes = {2}
  Minimums = {0, 1, 2}
  InitialReputation = 196
  MaxChanges = 3
  JsonEvents = {e1}
  HashEvents = {e2}
  BatchEvents = {b1, b2, b3}
  Commitments = {w1}
  TreeCapacity = 8
  QueueSlots = 1
  EventBatch = 2
  MaxTries = 2
  Provers = {g1, g2}
  ProofHashes = {h1, h2}
  Prime = 11
  ByteBase = 4
  ChunkSize = 2
  Chunks = 2
  Levels = 3
  ZKRequests <- const_ZKRequests
  MaxKeys = 3
  MaxBoots = 2
  Tenants = {t1, default}
  ShortNamed = {default}
  Requests = {r1, r2, r3}
  Missing = missing
  MaxDrops = 2
INVARIANTS
  ReportedIsOnChain
  StakesArePaidOnce
  VotesCountAccounts
  CommittedRootCovers
  KeptProofsHold
  CurrentContentReadable
  AnsweredIsAudited
PROPERTY RootIsWrittenOnce
CHECK_DEADLOCK FALSE
