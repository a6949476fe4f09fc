SPECIFICATION Spec
CONSTANTS
  Nodes = {n1, n2, n3, n4}
  Self = n1
  Listed = {n2, n3}
  MinConfirm = 2
  MaxChanges = 2
  MaxDowns = 2
  MaxHops = 3
  MaxCerts = 3
  MaxEvents = 3
  TimeOf <- const_TimeOf
  Batches <- const_Batches
  Sizes = {0, 2}
  DefaultSize = 1
  MaxSize = 1
  TraceLimit = 1
  CertLimit = 2
  FpTenants = {x, y}
  FpTraces = {t1, t2}
  Collections <- const_Collections
  Unit = 4
  FpClock = 2
  MaxRows = 2
  PageLimit = 1
  ModelNames <- const_ModelNames
  Dialogues <- const_Dialogues
  Upstreams <- const_Upstreams
  MaxProviders = 4
  MaxOutages = 2
  LeafValues <- const_LeafValues
  MaxDepth = 3
  MaxBatch = 2
INVARIANTS
  AnchorsAreEarned
  ListsAddUp
  AuditsAgree
  FingerprintsAddUp
  RegistryIsOrdered
  ReportIsEarned
  RootsAgree
  AllProofsVerify
  OldRootIsSnapshotRoot
PROPERTY AnchorEnds
CHECK_DEADLOCK FALSE
