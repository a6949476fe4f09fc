SPECIFICATION FairSpec
CONSTANTS
  Items = {i1, i2, i3}
  MaxBatchSize = 2
  RetryCount = 1
INVARIANTS
  ItemsAreAccountedFor
PROPERTIES
  ImplementsPromise
  AcceptedIsAnswered
CHECK_DEADLOCK FALSE
