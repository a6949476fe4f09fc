SPECIFICATION FairSpec
CONSTANTS
  Messages = {m1, m2, m3}
  Workers = {w1, w2}
  BufferSize = 1
  MaxRetries = 1
INVARIANTS
  MessagesAreAccountedFor
PROPERTIES
  StopEndsProcessing
  SentIsSettled
CHECK_DEADLOCK FALSE
