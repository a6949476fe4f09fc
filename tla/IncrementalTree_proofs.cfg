SPECIFICATION TreeSpec
CONSTANTS
  LeafValues <- const_LeafValues
  MaxDepth = 3
  MaxBatch = 2
INVARIANTS
  TreeProofsVerify
