SPECIFICATION MCSpec
CONSTANTS
  x = x
  y = y
  z = z
  m1 = m1
  m2 = m2
  s1 = s1
  s2 = s2
  b = b
  r = r
  deposit = deposit
  none = none
  Leaf <- MCLeaf
  Txn <- MCTxn
  Inputs <- MCInputs
  Outputs <- MCOutputs
  MintHash <- MCMintHash
  NoMint = none
  MintOf <- MCMintOf
  BlockTxnsCount = 2
  MaxHeight = 3
  stray = stray
  n1 = n1
  n2 = n2
  n3 = n3
  n4 = n4
  n5 = n5
  n6 = n6
  ChainHeight = 4
  MaxCacheSize = 5
  Block <- MCBlock
  HeightOf <- MCHeightOf
  Stray <- MCStray
  Note = {n1, n2, n3, n4, n5, n6}
  Creates <- MCCreates
  Consumes <- MCConsumes
  MaxFailures = 2
  ChunkSize = 1
  i1 = i1
  i2 = i2
  SnapshotId = {i1, i2}
  MaxLate = 1
INVARIANTS
  NoDoubleSpend
  TreeIsChain
  AckedIsDurable
  RecoveryRepairs
  NodesInOrder
  
PROPERTIES
  
  SlowSyncCatchesUp
CHECK_DEADLOCK FALSE
