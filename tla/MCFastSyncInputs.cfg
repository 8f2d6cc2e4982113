SPECIFICATION FastSpec
CONSTANTS
  stray = stray
  n1 = n1
  n2 = n2
  n3 = n3
  n4 = n4
  n5 = n5
  n6 = n6
  ZeroElement = ZeroElement
  ChainHeight = 4
  MaxCacheSize = 5
  Block <- MCBlock
  HeightOf <- MCHeightOf
  Stray <- MCStray
  Note = {n1, n2, n3, n4, n5, n6}
  Creates <- MCCreates
  Consumes <- MCConsumes
  MaxFailures = 0
  Padded = {1, 2, 3}
  FastChunkSize = 1
  FastSyncThreshold = 2
  Word = 16
INVARIANT
  InputsStayInTree
CHECK_DEADLOCK FALSE
