SPECIFICATION SubSpec
CONSTANTS
  Nil = Nil
  Value = {1}
  Funds = 1
  Swap = {s1}
  FetchLimit = 2
  BurnBlockSize = 1
  MaxBurnBlocks = 2
  MaxRuns = 1
CHECK_DEADLOCK FALSE
INVARIANT UnmatchedIsRetried
