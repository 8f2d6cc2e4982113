SPECIFICATION MCSpec
CONSTANTS
  a = a
  b = b
  c = c
  Key = {a, b, c}
  Change = {1, 2, 3, 4}
  ChangesOf <- MCChangesOf
  Lease = {1, 2}
  BlockTxnsCount = 2
  FirstHeight = 1
  Listening = {TRUE, FALSE}
  MaxChecked = 2
  BlockTxns <- MCBlockTxns
INVARIANT PoolsWhole
PROPERTIES ValidatorAnswers FollowerAnswers
CHECK_DEADLOCK FALSE
