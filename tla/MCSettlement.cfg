SPECIFICATION MCSpec
CONSTANTS
  x1 = x1
  x2 = x2
  Account = {prover}
  InitialProver = prover
  Address = {1}
  InitialValidators = {1}
  ValidatorChoice = {}
  MinDelay = 2
  MaxFutureBlocks = 1
  Epoch = 2
  MaxDelay = 2
  MaxOwnerCalls = 1
  MaxHeight = 2
  MaxClock = 2
  Hash = {m}
  Amount = {0, 2}
  Burn = {x1, x2}
  BurnAmount <- MCBurnAmount
  Substitutor = {s}
  Claimant = escrow
  Nobody = nobody
  Cap = {2, 4}
  MaxBurnFee = 2
  OpeningBalance = 1
  MaxBurns = 2
  MaxSettings = 2
  P = 13
  ValueBits = 2
  Depth = 4
  InitNotes <- MCInitNotes
  MaxBlocks = 2
  MaxTxns = 6
  stray = stray
  n1 = n1
  n2 = n2
  n3 = n3
  n4 = n4
  n5 = n5
  n6 = n6
  ZeroElement = ZeroElement
  ChainHeight = 4
  MaxCacheSize = 5
  Block <- MCBlock
  HeightOf <- MCHeightOf
  Stray <- MCStray
  Note = {n1, n2, n3, n4, n5, n6}
  Creates <- MCCreates
  Consumes <- MCConsumes
  MaxFailures = 0
  Padded = {1, 2, 3}
  FastChunkSize = 1
  FastSyncThreshold = 2
  Word = 16
INVARIANTS
  TokensAccounted
  
  
  SettledExactly
  AcceptedBalances
PROPERTIES
  
  FastSyncExact
CHECK_DEADLOCK FALSE
