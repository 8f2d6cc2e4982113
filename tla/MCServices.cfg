SPECIFICATION MCSpec
CONSTANTS
  Account = {prover, other}
  InitialProver = prover
  Address = {1, 2, 3}
  InitialValidators = {1, 2, 3}
  ValidatorChoice <- MCValidatorChoice
  MinDelay = 2
  MaxFutureBlocks = 1
  Epoch = 2
  MaxDelay = 3
  MaxOwnerCalls = 3
  MaxHeight = 3
  MaxClock = 4
  None = None
  Radix = 2
  Width = 3
  Clients <- MCClients
  Limit = 1
  Window = 2
  BlockSize = 2
  MaxBlocks = 3
  MaxDay = 3
  Nil = Nil
  Value = {1}
  Funds = 2
  Swap = {s1}
  FetchLimit = 2
  BurnBlockSize = 2
  MaxBurnBlocks = 2
  MaxRuns = 2
  Validator = {v1, v2}
  Signer = n1
  Height = {0, 1, 2}
  MaxErrors = 2
  MaxRestarts = 1
  MaxBlock = 4
  Nodes <- MCNodes
  Peers <- MCPeers
  Whitelist <- MCWhitelist
  MaxConns = 2
  MaxEvents = 1
  Callers = {1, 2, 3}
  Configs <- MCConfigs
  MaxTime = 4
  Values = {1}
  Threads = {1, 2, 3}
  MaxGets = 4
  MaxCalls = 4
INVARIANTS
  RpcAnswersTrue
  PassedBurnsHandled
  CacheServesContract
  PeersHeard
  NobodyForgotten
  PoolConserves
  TickNotLost
PROPERTIES
  CommitsReported
  SignedByValidatorsInForce
  EscapeNeedsSilence
CHECK_DEADLOCK FALSE
