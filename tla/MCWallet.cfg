SPECIFICATION MCSpec
CONSTANTS
  wcbtc = wcbtc
  usdc = usdc
  None = None
  Ticker <- MCTicker
  Wcbtc = wcbtc
  Amount = {1}
  ChainId = {c1, c2}
  Held <- MCHeld
  Gift <- MCGift
  Payee <- MCPayee
  Word = 8
  Page = 1
  MaxKey = 3
  Bits = 2
  P = 7
  Mds <- MCMds
  Rounds <- MCRounds
  PartRounds = 2
  Input = {0, 1}
  MaxLen = 7
  DEPTH = 3
  Element = {1, 2, 5}
  MaxBatch = 2
  MaxBatches = 3
SYMMETRY MCSymmetry
INVARIANTS
  WalletBalances
  NotesKept
  SignedExact
  DigestOfMessage
  TreeExact
  RestartFindsWrites
PROPERTIES
  SavesAreSafe
CHECK_DEADLOCK FALSE
