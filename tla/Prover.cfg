CONSTANTS
  Provers = {a, b}
  MaxHeight = 3
  NonEmpty = {1, 2}
  BadBlocks = {}
  Faulty = {a}
  MaxFailures = 1
SPECIFICATION FairProverSpec
INVARIANTS
  ProversInStep
PROPERTIES
  EveryBlockSettled
