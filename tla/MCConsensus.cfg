CONSTANTS
    v1 = v1
    v2 = v2
    v3 = v3
    v4 = v4
    Validator = {v1, v2, v3, v4}
    AcceptThreshold = "Majority"
    OrderedValidators <- MCOrderedValidators
    MaxHeight = 3
    MaxSkips = 1
    MaxSkipHeight = 0
    a1 = a1
    a2 = a2
    Account = {a1, a2}
    Epochs = {{a1, a2}, {a2}}
    Stake <- MCStake
    BlockHash = {"x", "y"}
    EndorsementDelay = 1
    MinDelay = 2
    DelayStep = 1
    MaxDelay = 3
    HeightsAhead = 2
    HeightsBefore = 1
    TimerIters = 2
    OwnTargets = {2}
    MaxTarget = 3
    MaxNow = 3
SPECIFICATION MCSpec
INVARIANTS
  Agreement
  VotesCountedOnce
PROPERTIES
  EndorsesForward
CHECK_DEADLOCK FALSE
