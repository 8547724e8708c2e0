\* Payload timeliness votes and equivocations.
SPECIFICATION TimelinessSpec
CONSTANTS
    Roots <- MCRoots3
    Anchor = 1
    AnchorSlot = 12
    MaxSlot = 15
    StartSlot = 15
    SlotsPerEpoch = 3
    GloasForkEpoch = 0
    RootRank <- MCRank
    BalancesOf <- MCBalances
    ProposerScoreBoost = 150
    ReorgHeadWeightThreshold = 20
    PTC = {0}
    Validators = {0}
    Proposers = {0}
    AnchorValidated = FALSE
    MaxTickerLag = 0
    BlockSlots <- PayloadSlots
    VoteSlots = {14}
    MaxJustified = 0
    BalanceErrors = {FALSE}
    UnrealizedErrors = {FALSE}
  
PROPERTIES HeadIsGHOST
CHECK_DEADLOCK FALSE
