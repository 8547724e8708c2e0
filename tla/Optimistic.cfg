\* Engine verdicts on blocks of both sides of the Gloas fork.
SPECIFICATION OptimisticSpec
CONSTANTS
    Roots <- MCRoots
    Anchor = 1
    AnchorSlot = 8
    MaxSlot = 10
    StartSlot = 10
    SlotsPerEpoch = 2
    GloasForkEpoch = 5
    RootRank <- MCRank
    BalancesOf <- MCBalances
    ProposerScoreBoost = 150
    ReorgHeadWeightThreshold = 20
    PTC = {}
    Validators = {}
    Proposers = {0}
    AnchorValidated = TRUE
    MaxTickerLag = 0
    BlockSlots <- Slots
    VoteSlots = {}
    MaxJustified = 0
    BalanceErrors = {FALSE}
    UnrealizedErrors = {FALSE}
INVARIANTS OptimisticAncestry ChildrenKnown
PROPERTIES ValidatedStays
CHECK_DEADLOCK FALSE
