\* Batches and live blocks, with imports that fail.
SPECIFICATION SyncSpec
CONSTANTS
    Roots <- MCRoots
    Anchor = 1
    AnchorSlot = 12
    MaxSlot = 21
    StartSlot = 20
    SlotsPerEpoch = 3
    GloasForkEpoch = 100
    RootRank <- MCRank
    BalancesOf <- MCBalances
    ProposerScoreBoost = 150
    ReorgHeadWeightThreshold = 20
    PTC = {}
    Validators = {}
    Proposers = {0}
    AnchorValidated = FALSE
    MaxTickerLag = 0
    BlockSlots <- SyncSlots
    VoteSlots = {}
    MaxJustified = 6
    BalanceErrors = {FALSE, TRUE}
    UnrealizedErrors = {FALSE}
INVARIANTS JustifiedKnown ChildrenKnown 
CHECK_DEADLOCK FALSE
