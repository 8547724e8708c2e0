\* Justification, finalization and pruning.
SPECIFICATION FinalitySpec
CONSTANTS
    Roots <- MCRoots5
    Anchor = 1
    AnchorSlot = 12
    MaxSlot = 21
    StartSlot = 20
    SlotsPerEpoch = 3
    GloasForkEpoch = 100
    RootRank <- MCRank
    BalancesOf <- MCBalances
    ProposerScoreBoost = 150
    ReorgHeadWeightThreshold = 20
    PTC = {}
    Validators = {}
    Proposers = {0}
    AnchorValidated = FALSE
    MaxTickerLag = 0
    BlockSlots <- FinalitySlots
    VoteSlots = {}
    MaxJustified = 6
    BalanceErrors = {FALSE}
    UnrealizedErrors = {FALSE}
INVARIANTS TypeOK JustifiedKnown PrunedToFinalized  DependentRootsCorrect BoostIsTimely 
PROPERTIES  PruneDropsIncompatible
CHECK_DEADLOCK FALSE
