\* Proposer boost and justified balances that change, before Gloas.
SPECIFICATION BoostSpec
CONSTANTS
    Roots <- MCRoots3
    Anchor = 1
    AnchorSlot = 12
    MaxSlot = 18
    StartSlot = 17
    SlotsPerEpoch = 3
    GloasForkEpoch = 100
    RootRank <- MCRank
    BalancesOf <- MCBalances
    ProposerScoreBoost = 150
    ReorgHeadWeightThreshold = 20
    PTC = {}
    Validators = {0}
    Proposers = {0}
    AnchorValidated = FALSE
    MaxTickerLag = 0
    BlockSlots <- BoostSlots
    VoteSlots <- VotesVotes
    MaxJustified = 5
    BalanceErrors = {FALSE}
    UnrealizedErrors = {FALSE}
INVARIANTS EmptyVotesCounted FullVotesCounted
PROPERTIES HeadIsGHOST
CHECK_DEADLOCK FALSE
