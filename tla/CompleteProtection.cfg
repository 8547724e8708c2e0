SPECIFICATION FairSpec
CONSTANTS
    k1 = k1
    k2 = k2
    r1 = r1
    r2 = r2
    Keys = {k1, k2}
    Epochs <- MCEpochs
    SigningRoots = {r1, r2}
    Votes <- MCVotes
    BatchCapacity = 2
    PruningEpochs = 1
    Pruning = TRUE
    MaxRequests = 3
    MaxErrors = 1
    MaxCrashes = 1
INVARIANTS SavedNeverContradicted
PROPERTIES EventuallyRecorded
CHECK_DEADLOCK FALSE
