\* Three goroutines that lock some of two keys, each once.
SPECIFICATION FairSpec
CONSTANTS
    p1 = p1
    p2 = p2
    p3 = p3
    c1 = c1
    c2 = c2
    c3 = c3
    c4 = c4
    c5 = c5
    Nil = Nil
    Procs <- MCProcs
    Chans <- MCChans
    Keys = {1, 2}
    MaxCalls = 1
INVARIANTS MutualExclusion UnlockNeverBlocks NothingListed
PROPERTIES LockReturns ImplementsKeyLocks
CHECK_DEADLOCK FALSE
