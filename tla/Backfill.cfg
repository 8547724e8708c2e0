\* Two workers, three batches, a retention that moves on, failures and a restart.
SPECIFICATION FairSpec
CONSTANTS
    Workers = {w1, w2}
    Origin = 5
    Size = 2
    Sidecars <- MCSidecars
    Truncated = FALSE
    MaxRetention = 1
    MaxFailures = 1
    MaxRestarts = 1
    MaxSeq = 9
INVARIANTS TypeOK StatusTrue NoGap PoolBounded 
PROPERTIES Backfilled
CHECK_DEADLOCK FALSE
