\* Whether the service ends when the batches have.
SPECIFICATION FairSpec
CONSTANTS
    Workers = {w1, w2}
    Origin = 7
    Size = 2
    Sidecars = {{}}
    Truncated = FALSE
    MaxRetention = 1
    MaxFailures = 0
    MaxRestarts = 0
    MaxSeq = 9
PROPERTIES Completes
CHECK_DEADLOCK FALSE
