SPECIFICATION FairSpec
CONSTANTS
    MaxJobs = 2
    Workers = {w1, w2}
    MaxAttempts = 2
    BackoffBase = 1
    Lease = 0
    Horizon = 1
    MaxRequeues = 1
    StallsAllowed = TRUE
    RepliesLost = TRUE
INVARIANTS
    RetryBudget
PROPERTIES
    EveryJobSettles
