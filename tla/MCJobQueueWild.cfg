SPECIFICATION FairSpec
CONSTANTS
    NoJob = NoJob
    Jobs = {j1}
    Workers = {w1, w2}
    MaxAttempts = 2
    LockTimeout = 1
    BackoffBase = 1
    MaxDelay = 2
    Horizon = 1
    MaxFaults = 2
    MaxRequeues = 1
    Overruns = TRUE
    InFlightRetries = TRUE
    LostReplies = TRUE
INVARIANTS AttemptsBounded RetryRuns
PROPERTY EveryJobSettles
