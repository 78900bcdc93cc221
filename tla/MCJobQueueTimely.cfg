SPECIFICATION Spec
CONSTANTS
    NoJob = NoJob
    Jobs = {j1, j2}
    Workers = {w1, w2}
    MaxAttempts = 2
    LockTimeout = 1
    BackoffBase = 1
    MaxDelay = 2
    Horizon = 1
    MaxFaults = 2
    MaxRequeues = 1
    Overruns = FALSE
    InFlightRetries = FALSE
    LostReplies = FALSE
SYMMETRY Symmetry
INVARIANTS OneHolder ReportMatchesClaim
PROPERTY ImplementsLifecycle
