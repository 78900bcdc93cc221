SPECIFICATION FairSpec
CONSTANTS
    NoMaterial = NoMaterial
    Materials = {m1}
    Workers = {w1, w2}
    Requests = {r1}
    Concepts = {}
    DraftCounts = {0}
    BatchSize = 1
    MaxAttempts = 2
    MaxRetries = 1
    MaxWorkerFaults = 1
    MaxRequestFaults = 0
    Overruns = TRUE
    InFlightRetries = TRUE
PROPERTY JobsEnd
CHECK_DEADLOCK FALSE
