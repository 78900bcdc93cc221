SPECIFICATION Spec
CONSTANTS
    NoMaterial = NoMaterial
    Materials = {m1}
    Workers = {w1, w2}
    Requests = {r1, r2}
    Concepts = {c1}
    DraftCounts = {0, 1, 2}
    BatchSize = 1
    MaxAttempts = 2
    MaxRetries = 1
    MaxWorkerFaults = 2
    MaxRequestFaults = 1
    Overruns = FALSE
    InFlightRetries = FALSE
SYMMETRY Symmetry
INVARIANTS ReadyIsComplete OneChunkSet CompletedMeansReady
PROPERTY JobsAsPromised
CHECK_DEADLOCK FALSE
