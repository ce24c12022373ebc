SPECIFICATION Spec
CONSTANTS
    s1 = s1
    s2 = s2
    Streams <- TwoStreams
    OnDemand <- NoStream
    Capacity = 1
    SpecPermits = {p1}
    AffineBudget = 0
    PoolThreads = 2
    MaxBatches = 2
    SpawnMayFail = FALSE
    MayShutdown = FALSE
INVARIANTS
    StrandedWithinBudget
CHECK_DEADLOCK FALSE
