SPECIFICATION Spec
CONSTANTS
    s1 = s1
    s2 = s2
    Streams <- OneStream
    OnDemand <- OneStream
    Capacity = 1
    SpecPermits = {p1}
    AffineBudget = 0
    PoolThreads = 1
    MaxBatches = 1
    SpawnMayFail = FALSE
    MayShutdown = FALSE
INVARIANTS
    DestroyedOffTheWorkers
CHECK_DEADLOCK FALSE
