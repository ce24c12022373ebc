SPECIFICATION CompetingStreams
CONSTANTS
    s1 = s1
    s2 = s2
    Streams <- TwoStreams
    OnDemand <- SecondStream
    Capacity = 1
    SpecPermits = {p1}
    AffineBudget = 1
    PoolThreads = 1
    MaxBatches = 1
    SpawnMayFail = FALSE
    MayShutdown = FALSE
INVARIANTS
    SpeculationConserved
    AffineConserved
    OnDemandExact
PROPERTIES
    PollIsAnswered
CHECK_DEADLOCK FALSE
