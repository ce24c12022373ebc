SPECIFICATION FairSpec
CONSTANTS
    s1 = s1
    s2 = s2
    Streams <- OneStream
    OnDemand <- NoStream
    Capacity = 2
    SpecPermits = {p1, p2}
    AffineBudget = 1
    PoolThreads = 1
    MaxBatches = 4
    SpawnMayFail = TRUE
    MayShutdown = TRUE
INVARIANTS
    InOrder
    NoSilentTruncation
    BoundedReadAhead
    AtMostOnePullAfterDrop
    ReaderStaysOnItsThread
PROPERTIES
    PullContract
    IsBatchStream
    PollIsAnswered
    DropReleases
CHECK_DEADLOCK FALSE
