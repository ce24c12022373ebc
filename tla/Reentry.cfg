SPECIFICATION SomeCalls
CONSTANTS
    s = s
    t = t
    Streams <- TwoStreams
    MaxCalls = 4
    Workers = 1
    PoolThreads = 3
    None = None
    Closer = Closer
INVARIANTS
    GilWithRunningCode
    OnlyAsyncReadsLockUp
PROPERTIES
    CallsReturn
CHECK_DEADLOCK FALSE
