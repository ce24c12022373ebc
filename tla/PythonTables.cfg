SPECIFICATION TablesSpec
CONSTANTS
    NULL = NULL
    Values <- MCValues
    Expressions <- MCExpressions
    Height <- MCHeight
    Kinds = {"dataset", "ibis", "python"}
    Queries <- MCQueries
    TableNames = {"t"}
    Readers = {"r"}
    Rereadable = {"a"}
    Backends = {"b"}
    Datasets = {"d"}
    Schema <- MCSchema
    SortLists <- MCSortLists
    Other = "other"
    MaxRegistered = 2
    MaxFrames = 2
    MaxRuns = 2
    MaxSources = 2
    Batches = 2
    Schemas <- MCSchemas
    Projections <- MCProjections
INVARIANTS
    TypeOK
    PushdownExact
    ScanSucceeds
    NoSilentLoss
    OrderingHolds
    ColumnsAsPlanned
CHECK_DEADLOCK FALSE
