SPECIFICATION AllSpec
CONSTANTS
    Rows <- SixRows
    Group <- GroupOf
    Layouts <- MCLayouts
    Fields = 1
    Sizes <- MCSizes
    Deals <- MCDeals
    Evaluators <- MCEvaluators
    Bounds = {0, 1}
    Null = Null
    Supports = {"yes", "no", "raises"}
    Values = {1, 2}
    MaxBatch = 2
    MaxArguments = 2
INVARIANTS
    QueriesTypeOK
    EachRowOnce
    PartitionsApart
    FramesExact
    RowsAligned
CHECK_DEADLOCK FALSE
