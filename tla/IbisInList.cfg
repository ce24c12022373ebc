SPECIFICATION Spec
CONSTANTS
    NULL = NULL
    Values <- MCValues
    Expressions <- MCExpressions
    Height <- MCHeight
    Kinds = {"ibis"}
    Queries <- InQueries
INVARIANTS
    PushdownExact
CHECK_DEADLOCK FALSE
