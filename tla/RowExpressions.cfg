SPECIFICATION Spec
CONSTANTS
    NULL = NULL
    Expressions <- MCExpressions
    Nodes <- MCNodes
    Height <- MCHeight
    Rows <- MCRows
INVARIANTS
    TypeOK
    WalkFindsColumns
    ReadingsKeepMeaning
    PythonTypeStable
    SqlClosed
PROPERTY
    WalkEnds
CHECK_DEADLOCK FALSE
