SPECIFICATION Spec
CONSTANTS
    Rows <- SixRows
    Group <- GroupOf
    Layouts <- MCLayouts
    Fields = 2
INVARIANTS
    EachRowOnce
CHECK_DEADLOCK FALSE
