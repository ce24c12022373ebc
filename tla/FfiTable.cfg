SPECIFICATION Spec
CONSTANTS
    Frames = {f1, f2}
    MaxVersion = 2
SYMMETRY Symmetry
INVARIANTS
    NeverOutOfScope
    SessionCollected
    FallbackSinceImport
PROPERTIES
    PlanFunctionsKnown
    FallbackSettles
CHECK_DEADLOCK FALSE
