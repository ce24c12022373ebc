SPECIFICATION Spec
CONSTANTS
    Callers = {c1, c2}
    Locations <- MCLocations
    Kind <- MCKind
    Names = {"t"}
    Requests <- MCRequests
SYMMETRY Symmetry
INVARIANTS
    AssuredTablesReadable
    SomeStoreRegistered
