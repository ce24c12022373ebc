---------------------------- MODULE PythonTables ----------------------------
(***************************************************************************)
(* Tables of Python objects, seen from three sides: what a session keeps   *)
(* of them and reads from them (Session), what a query's filters become on *)
(* their way into a scan (FilterPushdown), and what columns come out of it *)
(* (ScanSchemas).  The sides share no state: a behaviour shows one of them *)
(* and leaves the others as they begin.                                    *)
(***************************************************************************)
EXTENDS FilterPushdown, Session, ScanSchemas

VARIABLE side

(* A side that is not shown has one initial state.                          *)
FiltersIdle ==
    /\ kind = CHOOSE k \in Kinds : TRUE
    /\ query = CHOOSE q \in Queries[kind] : TRUE
    /\ verdict = <<>> /\ phase = "planning" /\ rows = {}

ScanIdle ==
    /\ source = "stream" /\ declared = CHOOSE s \in Schemas : TRUE
    /\ reported = NoSchema /\ projection = <<>> /\ advertised = NoSchema
    /\ batch = NoBatch /\ step = "registered"

TablesInit ==
    /\ SessionInit
    /\ \/ side = "session" /\ FiltersIdle /\ ScanIdle
       \/ side = "filters" /\ Init /\ ScanIdle
       \/ side = "schemas" /\ FiltersIdle /\ ScanInit

TablesNext ==
    \/ side = "session" /\ SessionNext /\ UNCHANGED <<side, vars, scanVars>>
    \/ side = "filters" /\ Next /\ UNCHANGED <<side, sessionVars, scanVars>>
    \/ side = "schemas" /\ ScanNext /\ UNCHANGED <<side, sessionVars, vars>>

TablesSpec == TablesInit /\ [][TablesNext]_<<side, vars, sessionVars, scanVars>>
=============================================================================
