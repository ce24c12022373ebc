------------------------------- MODULE Session -------------------------------
(***************************************************************************)
(* The tables of a session and the data frames over them.  A name stands   *)
(* for a table until it is deregistered; a frame keeps the tables it was   *)
(* made from, and plans and executes anew each time it is run.  File       *)
(* tables are the business of Registration.                                *)
(*                                                                         *)
(* A table or a frame is the sequence of the sources it scans; a Table     *)
(* object of the catalog keeps a table like a frame.  A source             *)
(* is batches in memory, a Python object with an Arrow stream, which is    *)
(* asked for the stream when the first batch is pulled, a Python table     *)
(* (ibis, table provider), whose scan() gives a reader when the query is   *)
(* planned, or a pyarrow dataset, whose scanner is made on the first pull. *)
(* Recursive queries (external) execute a source of a plan again.          *)
(***************************************************************************)
EXTENDS Naturals, Sequences

CONSTANTS
    TableNames,
    Readers,        \* Python objects whose stream can be taken once
    Rereadable,     \* Python objects that give a stream whenever asked
    Backends,       \* Python tables
    Datasets,       \* pyarrow datasets
    Schema,         \* Schema[o]: the columns of a reader or a re-readable object
    SortLists,      \* sort_order arguments: sequences of columns, or of Other
    Other,          \* an expression that is no column
    MaxRegistered,  \* bound: registrations
    MaxFrames,      \* bound: data frames and Table objects
    MaxRuns,        \* bound: executions
    MaxSources,     \* bound: sources of a frame
    Batches         \* batches of every source

ASSUME ObjectsAssumption == Readers \cap Rereadable = {}
ASSUME BatchesAssumption == Batches \in Nat
ASSUME LimitsAssumption == MaxRegistered \in Nat
ASSUME SortListsAssumption ==
    \A list \in SortLists : list \in Seq({list[i] : i \in DOMAIN list})

DataFrames == 1..MaxFrames
Runs == 1..MaxRuns
Objects == Readers \cup Rereadable

VARIABLES
    catalog,    \* per name: its table, or NoTable
    registered, \* registrations so far
    frames,     \* per frame: the sources it scans, or NoTable
    used,       \* readers whose stream was taken
    at,         \* per reader: batches taken out of it
    status,     \* per run: "none", "reading", "ok", "gone" (failed or dropped)
    plan,       \* per run: the sources it scans
    state,      \* per run and source: "planned", "open", "end"
    first,      \* per run and source: where in the source its reading began
    pos,        \* per run and source: the batches up to which it has read
    again       \* per run: sources executed again

catalogVars == <<catalog, registered, frames>>
runVars == <<used, at, status, plan, state, first, pos, again>>
sessionVars == <<catalogVars, runVars>>

-----------------------------------------------------------------------------
NoTable == <<>>
Memory == [kind |-> "memory"]
Stream(o, declared, ordering) ==
    [kind |-> "stream", object |-> o, declared |-> declared, ordering |-> ordering]
Backend(o) == [kind |-> "backend", object |-> o]
Dataset(o) == [kind |-> "dataset", object |-> o]

(* The part of sort_order before its first column that the schema does not  *)
(* have.  Faulty variant: such columns are left out.                        *)
OrderingSkips(o, list) == SelectSeq(list, LAMBDA column : column \in Schema[o])
Ordering(o, list) ==
    LET kept == {n \in 0..Len(list) : \A i \in 1..n : list[i] \in Schema[o]}
    IN SubSeq(list, 1, CHOOSE n \in kept : \A m \in kept : m <= n)

(* Other stands in the part of the list that is looked at.                  *)
NotAColumn(o, list) ==
    \E i \in DOMAIN list : list[i] = Other /\ \A j \in 1..i - 1 : list[j] \in Schema[o]

SessionInit ==
    /\ catalog = [n \in TableNames |-> NoTable]
    /\ registered = 0
    /\ frames = [f \in DataFrames |-> NoTable]
    /\ used = {}
    /\ at = [r \in Readers |-> 0]
    /\ status = [x \in Runs |-> "none"]
    /\ plan = [x \in Runs |-> NoTable]
    /\ state = [x \in Runs |-> <<>>]
    /\ first = [x \in Runs |-> <<>>]
    /\ pos = [x \in Runs |-> <<>>]
    /\ again = [x \in Runs |-> {}]

-----------------------------------------------------------------------------
(* SessionContext::register_table (external) refuses a name that is taken.  *)
Register(n, table) ==
    /\ catalog[n] = NoTable
    /\ catalog' = [catalog EXCEPT ![n] = table]
    /\ registered < MaxRegistered /\ registered' = registered + 1
    /\ UNCHANGED <<frames, runVars>>

RegisterRecordBatches(n) == Register(n, <<Memory>>)

(* register_record_batch_reader: the object is asked for its schema, not    *)
(* for its stream.                                                          *)
RegisterRecordBatchReader(n, o, list) ==
    /\ ~NotAColumn(o, list)
    /\ Register(n, <<Stream(o, list, Ordering(o, list))>>)

(* register_ibis_table, register_table_provider.                            *)
RegisterBackend(n, o) == Register(n, <<Backend(o)>>)

RegisterDataset(n, o) == Register(n, <<Dataset(o)>>)

(* register_dataframe: a view of the plan of the frame; register_table.     *)
RegisterDataframe(n, f) == frames[f] # NoTable /\ Register(n, frames[f])

Deregister(n) ==
    /\ catalog' = [catalog EXCEPT ![n] = NoTable]
    /\ UNCHANGED <<registered, frames, runVars>>

-----------------------------------------------------------------------------
MakeFrame(f, sources) ==
    /\ frames[f] = NoTable
    /\ Len(sources) <= MaxSources
    /\ frames' = [frames EXCEPT ![f] = sources]

(* table, sql over one table, Database.table.                               *)
Table(f, n) ==
    /\ catalog[n] # NoTable
    /\ MakeFrame(f, catalog[n])
    /\ UNCHANGED <<catalog, registered, runVars>>

(* select_columns, limit, with_column_renamed, distinct, repartition.       *)
Derive(f, g) ==
    /\ frames[g] # NoTable
    /\ MakeFrame(f, frames[g])
    /\ UNCHANGED <<catalog, registered, runVars>>

(* join, union, intersect, except_all, and sql over several tables.         *)
Combine(f, g, h) ==
    /\ frames[g] # NoTable /\ frames[h] # NoTable
    /\ MakeFrame(f, frames[g] \o frames[h])
    /\ UNCHANGED <<catalog, registered, runVars>>

(* collect, count, show, execute_stream, the writes and cache: a plan of    *)
(* the frame's own, for which every Python table is scanned.                *)
Plan(x, f) ==
    /\ status[x] = "none" /\ frames[f] # NoTable
    /\ plan' = [plan EXCEPT ![x] = frames[f]]
    /\ status' = [status EXCEPT ![x] = "reading"]
    /\ state' = [state EXCEPT ![x] = [i \in DOMAIN frames[f] |-> "planned"]]
    /\ first' = [first EXCEPT ![x] = [i \in DOMAIN frames[f] |-> 0]]
    /\ pos' = [pos EXCEPT ![x] = [i \in DOMAIN frames[f] |-> 0]]
    /\ UNCHANGED <<catalogVars, used, at, again>>

Source(x, i) == plan[x][i]
OneUse(x, i) == Source(x, i).kind = "stream" /\ Source(x, i).object \in Readers

(* Where the reading of a source begins.  A reader goes on where it was     *)
(* left; so does the one that a scan() gave, over which every execution of  *)
(* the source iterates; all others begin anew.                              *)
Start(x, i) ==
    IF OneUse(x, i) THEN at[Source(x, i).object]
    ELSE IF Source(x, i).kind = "backend" THEN pos[x][i] ELSE 0

(* The first pull.  An object with a stream is asked for it; a reader gives *)
(* it once, and raises from then on, see Break.  Faulty variant: the object *)
(* is iterated over, which a reader lets happen twice.                      *)
OpenIterates(x, i) ==
    /\ status[x] = "reading" /\ i \in DOMAIN plan[x] /\ state[x][i] = "planned"
    /\ state' = [state EXCEPT ![x][i] = "open"]
    /\ first' = [first EXCEPT ![x][i] = Start(x, i)]
    /\ pos' = [pos EXCEPT ![x][i] = Start(x, i)]
    /\ used' = IF OneUse(x, i) THEN used \cup {Source(x, i).object} ELSE used
    /\ UNCHANGED <<catalogVars, at, status, plan, again>>

Open(x, i) ==
    /\ status[x] = "reading" /\ i \in DOMAIN plan[x] /\ state[x][i] = "planned"
    /\ OneUse(x, i) => Source(x, i).object \notin used
    /\ state' = [state EXCEPT ![x][i] = "open"]
    /\ first' = [first EXCEPT ![x][i] = Start(x, i)]
    /\ pos' = [pos EXCEPT ![x][i] = Start(x, i)]
    /\ used' = IF OneUse(x, i) THEN used \cup {Source(x, i).object} ELSE used
    /\ UNCHANGED <<catalogVars, at, status, plan, again>>

(* A recursive query executes a source once more.                           *)
ExecuteAgain(x, i) ==
    /\ status[x] = "reading" /\ i \in DOMAIN plan[x] /\ state[x][i] = "end"
    /\ i \notin again[x]
    /\ again' = [again EXCEPT ![x] = @ \cup {i}]
    /\ state' = [state EXCEPT ![x][i] = "planned"]
    /\ UNCHANGED <<catalogVars, used, at, status, plan, first, pos>>

(* A batch, or the end of the source.                                       *)
Pull(x, i) ==
    /\ status[x] = "reading" /\ i \in DOMAIN plan[x] /\ state[x][i] = "open"
    /\ IF pos[x][i] < Batches
       THEN /\ pos' = [pos EXCEPT ![x][i] = @ + 1]
            /\ at' = IF OneUse(x, i) THEN [at EXCEPT ![Source(x, i).object] = @ + 1] ELSE at
            /\ UNCHANGED state
       ELSE /\ state' = [state EXCEPT ![x][i] = "end"]
            /\ UNCHANGED <<pos, at>>
    /\ UNCHANGED <<catalogVars, used, status, plan, first, again>>

(* A scan, an open or a pull raises, or the stream is dropped: by Python,   *)
(* or by an operator that needs no more rows.                               *)
Break(x) ==
    /\ status[x] = "reading"
    /\ status' = [status EXCEPT ![x] = "gone"]
    /\ plan' = [plan EXCEPT ![x] = NoTable]
    /\ state' = [state EXCEPT ![x] = <<>>]
    /\ first' = [first EXCEPT ![x] = <<>>]
    /\ pos' = [pos EXCEPT ![x] = <<>>]
    /\ again' = [again EXCEPT ![x] = {}]
    /\ UNCHANGED <<catalogVars, used, at>>

(* The last batch is delivered.  cache makes a frame of the batches.        *)
Finish(x) ==
    /\ status[x] = "reading"
    /\ \A i \in DOMAIN plan[x] : state[x][i] = "end"
    /\ status' = [status EXCEPT ![x] = "ok"]
    /\ frames' = frames \/ \E f \in DataFrames : MakeFrame(f, <<Memory>>)
    /\ UNCHANGED <<catalog, registered, used, at, plan, state, first, pos, again>>

SessionNext ==
    \/ \E n \in TableNames :
        \/ RegisterRecordBatches(n) \/ Deregister(n)
        \/ \E o \in Objects, list \in SortLists : RegisterRecordBatchReader(n, o, list)
        \/ \E o \in Backends : RegisterBackend(n, o)
        \/ \E o \in Datasets : RegisterDataset(n, o)
        \/ \E f \in DataFrames : RegisterDataframe(n, f) \/ Table(f, n)
    \/ \E f, g \in DataFrames : Derive(f, g) \/ \E h \in DataFrames : Combine(f, g, h)
    \/ \E x \in Runs :
        \/ \E f \in DataFrames : Plan(x, f)
        \/ \E i \in 1..MaxSources : Open(x, i) \/ Pull(x, i) \/ ExecuteAgain(x, i)
        \/ Break(x) \/ Finish(x)

SessionSpec == SessionInit /\ [][SessionNext]_sessionVars

-----------------------------------------------------------------------------
(* Types, and that a run has a state and positions for each of its sources. *)
SessionTypeOK ==
    /\ DOMAIN catalog = TableNames /\ DOMAIN frames = DataFrames
    /\ registered \in 0..MaxRegistered
    /\ used \subseteq Readers
    /\ at \in [Readers -> 0..Batches]
    /\ status \in [Runs -> {"none", "reading", "ok", "gone"}]
    /\ \A x \in Runs :
        /\ state[x] \in [DOMAIN plan[x] -> {"planned", "open", "end"}]
        /\ first[x] \in [DOMAIN plan[x] -> 0..Batches]
        /\ pos[x] \in [DOMAIN plan[x] -> 0..Batches]
        /\ again[x] \subseteq DOMAIN plan[x]

(* A run that ends well has read each of its sources from the first batch   *)
(* to the last: a reader that is used up is an error, whichever run, or     *)
(* other part of the same plan, used it.  What a Python table's scan() gave *)
(* has no such guard: executed again by the same plan, it has nothing left. *)
NoSilentLoss ==
    \A x \in Runs : status[x] = "ok" => \A i \in DOMAIN plan[x] :
        /\ pos[x][i] = Batches
        /\ first[x][i] = 0 \/ (Source(x, i).kind = "backend" /\ i \in again[x])

(* Rows, as functions from columns to values, in the order of a list.       *)
InOrder(r, s, list) ==
    \/ \A i \in DOMAIN list : r[list[i]] = s[list[i]]
    \/ \E i \in DOMAIN list :
        /\ r[list[i]] < s[list[i]]
        /\ \A j \in 1..i - 1 : r[list[j]] = s[list[j]]

(* Rows in the order that the caller declared are in the order that the     *)
(* table claims, though the claim covers the columns of the schema only.    *)
OrderingHolds ==
    \A n \in TableNames : \A k \in DOMAIN catalog[n] :
        LET source == catalog[n][k]
        IN source.kind = "stream" =>
            LET columns == {source.declared[i] : i \in DOMAIN source.declared}
            IN \A r, s \in [columns -> {0, 1}] :
                InOrder(r, s, source.declared) => InOrder(r, s, source.ordering)
=============================================================================
