------------------------- MODULE PythonTablesProofs -------------------------
(***************************************************************************)
(* Theorems about the three sides of PythonTables.                         *)
(*                                                                         *)
(* Session, for any tables, frames, runs, objects, sort lists and numbers  *)
(* of batches: Reading and OneReader are the strengthening for             *)
(* NoSilentLoss: a reader whose stream was not taken is at its beginning,  *)
(* and one that was taken is read by one source of one run at most, which  *)
(* is where the reader is.  OrderingHolds rests on two facts about         *)
(* sequences: the claimed order is a prefix of the declared one, and a     *)
(* prefix of an order is implied by it.                                    *)
(*                                                                         *)
(* ScanSchemas, for any schemas and projections.  Nothing is assumed of    *)
(* either: the projections of two schemas by the same positions are equal  *)
(* when they agree at each, which is what the bridge compares.             *)
(*                                                                         *)
(* FilterPushdown, for expressions of any size: by induction on the        *)
(* expression, its translation lets the same rows pass as SQL.             *)
(***************************************************************************)
EXTENDS FilterPushdown, Session, ScanSchemas, TLAPS, WellFoundedInduction

-----------------------------------------------------------------------------
(* Session.                                                                 *)

AllSources ==
    {Memory}
    \cup {Stream(o, list, Ordering(o, list)) : o \in Objects, list \in SortLists}
    \cup {Backend(o) : o \in Backends}
    \cup {Dataset(o) : o \in Datasets}

Stages == {"planned", "open", "end"}
Statuses == {"none", "reading", "ok", "gone"}

CatalogTypes ==
    /\ catalog \in [TableNames -> Seq(AllSources)]
    /\ frames \in [DataFrames -> Seq(AllSources)]
    /\ registered \in 0..MaxRegistered

RunTypes ==
    /\ used \subseteq Readers
    /\ at \in [Readers -> 0..Batches]
    /\ status \in [Runs -> Statuses]
    /\ plan \in [Runs -> Seq(AllSources)]
    /\ state \in [Runs -> Seq(Stages)]
    /\ first \in [Runs -> Seq(0..Batches)]
    /\ pos \in [Runs -> Seq(0..Batches)]
    /\ again \in [Runs -> SUBSET Nat]
    /\ \A x \in Runs :
        /\ DOMAIN state[x] = DOMAIN plan[x]
        /\ DOMAIN first[x] = DOMAIN plan[x]
        /\ DOMAIN pos[x] = DOMAIN plan[x]
        /\ again[x] \subseteq DOMAIN plan[x]
        /\ status[x] = "none" => plan[x] = NoTable

(* Where the source i of the run x is read from and to.                     *)
ReadingOf(x, i) ==
    /\ state[x][i] = "end" => pos[x][i] = Batches
    /\ first[x][i] = 0 \/ (Source(x, i).kind = "backend" /\ i \in again[x])
    /\ state[x][i] = "planned" /\ i \notin again[x] => pos[x][i] = 0
    /\ OneUse(x, i) /\ state[x][i] # "planned" => Source(x, i).object \in used
    /\ OneUse(x, i) /\ state[x][i] = "open" => pos[x][i] = at[Source(x, i).object]
    /\ status[x] = "ok" => state[x][i] = "end"

Reading ==
    /\ \A r \in Readers : r \notin used => at[r] = 0
    /\ \A x \in Runs : \A i \in DOMAIN plan[x] : ReadingOf(x, i)

(* The sources that read the reader r.                                      *)
Reads(x, i, r) == OneUse(x, i) /\ Source(x, i).object = r /\ state[x][i] = "open"

OneReader ==
    \A x, y \in Runs : \A i \in DOMAIN plan[x], j \in DOMAIN plan[y] : \A r \in Readers :
        Reads(x, i, r) /\ Reads(y, j, r) => x = y /\ i = j

Inv == CatalogTypes /\ RunTypes /\ Reading /\ OneReader

-----------------------------------------------------------------------------
(* Updating one element of one sequence.                                    *)
LEMMA UpdateOne ==
    ASSUME NEW S, NEW T, NEW f \in [S -> Seq(T)], NEW x \in S, NEW i \in DOMAIN f[x],
           NEW e \in T, NEW g, g = [f EXCEPT ![x] = [f[x] EXCEPT ![i] = e]]
    PROVE  /\ g \in [S -> Seq(T)]
           /\ \A y \in S : DOMAIN g[y] = DOMAIN f[y]
           /\ \A y \in S : y # x => g[y] = f[y]
           /\ \A j \in DOMAIN f[x] : g[x][j] = IF j = i THEN e ELSE f[x][j]
<1> DEFINE s == [f[x] EXCEPT ![i] = e]
<1>1. f[x] \in Seq(T)
    OBVIOUS
<1>2. DOMAIN s = 1..Len(f[x]) /\ Len(f[x]) \in Nat
    BY <1>1
<1>3. \A j \in 1..Len(f[x]) : s[j] \in T
    BY <1>1
<1>4. s \in Seq(T)
    BY <1>2, <1>3
<1> QED
    BY <1>1, <1>2, <1>4

(* A sequence of one value.                                                 *)
LEMMA Constantly ==
    ASSUME NEW S, NEW T, NEW s \in Seq(S), NEW e \in T
    PROVE  [i \in DOMAIN s |-> e] \in Seq(T)
    OBVIOUS

LEMMA ElementOf ==
    ASSUME NEW S, NEW s \in Seq(S), NEW i \in DOMAIN s
    PROVE  s[i] \in S
<1>1. DOMAIN s = 1..Len(s)
    OBVIOUS
<1> QED
    BY <1>1

LEMMA SequenceIsFunction == ASSUME NEW S, NEW s \in Seq(S) PROVE s \in [DOMAIN s -> S]
<1>1. DOMAIN s = 1..Len(s) /\ s \in [1..Len(s) -> S]
    OBVIOUS
<1> QED
    BY <1>1

LEMMA NoTableIsSequence == ASSUME NEW S PROVE NoTable \in Seq(S) /\ DOMAIN NoTable = {}
    BY DEF NoTable

-----------------------------------------------------------------------------
LEMMA InitInv == SessionInit => Inv
<1> SUFFICES ASSUME SessionInit PROVE Inv
    OBVIOUS
<1> USE DEF SessionInit
<1>1. CatalogTypes
    BY NoTableIsSequence, LimitsAssumption DEF CatalogTypes
<1>2. RunTypes
    BY NoTableIsSequence, BatchesAssumption DEF RunTypes, Statuses, NoTable
<1>3. Reading /\ OneReader
    BY NoTableIsSequence DEF Reading, OneReader
<1> QED
    BY <1>1, <1>2, <1>3 DEF Inv

(* A step that leaves the runs alone.                                       *)
LEMMA CatalogStep == Inv /\ UNCHANGED runVars => RunTypes' /\ Reading' /\ OneReader'
    BY DEF Inv, runVars, RunTypes, Reading, ReadingOf, OneReader, Reads, OneUse, Source

(* Every registration is one of a source.                                   *)
LEMMA RegisterTypes ==
    ASSUME CatalogTypes, NEW n \in TableNames, NEW table \in Seq(AllSources),
           Register(n, table)
    PROVE  CatalogTypes'
<1>1. catalog' = [catalog EXCEPT ![n] = table] /\ frames' = frames
    BY DEF Register
<1>2. registered' \in 0..MaxRegistered
    BY LimitsAssumption DEF Register, CatalogTypes
<1> QED
    BY <1>1, <1>2 DEF CatalogTypes

LEMMA FrameTypes ==
    ASSUME CatalogTypes, NEW f \in DataFrames, NEW sources \in Seq(AllSources),
           MakeFrame(f, sources), UNCHANGED <<catalog, registered>>
    PROVE  CatalogTypes'
    BY DEF MakeFrame, CatalogTypes

LEMMA SourcesAre ==
    /\ <<Memory>> \in Seq(AllSources)
    /\ \A o \in Objects, list \in SortLists :
        <<Stream(o, list, Ordering(o, list))>> \in Seq(AllSources)
    /\ \A o \in Backends : <<Backend(o)>> \in Seq(AllSources)
    /\ \A o \in Datasets : <<Dataset(o)>> \in Seq(AllSources)
<1>1. \A s \in AllSources : <<s>> \in Seq(AllSources)
    OBVIOUS
<1>2. Memory \in AllSources
    BY DEF AllSources
<1>3. \A o \in Objects, list \in SortLists : Stream(o, list, Ordering(o, list)) \in AllSources
    BY DEF AllSources
<1>4. \A o \in Backends : Backend(o) \in AllSources
    BY DEF AllSources
<1>5. \A o \in Datasets : Dataset(o) \in AllSources
    BY DEF AllSources
<1> QED
    BY <1>1, <1>2, <1>3, <1>4, <1>5

LEMMA TableInv ==
    ASSUME Inv, NEW n \in TableNames,
           \/ RegisterRecordBatches(n) \/ Deregister(n)
           \/ \E o \in Objects, list \in SortLists : RegisterRecordBatchReader(n, o, list)
           \/ \E o \in Backends : RegisterBackend(n, o)
           \/ \E o \in Datasets : RegisterDataset(n, o)
           \/ \E f \in DataFrames : RegisterDataframe(n, f) \/ Table(f, n)
    PROVE  Inv'
<1> USE DEF Inv
<1>1. UNCHANGED runVars
    BY DEF RegisterRecordBatches, Deregister, RegisterRecordBatchReader, RegisterBackend,
           RegisterDataset, RegisterDataframe, Table, Register
<1>2. CASE \E table \in Seq(AllSources) : Register(n, table)
    BY <1>1, <1>2, RegisterTypes, CatalogStep
<1>3. CASE RegisterRecordBatches(n)
    BY <1>2, <1>3, SourcesAre DEF RegisterRecordBatches
<1>4. ASSUME NEW o \in Objects, NEW list \in SortLists, RegisterRecordBatchReader(n, o, list)
      PROVE  Inv'
    BY <1>2, <1>4, SourcesAre DEF RegisterRecordBatchReader
<1>5. ASSUME NEW o \in Backends, RegisterBackend(n, o) PROVE Inv'
    BY <1>2, <1>5, SourcesAre DEF RegisterBackend
<1>6. ASSUME NEW o \in Datasets, RegisterDataset(n, o) PROVE Inv'
    BY <1>2, <1>6, SourcesAre DEF RegisterDataset
<1>7. ASSUME NEW f \in DataFrames, RegisterDataframe(n, f) PROVE Inv'
    BY <1>2, <1>7 DEF RegisterDataframe, CatalogTypes
<1>8. CASE Deregister(n)
  <2>1. CatalogTypes'
    BY <1>8, NoTableIsSequence DEF Deregister, CatalogTypes
  <2> QED
    BY <1>1, <2>1, CatalogStep
<1>9. ASSUME NEW f \in DataFrames, Table(f, n) PROVE Inv'
  <2>1. catalog[n] \in Seq(AllSources)
    BY DEF CatalogTypes
  <2> QED
    BY <1>1, <1>9, <2>1, FrameTypes, CatalogStep DEF Table
<1> QED
    BY <1>3, <1>4, <1>5, <1>6, <1>7, <1>8, <1>9

LEMMA CombineInv ==
    ASSUME Inv, NEW f \in DataFrames, NEW g \in DataFrames,
           Derive(f, g) \/ \E h \in DataFrames : Combine(f, g, h)
    PROVE  Inv'
<1>1. UNCHANGED runVars
    BY DEF Derive, Combine
<1>2. CatalogTypes
    BY DEF Inv
<1>3. CASE Derive(f, g)
  <2>1. frames[g] \in Seq(AllSources)
    BY <1>2 DEF CatalogTypes
  <2> QED
    BY <1>1, <1>2, <1>3, <2>1, FrameTypes, CatalogStep DEF Derive, Inv
<1>4. ASSUME NEW h \in DataFrames, Combine(f, g, h) PROVE Inv'
  <2>1. frames[g] \o frames[h] \in Seq(AllSources)
    BY <1>2 DEF CatalogTypes
  <2> QED
    BY <1>1, <1>2, <1>4, <2>1, FrameTypes, CatalogStep DEF Combine, Inv
<1> QED
    BY <1>3, <1>4

-----------------------------------------------------------------------------
(* The steps of a run keep the catalog's types.                             *)
LEMMA SameCatalog == Inv /\ UNCHANGED catalogVars => CatalogTypes'
    BY DEF Inv, CatalogTypes, catalogVars

LEMMA PlanInv ==
    ASSUME Inv, NEW x \in Runs, NEW f \in DataFrames, Plan(x, f)
    PROVE  Inv'
<1> DEFINE s == frames[f]
<1>1. s \in Seq(AllSources) /\ CatalogTypes'
    BY SameCatalog DEF Inv, CatalogTypes, Plan
<1>2. /\ [i \in DOMAIN s |-> "planned"] \in Seq(Stages)
      /\ [i \in DOMAIN s |-> 0] \in Seq(0..Batches)
    BY <1>1, Constantly, BatchesAssumption DEF Stages
<1>3. RunTypes /\ plan[x] = NoTable /\ again[x] = {}
    BY NoTableIsSequence DEF Inv, RunTypes, Plan
<1>4. /\ plan' = [plan EXCEPT ![x] = s] /\ status' = [status EXCEPT ![x] = "reading"]
      /\ state' = [state EXCEPT ![x] = [i \in DOMAIN s |-> "planned"]]
      /\ first' = [first EXCEPT ![x] = [i \in DOMAIN s |-> 0]]
      /\ pos' = [pos EXCEPT ![x] = [i \in DOMAIN s |-> 0]]
      /\ used' = used /\ at' = at /\ again' = again
    BY DEF Plan
<1>5. RunTypes'
    BY <1>1, <1>2, <1>3, <1>4 DEF RunTypes, Statuses
<1>6. ASSUME NEW y \in Runs, y # x
      PROVE  /\ plan'[y] = plan[y] /\ status'[y] = status[y] /\ state'[y] = state[y]
             /\ first'[y] = first[y] /\ pos'[y] = pos[y]
    BY <1>3, <1>4, <1>6 DEF RunTypes
<1>7. ASSUME NEW i \in DOMAIN plan'[x]
      PROVE  state'[x][i] = "planned" /\ first'[x][i] = 0 /\ pos'[x][i] = 0
    BY <1>3, <1>4 DEF RunTypes
<1>8. status'[x] = "reading"
    BY <1>3, <1>4 DEF RunTypes
<1>9. Reading'
  <2>1. ASSUME NEW y \in Runs, NEW i \in DOMAIN plan'[y] PROVE ReadingOf(y, i)'
    <3>1. CASE y = x
      BY <1>4, <1>7, <1>8, <3>1 DEF ReadingOf
    <3>2. CASE y # x
      BY <1>4, <1>6, <3>2 DEF ReadingOf, OneUse, Source, Inv, Reading
    <3> QED
      BY <3>1, <3>2
  <2> QED
    BY <1>4, <2>1 DEF Reading, Inv
<1>10. OneReader'
    BY <1>4, <1>6, <1>7 DEF OneReader, Reads, OneUse, Source, Inv
<1> QED
    BY <1>1, <1>5, <1>9, <1>10 DEF Inv

(* A run that is given up has no sources any more.                          *)
LEMMA BreakInv ==
    ASSUME Inv, NEW x \in Runs, Break(x)
    PROVE  Inv'
<1>1. RunTypes /\ CatalogTypes'
    BY SameCatalog DEF Inv, Break
<1>2. /\ plan' = [plan EXCEPT ![x] = NoTable] /\ status' = [status EXCEPT ![x] = "gone"]
      /\ state' = [state EXCEPT ![x] = NoTable] /\ first' = [first EXCEPT ![x] = NoTable]
      /\ pos' = [pos EXCEPT ![x] = NoTable] /\ again' = [again EXCEPT ![x] = {}]
      /\ used' = used /\ at' = at
    BY DEF Break, NoTable
<1>3. RunTypes'
    BY <1>1, <1>2, NoTableIsSequence DEF RunTypes, Statuses
<1>4. ASSUME NEW y \in Runs, y # x
      PROVE  /\ plan'[y] = plan[y] /\ status'[y] = status[y] /\ state'[y] = state[y]
             /\ first'[y] = first[y] /\ pos'[y] = pos[y] /\ again'[y] = again[y]
    BY <1>1, <1>2, <1>4 DEF RunTypes
<1>5. DOMAIN plan'[x] = {}
    BY <1>1, <1>2, NoTableIsSequence DEF RunTypes
<1>6. Reading'
  <2>1. ASSUME NEW y \in Runs, NEW i \in DOMAIN plan'[y] PROVE ReadingOf(y, i)'
    BY <1>2, <1>4, <1>5 DEF ReadingOf, OneUse, Source, Inv, Reading
  <2> QED
    BY <1>2, <2>1 DEF Reading, Inv
<1>7. OneReader'
    BY <1>4, <1>5 DEF OneReader, Reads, OneUse, Source, Inv
<1> QED
    BY <1>1, <1>3, <1>6, <1>7 DEF Inv

(* A run ends when each of its sources has; cache makes a frame.            *)
LEMMA FinishInv ==
    ASSUME Inv, NEW x \in Runs, Finish(x)
    PROVE  Inv'
<1>1. RunTypes /\ CatalogTypes
    BY DEF Inv
<1>2. /\ status' = [status EXCEPT ![x] = "ok"] /\ status[x] = "reading"
      /\ UNCHANGED <<used, at, plan, state, first, pos, again>>
      /\ \A i \in DOMAIN plan[x] : state[x][i] = "end"
    BY DEF Finish
<1>3. CatalogTypes'
  <2>1. CASE frames' = frames
    BY <1>1, <2>1 DEF CatalogTypes, Finish
  <2>2. ASSUME NEW f \in DataFrames, MakeFrame(f, <<Memory>>) PROVE CatalogTypes'
    BY <1>1, <2>2, SourcesAre, FrameTypes DEF Finish
  <2> QED
    BY <2>1, <2>2 DEF Finish
<1>4. RunTypes'
    BY <1>1, <1>2 DEF RunTypes, Statuses
<1>5. Reading'
  <2>1. ASSUME NEW y \in Runs, NEW i \in DOMAIN plan[y] PROVE ReadingOf(y, i)'
    BY <1>1, <1>2 DEF ReadingOf, OneUse, Source, Inv, Reading, RunTypes
  <2> QED
    BY <1>2, <2>1 DEF Reading, Inv
<1>6. OneReader'
    BY <1>2 DEF OneReader, Reads, OneUse, Source, Inv
<1> QED
    BY <1>3, <1>4, <1>5, <1>6 DEF Inv

(* A source that is opened is read from its beginning, unless it is what a  *)
(* scan() gave and is executed again.                                       *)
LEMMA StartsAtZero ==
    ASSUME Inv, NEW x \in Runs, NEW i \in DOMAIN plan[x], state[x][i] = "planned",
           OneUse(x, i) => Source(x, i).object \notin used
    PROVE  /\ Start(x, i) \in 0..Batches
           /\ Start(x, i) = 0 \/ (Source(x, i).kind = "backend" /\ i \in again[x])
           /\ OneUse(x, i) => Start(x, i) = at[Source(x, i).object]
<1>1. pos[x][i] \in 0..Batches /\ ReadingOf(x, i)
  <2>1. pos[x] \in Seq(0..Batches) /\ i \in DOMAIN pos[x]
    BY DEF Inv, RunTypes
  <2>2. pos[x][i] \in 0..Batches
    BY <2>1, ElementOf
  <2> QED
    BY <2>2 DEF Inv, Reading
<1>2. CASE OneUse(x, i)
    BY <1>2, BatchesAssumption DEF Start, OneUse, Inv, Reading
<1>3. CASE ~OneUse(x, i) /\ Source(x, i).kind = "backend"
    BY <1>1, <1>3 DEF Start, ReadingOf
<1>4. CASE ~OneUse(x, i) /\ Source(x, i).kind # "backend"
    BY <1>4, BatchesAssumption DEF Start
<1> QED
    BY <1>2, <1>3, <1>4

LEMMA OpenInv ==
    ASSUME Inv, NEW x \in Runs, NEW i, Open(x, i)
    PROVE  Inv'
<1> DEFINE o == Source(x, i).object
<1>1. /\ i \in DOMAIN plan[x] /\ status[x] = "reading" /\ state[x][i] = "planned"
      /\ OneUse(x, i) => o \in Readers \ used
      /\ state' = [state EXCEPT ![x] = [state[x] EXCEPT ![i] = "open"]]
      /\ first' = [first EXCEPT ![x] = [first[x] EXCEPT ![i] = Start(x, i)]]
      /\ pos' = [pos EXCEPT ![x] = [pos[x] EXCEPT ![i] = Start(x, i)]]
      /\ used' = IF OneUse(x, i) THEN used \cup {o} ELSE used
      /\ at' = at /\ status' = status /\ plan' = plan /\ again' = again
    BY DEF Open, OneUse
<1>2. RunTypes /\ Reading /\ OneReader /\ CatalogTypes'
    BY SameCatalog DEF Inv, Open
<1>3. /\ Start(x, i) \in 0..Batches
      /\ Start(x, i) = 0 \/ (Source(x, i).kind = "backend" /\ i \in again[x])
      /\ OneUse(x, i) => Start(x, i) = at[o]
    BY <1>1, StartsAtZero
<1>4. /\ state' \in [Runs -> Seq(Stages)]
      /\ \A y \in Runs : DOMAIN state'[y] = DOMAIN state[y]
      /\ \A y \in Runs : y # x => state'[y] = state[y]
      /\ \A j \in DOMAIN state[x] : state'[x][j] = IF j = i THEN "open" ELSE state[x][j]
  <2>1. state \in [Runs -> Seq(Stages)] /\ i \in DOMAIN state[x] /\ "open" \in Stages
    BY <1>1, <1>2 DEF RunTypes, Stages
  <2> QED
    BY <1>1, <2>1, UpdateOne
<1>5. /\ first' \in [Runs -> Seq(0..Batches)]
      /\ \A y \in Runs : DOMAIN first'[y] = DOMAIN first[y]
      /\ \A y \in Runs : y # x => first'[y] = first[y]
      /\ \A j \in DOMAIN first[x] : first'[x][j] = IF j = i THEN Start(x, i) ELSE first[x][j]
  <2>1. first \in [Runs -> Seq(0..Batches)] /\ i \in DOMAIN first[x]
    BY <1>1, <1>2 DEF RunTypes
  <2> HIDE DEF Start
  <2> QED
    BY <1>1, <1>3, <2>1, UpdateOne
<1>6. /\ pos' \in [Runs -> Seq(0..Batches)]
      /\ \A y \in Runs : DOMAIN pos'[y] = DOMAIN pos[y]
      /\ \A y \in Runs : y # x => pos'[y] = pos[y]
      /\ \A j \in DOMAIN pos[x] : pos'[x][j] = IF j = i THEN Start(x, i) ELSE pos[x][j]
  <2>1. pos \in [Runs -> Seq(0..Batches)] /\ i \in DOMAIN pos[x]
    BY <1>1, <1>2 DEF RunTypes
  <2> QED
    BY <1>1, <1>3, <2>1, UpdateOne
<1>7. RunTypes'
    BY <1>1, <1>2, <1>4, <1>5, <1>6 DEF RunTypes
<1>8. \A y \in Runs : \A j \in DOMAIN plan[y] :
        (OneUse(y, j)' <=> OneUse(y, j)) /\ Source(y, j)' = Source(y, j)
    BY <1>1 DEF OneUse, Source
<1>9. ASSUME NEW y \in Runs, NEW j \in DOMAIN plan[y], y # x \/ j # i
      PROVE  state'[y][j] = state[y][j] /\ first'[y][j] = first[y][j] /\ pos'[y][j] = pos[y][j]
    BY <1>2, <1>4, <1>5, <1>6, <1>9 DEF RunTypes
<1>10. state'[x][i] = "open" /\ first'[x][i] = Start(x, i) /\ pos'[x][i] = Start(x, i)
    BY <1>1, <1>2, <1>4, <1>5, <1>6 DEF RunTypes
<1>11. Reading'
  <2>1. ReadingOf(x, i)'
    BY <1>1, <1>3, <1>8, <1>10 DEF ReadingOf
  <2>2. ASSUME NEW y \in Runs, NEW j \in DOMAIN plan[y], y # x \/ j # i
        PROVE  ReadingOf(y, j)'
    BY <1>1, <1>2, <1>8, <1>9, <2>2 DEF ReadingOf, Reading
  <2>3. \A r \in Readers : r \notin used' => at'[r] = 0
    BY <1>1, <1>2 DEF Reading
  <2> QED
    BY <1>1, <2>1, <2>2, <2>3 DEF Reading
<1>12. OneReader'
  <2> SUFFICES ASSUME NEW y \in Runs, NEW z \in Runs, NEW j \in DOMAIN plan[y],
                      NEW k \in DOMAIN plan[z], NEW r \in Readers,
                      Reads(y, j, r)', Reads(z, k, r)'
               PROVE  y = z /\ j = k
    BY <1>1 DEF OneReader
  <2>1. ASSUME NEW v \in Runs, NEW l \in DOMAIN plan[v], Reads(v, l, r)', v # x \/ l # i
        PROVE  Reads(v, l, r) /\ r \in used
    BY <1>2, <1>8, <1>9, <2>1 DEF Reads, Reading, ReadingOf
  <2>2. Reads(x, i, r)' => r \notin used
    BY <1>1, <1>8 DEF Reads
  <2> QED
    BY <1>2, <2>1, <2>2 DEF OneReader
<1> QED
    BY <1>2, <1>7, <1>11, <1>12 DEF Inv

LEMMA ExecuteAgainInv ==
    ASSUME Inv, NEW x \in Runs, NEW i, ExecuteAgain(x, i)
    PROVE  Inv'
<1>1. /\ i \in DOMAIN plan[x] /\ status[x] = "reading" /\ state[x][i] = "end"
      /\ again' = [again EXCEPT ![x] = again[x] \cup {i}]
      /\ state' = [state EXCEPT ![x] = [state[x] EXCEPT ![i] = "planned"]]
      /\ UNCHANGED <<used, at, status, plan, first, pos>>
    BY DEF ExecuteAgain
<1>2. RunTypes /\ Reading /\ OneReader /\ CatalogTypes'
    BY SameCatalog DEF Inv, ExecuteAgain
<1>3. /\ state' \in [Runs -> Seq(Stages)]
      /\ \A y \in Runs : DOMAIN state'[y] = DOMAIN state[y]
      /\ \A y \in Runs : y # x => state'[y] = state[y]
      /\ \A j \in DOMAIN state[x] : state'[x][j] = IF j = i THEN "planned" ELSE state[x][j]
  <2>1. state \in [Runs -> Seq(Stages)] /\ i \in DOMAIN state[x] /\ "planned" \in Stages
    BY <1>1, <1>2 DEF RunTypes, Stages
  <2> QED
    BY <1>1, <2>1, UpdateOne
<1>4. i \in Nat
    BY <1>1, <1>2 DEF RunTypes
<1>5. RunTypes'
    BY <1>1, <1>2, <1>3, <1>4 DEF RunTypes
<1>6. \A y \in Runs : \A j \in DOMAIN plan[y] :
        (OneUse(y, j)' <=> OneUse(y, j)) /\ Source(y, j)' = Source(y, j)
    BY <1>1 DEF OneUse, Source
<1>7. ASSUME NEW y \in Runs, NEW j \in DOMAIN plan[y], y # x \/ j # i
      PROVE  state'[y][j] = state[y][j] /\ (j \in again'[y] <=> j \in again[y])
    BY <1>1, <1>2, <1>3, <1>7 DEF RunTypes
<1>8. state'[x][i] = "planned" /\ i \in again'[x]
    BY <1>1, <1>2, <1>3 DEF RunTypes
<1>9. Reading'
  <2>1. ReadingOf(x, i)'
    BY <1>1, <1>2, <1>6, <1>8 DEF ReadingOf, Reading
  <2>2. ASSUME NEW y \in Runs, NEW j \in DOMAIN plan[y], y # x \/ j # i
        PROVE  ReadingOf(y, j)'
    BY <1>1, <1>2, <1>6, <1>7, <2>2 DEF ReadingOf, Reading
  <2> QED
    BY <1>1, <1>2, <2>1, <2>2 DEF Reading
<1>10. OneReader'
    BY <1>1, <1>2, <1>6, <1>7, <1>8 DEF OneReader, Reads
<1> QED
    BY <1>2, <1>5, <1>9, <1>10 DEF Inv

(* A batch is taken out of a source, and of the reader behind it, which no  *)
(* other source reads.                                                      *)
LEMMA PullInv ==
    ASSUME Inv, NEW x \in Runs, NEW i, Pull(x, i)
    PROVE  Inv'
<1> DEFINE o == Source(x, i).object
<1>1. /\ i \in DOMAIN plan[x] /\ status[x] = "reading" /\ state[x][i] = "open"
      /\ UNCHANGED <<used, status, plan, first, again>>
    BY DEF Pull
<1>2. RunTypes /\ Reading /\ OneReader /\ CatalogTypes' /\ ReadingOf(x, i)
    BY <1>1, SameCatalog DEF Inv, Pull, Reading
<1>3. \A y \in Runs : \A j \in DOMAIN plan[y] :
        (OneUse(y, j)' <=> OneUse(y, j)) /\ Source(y, j)' = Source(y, j)
    BY <1>1 DEF OneUse, Source
<1>4. pos[x][i] \in 0..Batches
  <2>1. pos[x] \in Seq(0..Batches) /\ i \in DOMAIN pos[x]
    BY <1>1, <1>2 DEF RunTypes
  <2> QED
    BY <2>1, ElementOf
<1>5. CASE pos[x][i] < Batches
  <2>1. /\ pos' = [pos EXCEPT ![x] = [pos[x] EXCEPT ![i] = pos[x][i] + 1]]
        /\ at' = IF OneUse(x, i) THEN [at EXCEPT ![o] = at[o] + 1] ELSE at
        /\ state' = state
    BY <1>5 DEF Pull
  <2>2. /\ pos' \in [Runs -> Seq(0..Batches)]
        /\ \A y \in Runs : DOMAIN pos'[y] = DOMAIN pos[y]
        /\ \A y \in Runs : y # x => pos'[y] = pos[y]
        /\ \A j \in DOMAIN pos[x] : pos'[x][j] = IF j = i THEN pos[x][i] + 1 ELSE pos[x][j]
    <3>1. /\ pos \in [Runs -> Seq(0..Batches)] /\ i \in DOMAIN pos[x]
          /\ pos[x][i] + 1 \in 0..Batches
      BY <1>1, <1>2, <1>4, <1>5, BatchesAssumption DEF RunTypes
    <3> QED
      BY <2>1, <3>1, UpdateOne
  <2>3. OneUse(x, i) => o \in Readers /\ o \in used /\ at[o] = pos[x][i]
    BY <1>1, <1>2 DEF ReadingOf, OneUse
  <2>4. at' \in [Readers -> 0..Batches]
    BY <1>2, <1>4, <1>5, <2>1, <2>3, BatchesAssumption DEF RunTypes
  <2>5. RunTypes'
    BY <1>1, <1>2, <2>1, <2>2, <2>4 DEF RunTypes
  <2>6. ReadingOf(x, i)'
    <3>1. pos'[x][i] = pos[x][i] + 1
      BY <1>1, <1>2, <2>2 DEF RunTypes
    <3>2. OneUse(x, i) => at'[o] = pos[x][i] + 1
      BY <1>2, <2>1, <2>3 DEF RunTypes
    <3> QED
      BY <1>1, <1>2, <1>3, <2>1, <3>1, <3>2 DEF ReadingOf
  <2>7. ASSUME NEW y \in Runs, NEW j \in DOMAIN plan[y], y # x \/ j # i
        PROVE  ReadingOf(y, j)'
    <3>1. pos'[y][j] = pos[y][j] /\ ReadingOf(y, j)
      BY <1>2, <2>2, <2>7 DEF RunTypes, Reading
    <3>2. OneUse(y, j) /\ state[y][j] = "open" =>
            at'[Source(y, j).object] = at[Source(y, j).object]
      <4> SUFFICES ASSUME OneUse(y, j), state[y][j] = "open"
                   PROVE  at'[Source(y, j).object] = at[Source(y, j).object]
        OBVIOUS
      <4>1. Source(y, j).object \in Readers
        BY DEF OneUse
      <4>2. OneUse(x, i) => Source(y, j).object # o
        BY <1>1, <1>2, <2>7, <4>1 DEF OneReader, Reads
      <4> QED
        BY <1>2, <2>1, <2>3, <4>1, <4>2 DEF RunTypes
    <3> QED
      BY <1>1, <1>3, <2>1, <3>1, <3>2 DEF ReadingOf
  <2>8. \A r \in Readers : r \notin used' => at'[r] = 0
    BY <1>1, <1>2, <2>1, <2>3 DEF Reading, RunTypes
  <2>9. Reading'
    BY <1>1, <2>6, <2>7, <2>8 DEF Reading
  <2>10. OneReader'
    BY <1>1, <1>2, <1>3, <2>1 DEF OneReader, Reads
  <2> QED
    BY <1>2, <2>5, <2>9, <2>10 DEF Inv
<1>6. CASE ~(pos[x][i] < Batches)
  <2>1. /\ state' = [state EXCEPT ![x] = [state[x] EXCEPT ![i] = "end"]]
        /\ pos' = pos /\ at' = at
    BY <1>6 DEF Pull
  <2>2. /\ state' \in [Runs -> Seq(Stages)]
        /\ \A y \in Runs : DOMAIN state'[y] = DOMAIN state[y]
        /\ \A y \in Runs : y # x => state'[y] = state[y]
        /\ \A j \in DOMAIN state[x] : state'[x][j] = IF j = i THEN "end" ELSE state[x][j]
    <3>1. state \in [Runs -> Seq(Stages)] /\ i \in DOMAIN state[x] /\ "end" \in Stages
      BY <1>1, <1>2 DEF RunTypes, Stages
    <3> QED
      BY <2>1, <3>1, UpdateOne
  <2>3. RunTypes'
    BY <1>1, <1>2, <2>1, <2>2 DEF RunTypes
  <2>4. ASSUME NEW y \in Runs, NEW j \in DOMAIN plan[y], y # x \/ j # i
        PROVE  state'[y][j] = state[y][j]
    BY <1>2, <2>2, <2>4 DEF RunTypes
  <2>5. state'[x][i] = "end" /\ pos[x][i] = Batches
    BY <1>1, <1>2, <1>4, <1>6, <2>2, BatchesAssumption DEF RunTypes
  <2>6. ReadingOf(x, i)'
    BY <1>1, <1>2, <1>3, <2>1, <2>5 DEF ReadingOf
  <2>7. ASSUME NEW y \in Runs, NEW j \in DOMAIN plan[y], y # x \/ j # i
        PROVE  ReadingOf(y, j)'
    BY <1>1, <1>2, <1>3, <2>1, <2>4, <2>7 DEF ReadingOf, Reading
  <2>8. Reading'
    BY <1>1, <1>2, <2>1, <2>6, <2>7 DEF Reading
  <2>9. OneReader'
    BY <1>1, <1>2, <1>3, <2>4, <2>5 DEF OneReader, Reads
  <2> QED
    BY <1>2, <2>3, <2>8, <2>9 DEF Inv
<1> QED
    BY <1>5, <1>6

LEMMA NextInv == Inv /\ [SessionNext]_sessionVars => Inv'
<1> SUFFICES ASSUME Inv, [SessionNext]_sessionVars PROVE Inv'
    OBVIOUS
<1>1. CASE UNCHANGED sessionVars
    BY <1>1, SameCatalog, CatalogStep DEF Inv, sessionVars, catalogVars, runVars
<1>2. ASSUME NEW x \in Runs,
             \/ \E f \in DataFrames : Plan(x, f)
             \/ \E i \in 1..MaxSources : Open(x, i) \/ Pull(x, i) \/ ExecuteAgain(x, i)
             \/ Break(x) \/ Finish(x)
      PROVE  Inv'
    BY <1>2, PlanInv, OpenInv, PullInv, ExecuteAgainInv, BreakInv, FinishInv
<1> QED
    BY <1>1, <1>2, TableInv, CombineInv DEF SessionNext

LEMMA Invariance == SessionSpec => []Inv
<1> QED
    BY InitInv, NextInv, PTL DEF SessionSpec

(* Every reachable state is well typed, and a run has a state and positions *)
(* for each of its sources (SessionTypeOK), whatever is registered, made    *)
(* into frames, run and broken off.                                         *)
THEOREM SessionTypes == SessionSpec => []SessionTypeOK
<1>1. Inv => SessionTypeOK
  <2> SUFFICES ASSUME Inv PROVE SessionTypeOK
    OBVIOUS
  <2>1. ASSUME NEW x \in Runs
        PROVE  /\ state[x] \in [DOMAIN plan[x] -> {"planned", "open", "end"}]
               /\ first[x] \in [DOMAIN plan[x] -> 0..Batches]
               /\ pos[x] \in [DOMAIN plan[x] -> 0..Batches]
    <3>1. /\ state[x] \in Seq(Stages) /\ first[x] \in Seq(0..Batches)
          /\ pos[x] \in Seq(0..Batches)
          /\ DOMAIN state[x] = DOMAIN plan[x] /\ DOMAIN first[x] = DOMAIN plan[x]
          /\ DOMAIN pos[x] = DOMAIN plan[x]
      BY DEF Inv, RunTypes
    <3> QED
      BY <3>1, SequenceIsFunction DEF Stages
  <2> QED
    BY <2>1 DEF SessionTypeOK, Inv, CatalogTypes, RunTypes, Statuses
<1> QED
    BY <1>1, Invariance, PTL

(* A run that ends well has read each of its sources from the first batch   *)
(* to the last (NoSilentLoss): PyArrowStreamPartition asks the object for   *)
(* its stream, which a reader gives once.                                   *)
THEOREM LossSafe == SessionSpec => []NoSilentLoss
<1>1. Inv => NoSilentLoss
    BY DEF Inv, Reading, ReadingOf, NoSilentLoss
<1> QED
    BY <1>1, Invariance, PTL

-----------------------------------------------------------------------------
(* A set of numbers up to a limit has a greatest one.                       *)
LEMMA Greatest ==
    ASSUME NEW limit \in Nat, NEW T \in SUBSET (0..limit), T # {}
    PROVE  \E n \in T : \A k \in T : k <= n
<1> DEFINE D == {limit - n : n \in T}
<1>1. D \subseteq Nat /\ D # {}
  <2>1. \A n \in T : n \in Nat /\ limit - n \in Nat
    OBVIOUS
  <2>2. PICK n \in T : TRUE
    OBVIOUS
  <2>3. limit - n \in D
    OBVIOUS
  <2> QED
    BY <2>1, <2>3
<1>2. PICK d \in D : \A e \in D : ~(<<e, d>> \in OpToRel(<, Nat))
    BY <1>1, NatLessThanWellFounded, WFMin
<1>3. \A e \in D : ~(e < d)
    BY <1>1, <1>2 DEF OpToRel
<1>4. PICK n \in T : d = limit - n
    OBVIOUS
<1>5. \A k \in T : k <= n
  <2> TAKE k \in T
  <2>1. ~(limit - k < limit - n)
    BY <1>3, <1>4
  <2> QED
    BY <2>1
<1> QED
    BY <1>5

(* The order a table claims is a prefix of the declared one.                *)
LEMMA OrderingIsPrefix ==
    ASSUME NEW o, NEW list \in SortLists
    PROVE  /\ Len(list) \in Nat /\ DOMAIN list = 1..Len(list)
           /\ \E n \in 0..Len(list) : Ordering(o, list) = SubSeq(list, 1, n)
<1> DEFINE kept == {n \in 0..Len(list) : \A i \in 1..n : list[i] \in Schema[o]}
<1>1. Len(list) \in Nat /\ DOMAIN list = 1..Len(list)
    BY SortListsAssumption
<1>2. 0 \in kept /\ kept \in SUBSET (0..Len(list))
    BY <1>1
<1>3. \E n \in kept : \A k \in kept : k <= n
    BY <1>1, <1>2, Greatest
<1>4. (CHOOSE n \in kept : \A k \in kept : k <= n) \in kept
    BY <1>3
<1> QED
    BY <1>1, <1>2, <1>4 DEF Ordering

(* Rows in an order are in every prefix of it.                              *)
LEMMA PrefixInOrder ==
    ASSUME NEW S, NEW list \in Seq(S), NEW n \in 0..Len(list), NEW r, NEW s,
           InOrder(r, s, list)
    PROVE  InOrder(r, s, SubSeq(list, 1, n))
<1> DEFINE p == SubSeq(list, 1, n)
<1>1. /\ DOMAIN list = 1..Len(list) /\ Len(list) \in Nat
      /\ DOMAIN p = 1..n /\ \A i \in 1..n : p[i] = list[i]
    OBVIOUS
<1> HIDE DEF p
<1>2. CASE \A i \in DOMAIN list : r[list[i]] = s[list[i]]
    BY <1>1, <1>2 DEF InOrder
<1>3. ASSUME NEW i \in DOMAIN list, r[list[i]] < s[list[i]],
             \A j \in 1..i - 1 : r[list[j]] = s[list[j]]
      PROVE  InOrder(r, s, p)
  <2>1. CASE i <= n
    <3>1. i \in DOMAIN p /\ p[i] = list[i] /\ \A j \in 1..i - 1 : p[j] = list[j]
      BY <1>1, <2>1
    <3>2. r[p[i]] < s[p[i]] /\ \A j \in 1..i - 1 : r[p[j]] = s[p[j]]
      BY <1>3, <3>1
    <3> QED
      BY <3>1, <3>2 DEF InOrder
  <2>2. CASE ~(i <= n)
    BY <1>1, <1>3, <2>2 DEF InOrder
  <2> QED
    BY <2>1, <2>2
<1> QED
    BY <1>2, <1>3 DEF InOrder, p

(* Rows in the order that a caller of register_record_batch_reader declared *)
(* are in the order the table claims (OrderingHolds), for any sort list and *)
(* any schema.                                                              *)
THEOREM OrderingSafe == SessionSpec => []OrderingHolds
<1>1. Inv => OrderingHolds
  <2> SUFFICES ASSUME Inv, NEW t \in TableNames, NEW k \in DOMAIN catalog[t],
                      catalog[t][k].kind = "stream", NEW r, NEW s,
                      InOrder(r, s, catalog[t][k].declared)
               PROVE  InOrder(r, s, catalog[t][k].ordering)
    BY DEF OrderingHolds
  <2>1. catalog[t][k] \in AllSources
    <3>1. catalog[t] \in Seq(AllSources)
      BY DEF Inv, CatalogTypes
    <3> QED
      BY <3>1, ElementOf
  <2>2. PICK o \in Objects, list \in SortLists :
            catalog[t][k] = Stream(o, list, Ordering(o, list))
    BY <2>1 DEF AllSources, Memory, Backend, Dataset
  <2>3. catalog[t][k].declared = list /\ catalog[t][k].ordering = Ordering(o, list)
    BY <2>2 DEF Stream
  <2>4. PICK n \in 0..Len(list) : Ordering(o, list) = SubSeq(list, 1, n)
    BY OrderingIsPrefix
  <2>5. list \in Seq({list[i] : i \in DOMAIN list})
    BY SortListsAssumption
  <2> QED
    BY <2>3, <2>4, <2>5, PrefixInOrder
<1> QED
    BY <1>1, Invariance, PTL

-----------------------------------------------------------------------------
(* ScanSchemas.                                                             *)

Scanned == {"planned", "pulled", "delivered"}

(* What the scan fixed, and still holds when the batch comes.               *)
Planned ==
    step \in Scanned =>
        /\ source \in {"stream", "dataset"} => reported = declared
        /\ InRange(reported, projection)
        /\ advertised = Project(reported, projection)

(* What a pull leaves for the check.                                        *)
Pulled ==
    step = "pulled" =>
        /\ source # "stream" => batch.contents = batch.label
        /\ source = "dataset" => batch.label = advertised
        /\ source \in {"ibis", "provider"} =>
            \E label \in Schemas \cup {advertised} : batch.label = Project(label, projection)

ScanInv == source \in Sources /\ Planned /\ Pulled /\ ColumnsAsPlanned

-----------------------------------------------------------------------------
(* Projections by the same positions that the bridge finds equal are equal. *)
LEMMA ProjectionsEqual ==
    ASSUME NEW s, NEW t, NEW positions,
           check_batch_schema(Project(s, positions), Project(t, positions))
    PROVE  Project(s, positions) = Project(t, positions)
    BY DEF check_batch_schema, Project

(* Schemas that the bridge finds equal have equal projections.              *)
LEMMA EqualProjections ==
    ASSUME NEW s, NEW t, NEW positions, InRange(s, positions), check_batch_schema(s, t)
    PROVE  Project(s, positions) = Project(t, positions)
    BY DEF check_batch_schema, Project, InRange

LEMMA ScanTableInv ==
    ASSUME ScanInv, NEW positions \in Projections, NEW schema \in Schemas,
           ScanTable(positions, schema)
    PROVE  ScanInv'
    BY DEF ScanInv, ScanTable, Planned, Pulled, ColumnsAsPlanned, Scanned, InRange, Project

LEMMA PullBatchInv ==
    ASSUME ScanInv, NEW label \in Schemas \cup {advertised},
           NEW contents \in Schemas \cup {advertised}, PullBatch(label, contents)
    PROVE  ScanInv'
<1>1. Planned' /\ source' \in Sources /\ ColumnsAsPlanned'
    BY DEF ScanInv, PullBatch, Planned, ColumnsAsPlanned, Scanned, InRange, Project
<1>2. Pulled'
  <2> SUFFICES ASSUME step' = "pulled" PROVE Pulled'
    BY DEF Pulled
  <2>1. CASE source \in {"ibis", "provider"}
    BY <2>1 DEF PullBatch, Pulled
  <2>2. CASE source \in {"stream", "dataset"}
    BY <2>2 DEF PullBatch, Pulled
  <2> QED
    BY <2>1, <2>2 DEF ScanInv, Sources
<1> QED
    BY <1>1, <1>2 DEF ScanInv

LEMMA DeliverBatchInv ==
    ASSUME ScanInv, DeliverBatch
    PROVE  ScanInv'
<1>1. Planned' /\ Pulled' /\ source' \in Sources
    BY DEF ScanInv, DeliverBatch, Planned, Pulled, Scanned, InRange, Project
<1>2. ColumnsAsPlanned'
  <2> SUFFICES ASSUME step' = "delivered" PROVE ColumnsAsPlanned'
    BY DEF ColumnsAsPlanned
  <2>1. /\ InRange(reported, projection) /\ advertised = Project(reported, projection)
        /\ source \in {"stream", "dataset"} => reported = declared
        /\ source # "stream" => batch.contents = batch.label
        /\ source = "dataset" => batch.label = advertised
        /\ UNCHANGED <<source, declared, reported, projection, advertised>>
    BY DEF ScanInv, Planned, Pulled, Scanned, DeliverBatch
  <2>2. CASE source = "stream"
    <3>1. check_batch_schema(declared, batch.label)
          /\ batch'.label = Project(batch.label, projection)
      BY <2>2 DEF DeliverBatch
    <3>2. batch'.label = advertised
      BY <2>1, <2>2, <3>1, EqualProjections
    <3> QED
      BY <2>1, <2>2, <3>2 DEF ColumnsAsPlanned
  <2>3. CASE source # "stream"
    <3>1. check_batch_schema(advertised, batch.label) /\ batch' = batch
      BY <2>3 DEF DeliverBatch
    <3>2. CASE source = "dataset"
      BY <2>1, <2>3, <3>1, <3>2 DEF ColumnsAsPlanned
    <3>3. CASE source \in {"ibis", "provider"}
      <4>1. PICK label \in Schemas \cup {advertised} : batch.label = Project(label, projection)
        BY <3>3 DEF ScanInv, Pulled, DeliverBatch
      <4>2. batch.label = advertised
        BY <2>1, <3>1, <4>1, ProjectionsEqual
      <4> QED
        BY <2>1, <2>3, <3>1, <4>2 DEF ColumnsAsPlanned
    <3> QED
      BY <2>3, <3>2, <3>3 DEF ScanInv, Sources
  <2> QED
    BY <2>2, <2>3
<1> QED
    BY <1>1, <1>2 DEF ScanInv

(* What a query is given has the columns its scan advertises, whatever      *)
(* schemas the Python object reports, and batches come with.                *)
THEOREM ColumnsSafe == ScanSpec => []ColumnsAsPlanned
<1>1. ScanInit => ScanInv
    BY DEF ScanInit, ScanInv, Planned, Pulled, ColumnsAsPlanned, Scanned
<1>2. ScanInv /\ [ScanNext]_scanVars => ScanInv'
  <2>1. CASE UNCHANGED scanVars
    BY <2>1 DEF scanVars, ScanInv, Planned, Pulled, ColumnsAsPlanned, InRange, Project
  <2> QED
    BY <2>1, ScanTableInv, PullBatchInv, DeliverBatchInv DEF ScanNext
<1>3. ScanInv => ColumnsAsPlanned
    BY DEF ScanInv
<1> QED
    BY <1>1, <1>2, <1>3, PTL DEF ScanSpec

-----------------------------------------------------------------------------
(* FilterPushdown: what the translations of an expression have in common    *)
(* with the expression.                                                     *)

(* Same(a, b): a row passes a filter of value a iff it passes one of value  *)
(* b, and AND and OR keep that.                                             *)
Same(a, b) == a = b \/ {a, b} \subseteq {FALSE, NULL}

(* What the translation t of e has in common with e.                        *)
Agrees(t, e) ==
    t # Unsupported =>
        \A x \in Values :
            /\ x # NULL => t[1][x] = Sql[e][x] /\ Sql[e][x] # NULL
            /\ WithoutIn[e] => t[1][x] = Sql[e][x]
            /\ AsksForIn[e] => Same(t[1][x], Sql[e][x])
PyArrowAgrees(e) == Agrees(PyArrow[e], e)

AgreesWithoutIn(t, e) ==
    t # Unsupported /\ WithoutIn[e] => \A x \in Values : t[1][x] = Sql[e][x]
IbisAgrees(e) == AgreesWithoutIn(Ibis[e], e)

SqlRec == INSTANCE Recursion WITH
    Nodes <- Expressions, Def <- SqlOf, Holds <- PyArrowAgrees
PyArrowRec == INSTANCE Recursion WITH
    Nodes <- Expressions, Def <- PyArrowOf, Holds <- PyArrowAgrees
IbisRec == INSTANCE Recursion WITH
    Nodes <- Expressions, Def <- IbisOf, Holds <- IbisAgrees
WithoutInRec == INSTANCE Recursion WITH
    Nodes <- Expressions, Def <- WithoutInOf, Holds <- PyArrowAgrees
AsksForInRec == INSTANCE Recursion WITH
    Nodes <- Expressions, Def <- AsksForInOf, Holds <- PyArrowAgrees

Ops == {"col", "lit", "bin", "not", "isnull", "isnotnull", "in", "between", "opaque"}

LEMMA PartsIn ==
    ASSUME NEW e \in Expressions
    PROVE  /\ e.op \in Ops
           /\ e.op \in {"not", "isnull", "isnotnull", "in"} => Parts(e) = {e.arg}
           /\ e.op = "bin" => Parts(e) = {e.left, e.right}
           /\ e.op = "between" => Parts(e) = {e.arg, e.low, e.high}
           /\ Parts(e) \subseteq Expressions
    BY ExpressionsAssumption DEF Parts, Ops

LEMMA SqlFinite == SqlRec!Finite
    BY HeightAssumption, ExpressionsAssumption DEF SqlRec!Finite

LEMMA PyArrowFinite == PyArrowRec!Finite
    BY HeightAssumption, ExpressionsAssumption DEF PyArrowRec!Finite

LEMMA IbisFinite == IbisRec!Finite
    BY HeightAssumption, ExpressionsAssumption DEF IbisRec!Finite

LEMMA WithoutInFinite == WithoutInRec!Finite
    BY HeightAssumption, ExpressionsAssumption DEF WithoutInRec!Finite

LEMMA AsksForInFinite == AsksForInRec!Finite
    BY HeightAssumption, ExpressionsAssumption DEF AsksForInRec!Finite

LEMMA SqlIs == \A e \in Expressions : Sql[e] = SqlOf(Sql, e)
<1>1. SqlRec!Local
  <2> SUFFICES ASSUME NEW f, NEW g, NEW e \in Expressions, \A d \in Parts(e) : f[d] = g[d]
               PROVE  SqlOf(f, e) = SqlOf(g, e)
    BY DEF SqlRec!Local
  <2>1. CASE e.op \in {"not", "isnull", "isnotnull", "in"}
    BY <2>1, PartsIn DEF SqlOf
  <2>2. CASE e.op = "bin"
    BY <2>2, PartsIn DEF SqlOf
  <2>3. CASE e.op = "between"
    BY <2>3, PartsIn DEF SqlOf
  <2>4. CASE e.op \in {"col", "lit", "opaque"}
    BY <2>4, PartsIn DEF SqlOf
  <2> QED
    BY <2>1, <2>2, <2>3, <2>4, PartsIn DEF Ops
<1>2. Sql = SqlRec!Value
    BY DEF Sql, SqlRec!Value
<1>3. Sql = [e \in Expressions |-> SqlOf(Sql, e)]
    BY <1>1, <1>2, SqlFinite, SqlRec!ValueIs
<1> QED
    BY <1>3

LEMMA SharedLocal ==
    ASSUME NEW f, NEW g, NEW e \in Expressions, \A d \in Parts(e) : f[d] = g[d],
           e.op \notin {"in", "between"}
    PROVE  Shared(f, e) = Shared(g, e)
<1>1. CASE e.op \in {"not", "isnull", "isnotnull"}
    BY <1>1, PartsIn DEF Shared
<1>2. CASE e.op = "bin"
    BY <1>2, PartsIn DEF Shared
<1>3. CASE e.op \in {"col", "lit", "opaque"}
    BY <1>3, PartsIn DEF Shared
<1> QED
    BY <1>1, <1>2, <1>3, PartsIn DEF Ops

LEMMA PyArrowIs == \A e \in Expressions : PyArrow[e] = PyArrowOf(PyArrow, e)
<1>1. PyArrowRec!Local
  <2> SUFFICES ASSUME NEW f, NEW g, NEW e \in Expressions, \A d \in Parts(e) : f[d] = g[d]
               PROVE  PyArrowOf(f, e) = PyArrowOf(g, e)
    BY DEF PyArrowRec!Local
  <2>1. CASE e.op = "in"
    BY <2>1, PartsIn DEF PyArrowOf
  <2>2. CASE e.op = "between"
    BY <2>2, PartsIn DEF PyArrowOf
  <2>3. CASE e.op \notin {"in", "between"}
    BY <2>3, SharedLocal DEF PyArrowOf
  <2> QED
    BY <2>1, <2>2, <2>3
<1>2. PyArrow = PyArrowRec!Value
    BY DEF PyArrow, PyArrowRec!Value
<1>3. PyArrow = [e \in Expressions |-> PyArrowOf(PyArrow, e)]
    BY <1>1, <1>2, PyArrowFinite, PyArrowRec!ValueIs
<1> QED
    BY <1>3

LEMMA IbisIs == \A e \in Expressions : Ibis[e] = IbisOf(Ibis, e)
<1>1. IbisRec!Local
  <2> SUFFICES ASSUME NEW f, NEW g, NEW e \in Expressions, \A d \in Parts(e) : f[d] = g[d]
               PROVE  IbisOf(f, e) = IbisOf(g, e)
    BY DEF IbisRec!Local
  <2>1. CASE e.op = "in"
    BY <2>1, PartsIn DEF IbisOf, IbisInList
  <2>2. CASE e.op = "between"
    BY <2>2, PartsIn DEF IbisOf
  <2>3. CASE e.op \notin {"in", "between"}
    BY <2>3, SharedLocal DEF IbisOf
  <2> QED
    BY <2>1, <2>2, <2>3
<1>2. Ibis = IbisRec!Value
    BY DEF Ibis, IbisRec!Value
<1>3. Ibis = [e \in Expressions |-> IbisOf(Ibis, e)]
    BY <1>1, <1>2, IbisFinite, IbisRec!ValueIs
<1> QED
    BY <1>3

LEMMA WithoutInIs == \A e \in Expressions : WithoutIn[e] = WithoutInOf(WithoutIn, e)
<1>1. WithoutInRec!Local
    BY DEF WithoutInRec!Local, WithoutInOf
<1>2. WithoutIn = WithoutInRec!Value
    BY DEF WithoutIn, WithoutInRec!Value
<1>3. WithoutIn = [e \in Expressions |-> WithoutInOf(WithoutIn, e)]
    BY <1>1, <1>2, WithoutInFinite, WithoutInRec!ValueIs
<1> QED
    BY <1>3

LEMMA AsksForInIs == \A e \in Expressions : AsksForIn[e] = AsksForInOf(AsksForIn, e)
<1>1. AsksForInRec!Local
    BY PartsIn DEF AsksForInRec!Local, AsksForInOf
<1>2. AsksForIn = AsksForInRec!Value
    BY DEF AsksForIn, AsksForInRec!Value
<1>3. AsksForIn = [e \in Expressions |-> AsksForInOf(AsksForIn, e)]
    BY <1>1, <1>2, AsksForInFinite, AsksForInRec!ValueIs
<1> QED
    BY <1>3

-----------------------------------------------------------------------------
(* Values of the definitions, case by case.                                 *)
LEMMA SqlAt ==
    ASSUME NEW e \in Expressions, NEW x \in Values
    PROVE  /\ e.op = "col" => Sql[e][x] = x
           /\ e.op = "lit" => Sql[e][x] = e.val
           /\ e.op = "bin" => Sql[e][x] = Binary3(e.sym, Sql[e.left][x], Sql[e.right][x])
           /\ e.op = "not" => Sql[e][x] = Not3(Sql[e.arg][x])
           /\ e.op = "isnull" => Sql[e][x] = (Sql[e.arg][x] = NULL)
           /\ e.op = "isnotnull" => Sql[e][x] = (Sql[e.arg][x] # NULL)
           /\ e.op = "in" =>
                 Sql[e][x] = IF e.negated THEN Not3(In3(Sql[e.arg][x], e.list))
                             ELSE In3(Sql[e.arg][x], e.list)
           /\ e.op = "between" =>
                 Sql[e][x] =
                    IF e.negated
                    THEN Not3(Between3(Sql[e.arg][x], Sql[e.low][x], Sql[e.high][x]))
                    ELSE Between3(Sql[e.arg][x], Sql[e.low][x], Sql[e.high][x])
<1>0. Sql[e] = SqlOf(Sql, e)
    BY SqlIs
<1>1. CASE e.op \in {"col", "lit"}
    BY <1>0, <1>1 DEF SqlOf
<1>2. CASE e.op = "bin"
    BY <1>0, <1>2 DEF SqlOf
<1>3. CASE e.op \in {"not", "isnull", "isnotnull"}
    BY <1>0, <1>3 DEF SqlOf
<1>4. CASE e.op = "in"
    BY <1>0, <1>4 DEF SqlOf
<1>5. CASE e.op = "between"
    BY <1>0, <1>5 DEF SqlOf
<1> QED
    BY <1>1, <1>2, <1>3, <1>4, <1>5

LEMMA SharedAt ==
    ASSUME NEW T, NEW e
    PROVE  /\ e.op = "col" => Shared(T, e) = <<[x \in Values |-> x]>>
           /\ e.op = "lit" => Shared(T, e) = Scalar(e.val)
           /\ e.op = "bin" =>
                 Shared(T, e) =
                    IF e.sym \in DOMAIN operator_to_py
                    THEN CallUnlessError(operator_to_py[e.sym], <<T[e.left], T[e.right]>>)
                    ELSE Unsupported
           /\ e.op = "not" => Shared(T, e) = CallUnlessError("invert", <<T[e.arg]>>)
           /\ e.op = "isnull" => Shared(T, e) = CallUnlessError("is_null", <<T[e.arg]>>)
           /\ e.op = "isnotnull" => Shared(T, e) = CallUnlessError("is_valid", <<T[e.arg]>>)
           /\ e.op = "opaque" => Shared(T, e) = Unsupported
    BY DEF Shared, Inverted

LEMMA MethodIs ==
    ASSUME NEW v
    PROVE  /\ Method("invert", v) = Not3(v[1])
           /\ Method("is_null", v) = (v[1] = NULL)
           /\ Method("is_valid", v) = (v[1] # NULL)
           /\ Method("between", v) = Between3(v[1], v[2], v[3])
           /\ \A fn \in {"eq", "ne", "lt", "le", "gt", "ge", "and_", "or_"} :
                 Method(fn, v) = PyOperator(fn, v[1], v[2])
    BY DEF Method

LEMMA ComparisonIs ==
    ASSUME NEW a, NEW b
    PROVE  /\ Comparison("Eq", a, b) = (a = b)
           /\ Comparison("NotEq", a, b) = (a # b)
           /\ Comparison("Lt", a, b) = (a < b)
           /\ Comparison("LtEq", a, b) = (a <= b)
           /\ Comparison("Gt", a, b) = (a > b)
           /\ Comparison("GtEq", a, b) = (a >= b)
    BY DEF Comparison

LEMMA BinaryIs ==
    ASSUME NEW a, NEW b
    PROVE  /\ Binary3("And", a, b) = And3(a, b)
           /\ Binary3("Or", a, b) = Or3(a, b)
           /\ \A sym \in {"Eq", "NotEq", "Lt", "LtEq", "Gt", "GtEq"} :
                 Binary3(sym, a, b) = IF NULL \in {a, b} THEN NULL ELSE Comparison(sym, a, b)
    BY DEF Binary3

LEMMA PyOperatorIs ==
    ASSUME NEW a, NEW b
    PROVE  /\ PyOperator("and_", a, b) = And3(a, b)
           /\ PyOperator("or_", a, b) = Or3(a, b)
           /\ PyOperator("eq", a, b) = IF NULL \in {a, b} THEN NULL ELSE a = b
           /\ PyOperator("ne", a, b) = IF NULL \in {a, b} THEN NULL ELSE a # b
           /\ PyOperator("lt", a, b) = IF NULL \in {a, b} THEN NULL ELSE a < b
           /\ PyOperator("le", a, b) = IF NULL \in {a, b} THEN NULL ELSE a <= b
           /\ PyOperator("gt", a, b) = IF NULL \in {a, b} THEN NULL ELSE a > b
           /\ PyOperator("ge", a, b) = IF NULL \in {a, b} THEN NULL ELSE a >= b
    BY DEF PyOperator

-----------------------------------------------------------------------------
(* Three-valued logic.                                                      *)
Symbols == {"Eq", "NotEq", "Lt", "LtEq", "Gt", "GtEq", "And", "Or"}

LEMMA NotKnown == ASSUME NEW a, a # NULL PROVE Not3(a) # NULL
    BY NullAssumption DEF Not3

LEMMA AndKnown == ASSUME NEW a, NEW b, a # NULL, b # NULL PROVE And3(a, b) # NULL
    BY NullAssumption DEF And3

LEMMA OrKnown == ASSUME NEW a, NEW b, a # NULL, b # NULL PROVE Or3(a, b) # NULL
    BY NotKnown, AndKnown DEF Or3

LEMMA ComparisonKnown ==
    ASSUME NEW a, NEW b, NEW sym \in Symbols \ {"And", "Or"}
    PROVE  Comparison(sym, a, b) # NULL
<1>1. Comparison("Eq", a, b) \in BOOLEAN
    BY DEF Comparison
<1>2. Comparison("NotEq", a, b) \in BOOLEAN
    BY DEF Comparison
<1>3. Comparison("Lt", a, b) \in BOOLEAN
    BY DEF Comparison
<1>4. Comparison("LtEq", a, b) \in BOOLEAN
    BY DEF Comparison
<1>5. Comparison("Gt", a, b) \in BOOLEAN
    BY DEF Comparison
<1>6. Comparison("GtEq", a, b) \in BOOLEAN
    BY DEF Comparison
<1>7. Comparison(sym, a, b) \in BOOLEAN
    BY <1>1, <1>2, <1>3, <1>4, <1>5, <1>6 DEF Symbols
<1> QED
    BY <1>7, NullAssumption

LEMMA BinaryKnown ==
    ASSUME NEW a, NEW b, NEW sym \in Symbols, a # NULL, b # NULL
    PROVE  Binary3(sym, a, b) # NULL
<1>1. CASE sym \in {"And", "Or"}
    BY <1>1, AndKnown, OrKnown, BinaryIs
<1>2. CASE sym \notin {"And", "Or"}
  <2>1. Binary3(sym, a, b) = Comparison(sym, a, b)
    BY <1>2, BinaryIs DEF Symbols
  <2> QED
    BY <1>2, <2>1, ComparisonKnown
<1> QED
    BY <1>1, <1>2

LEMMA BetweenKnown ==
    ASSUME NEW a, NEW lo, NEW hi, a # NULL, lo # NULL, hi # NULL
    PROVE  Between3(a, lo, hi) # NULL
    BY BinaryKnown, AndKnown DEF Between3, Symbols

LEMMA InKnown ==
    ASSUME NEW a, NEW list, NULL \notin list
    PROVE  /\ a # NULL => In3(a, list) = PyArrowIn(a, list) /\ In3(a, list) # NULL
           /\ Same(PyArrowIn(a, list), In3(a, list))
<1>1. CASE a = NULL
  <2>1. In3(a, list) = NULL /\ PyArrowIn(a, list) = FALSE
    BY <1>1 DEF In3, PyArrowIn
  <2> QED
    BY <1>1, <2>1 DEF Same
<1>2. CASE a # NULL /\ a \in list
    BY <1>2, NullAssumption DEF In3, PyArrowIn, Same
<1>3. CASE a # NULL /\ a \notin list
  <2>1. In3(a, list) = FALSE /\ PyArrowIn(a, list) = FALSE
    BY <1>3 DEF In3, PyArrowIn
  <2> QED
    BY <2>1, NullAssumption DEF Same
<1> QED
    BY <1>1, <1>2, <1>3

LEMMA SameAnd ==
    ASSUME NEW a, NEW b, NEW c, NEW d, Same(a, c), Same(b, d)
    PROVE  Same(And3(a, b), And3(c, d))
    BY NullAssumption DEF Same, And3

LEMMA SameOr ==
    ASSUME NEW a, NEW b, NEW c, NEW d, Same(a, c), Same(b, d)
    PROVE  Same(Or3(a, b), Or3(c, d))
<1>1. CASE a = c /\ b = d
    BY <1>1 DEF Same
<1>2. CASE {a, c} \subseteq {FALSE, NULL} /\ {b, d} \subseteq {FALSE, NULL}
    BY <1>2, NullAssumption DEF Same, Or3, And3, Not3
<1>3. CASE a = c /\ {b, d} \subseteq {FALSE, NULL}
    BY <1>3, NullAssumption DEF Same, Or3, And3, Not3
<1>4. CASE {a, c} \subseteq {FALSE, NULL} /\ b = d
    BY <1>4, NullAssumption DEF Same, Or3, And3, Not3
<1> QED
    BY <1>1, <1>2, <1>3, <1>4 DEF Same

-----------------------------------------------------------------------------
(* The calls of Python.                                                     *)
LEMMA OperatorsAre ==
    /\ DOMAIN operator_to_py = Symbols
    /\ \A sym \in Symbols :
          operator_to_py[sym] \in {"eq", "ne", "lt", "le", "gt", "ge", "and_", "or_"}
    BY DEF operator_to_py, Symbols

LEMMA OperatorsAgree ==
    ASSUME NEW sym \in Symbols, NEW a, NEW b
    PROVE  PyOperator(operator_to_py[sym], a, b) = Binary3(sym, a, b)
<1>1. /\ operator_to_py["Eq"] = "eq" /\ operator_to_py["NotEq"] = "ne"
      /\ operator_to_py["Lt"] = "lt" /\ operator_to_py["LtEq"] = "le"
      /\ operator_to_py["Gt"] = "gt" /\ operator_to_py["GtEq"] = "ge"
      /\ operator_to_py["And"] = "and_" /\ operator_to_py["Or"] = "or_"
    BY DEF operator_to_py
<1> QED
    BY <1>1, PyOperatorIs, BinaryIs, ComparisonIs DEF Symbols

(* A call has a result when its arguments have one, and computes the method *)
(* of the arguments' values.                                                *)
LEMMA Call ==
    ASSUME NEW fn, NEW args, CallUnlessError(fn, args) # Unsupported
    PROVE  /\ \A i \in DOMAIN args : args[i] # Unsupported
           /\ \A x \in Values :
                 CallUnlessError(fn, args)[1][x]
                    = Method(fn, [i \in DOMAIN args |-> args[i][1][x]])
    BY DEF CallUnlessError, Failed

LEMMA Call1 ==
    ASSUME NEW a, NEW fn, CallUnlessError(fn, <<a>>) # Unsupported
    PROVE  /\ a # Unsupported
           /\ \A x \in Values :
                 /\ fn = "invert" => CallUnlessError(fn, <<a>>)[1][x] = Not3(a[1][x])
                 /\ fn = "is_null" => CallUnlessError(fn, <<a>>)[1][x] = (a[1][x] = NULL)
                 /\ fn = "is_valid" => CallUnlessError(fn, <<a>>)[1][x] = (a[1][x] # NULL)
<1>1. a # Unsupported
    BY Call
<1>2. ASSUME NEW x \in Values
      PROVE  /\ fn = "invert" => CallUnlessError(fn, <<a>>)[1][x] = Not3(a[1][x])
             /\ fn = "is_null" => CallUnlessError(fn, <<a>>)[1][x] = (a[1][x] = NULL)
             /\ fn = "is_valid" => CallUnlessError(fn, <<a>>)[1][x] = (a[1][x] # NULL)
  <2> DEFINE v == [i \in DOMAIN <<a>> |-> <<a>>[i][1][x]]
  <2>1. CallUnlessError(fn, <<a>>)[1][x] = Method(fn, v)
    BY Call
  <2>2. v[1] = a[1][x]
    OBVIOUS
  <2> HIDE DEF v
  <2> QED
    BY <2>1, <2>2, MethodIs
<1> QED
    BY <1>1, <1>2

LEMMA Call2 ==
    ASSUME NEW a, NEW b, NEW sym \in Symbols,
           CallUnlessError(operator_to_py[sym], <<a, b>>) # Unsupported
    PROVE  /\ a # Unsupported /\ b # Unsupported
           /\ \A x \in Values :
                 CallUnlessError(operator_to_py[sym], <<a, b>>)[1][x]
                    = Binary3(sym, a[1][x], b[1][x])
<1>1. a # Unsupported /\ b # Unsupported
    BY Call
<1> SUFFICES ASSUME NEW x \in Values
             PROVE  CallUnlessError(operator_to_py[sym], <<a, b>>)[1][x]
                       = Binary3(sym, a[1][x], b[1][x])
    BY <1>1
<1> DEFINE v == [i \in DOMAIN <<a, b>> |-> <<a, b>>[i][1][x]]
<1>2. CallUnlessError(operator_to_py[sym], <<a, b>>)[1][x] = Method(operator_to_py[sym], v)
    BY Call
<1>3. v[1] = a[1][x] /\ v[2] = b[1][x]
    OBVIOUS
<1> HIDE DEF v
<1>4. Method(operator_to_py[sym], v) = PyOperator(operator_to_py[sym], v[1], v[2])
    BY OperatorsAre, MethodIs
<1> QED
    BY <1>2, <1>3, <1>4, OperatorsAgree

LEMMA Call3 ==
    ASSUME NEW a, NEW b, NEW c, CallUnlessError("between", <<a, b, c>>) # Unsupported
    PROVE  /\ a # Unsupported /\ b # Unsupported /\ c # Unsupported
           /\ \A x \in Values :
                 CallUnlessError("between", <<a, b, c>>)[1][x]
                    = Between3(a[1][x], b[1][x], c[1][x])
<1>1. a # Unsupported /\ b # Unsupported /\ c # Unsupported
    BY Call
<1> SUFFICES ASSUME NEW x \in Values
             PROVE  CallUnlessError("between", <<a, b, c>>)[1][x]
                       = Between3(a[1][x], b[1][x], c[1][x])
    BY <1>1
<1> DEFINE v == [i \in DOMAIN <<a, b, c>> |-> <<a, b, c>>[i][1][x]]
<1>2. CallUnlessError("between", <<a, b, c>>)[1][x] = Method("between", v)
    BY Call
<1>3. v[1] = a[1][x] /\ v[2] = b[1][x] /\ v[3] = c[1][x]
    OBVIOUS
<1> HIDE DEF v
<1> QED
    BY <1>2, <1>3, MethodIs

-----------------------------------------------------------------------------
(* IN lists in an expression and in its parts.                              *)
LEMMA InInParts ==
    ASSUME NEW e \in Expressions
    PROVE  /\ WithoutIn[e] => \A d \in Parts(e) : WithoutIn[d]
           /\ WithoutIn[e] /\ e.op = "in" => NoScalars(e.list)
           /\ AsksForIn[e] /\ ~WithoutIn[e] =>
                 \/ e.op = "in" /\ ~e.negated /\ WithoutIn[e.arg]
                 \/ e.op = "bin" /\ e.sym \in {"And", "Or"}
                       /\ AsksForIn[e.left] /\ AsksForIn[e.right]
<1>1. WithoutIn[e] => WithoutInOf(WithoutIn, e)
    BY WithoutInIs
<1>2. AsksForIn[e] => AsksForInOf(AsksForIn, e)
    BY AsksForInIs
<1> QED
    BY <1>1, <1>2 DEF WithoutInOf, AsksForInOf

(* The cases that the translations share, for a translation T.  Only the    *)
(* IN lists make a difference, so a fact about whichever rows and parts     *)
(* have none carries over.                                                  *)
LEMMA SharedAgrees ==
    ASSUME NEW T, NEW e \in Expressions, NEW x \in Values, e.op \notin {"in", "between"},
           Shared(T, e) # Unsupported
    PROVE  /\ \A d \in Parts(e) : T[d] # Unsupported
           /\ (\A d \in Parts(e) : T[d][1][x] = Sql[d][x]) => Shared(T, e)[1][x] = Sql[e][x]
           /\ x # NULL /\ (\A d \in Parts(e) : Sql[d][x] # NULL) => Sql[e][x] # NULL
           /\ e.op = "bin" => /\ e.sym \in Symbols
                              /\ Shared(T, e)[1][x]
                                    = Binary3(e.sym, T[e.left][1][x], T[e.right][1][x])
<1>1. CASE e.op = "col"
  <2>1. Shared(T, e) = <<[y \in Values |-> y]>>
    BY <1>1, SharedAt
  <2>2. Sql[e][x] = x
    BY <1>1, SqlAt
  <2>3. Parts(e) = {}
    BY <1>1 DEF Parts
  <2> QED
    BY <1>1, <2>1, <2>2, <2>3
<1>2. CASE e.op = "lit"
  <2>1. Sql[e][x] = e.val
    BY <1>2, SqlAt
  <2>2. Parts(e) = {}
    BY <1>2 DEF Parts
  <2>4. Shared(T, e) = Scalar(e.val)
    BY <1>2, SharedAt
  <2>3. e.val # NULL /\ Shared(T, e)[1][x] = e.val
    BY <2>4 DEF Scalar
  <2> QED
    BY <1>2, <2>1, <2>2, <2>3
<1>3. CASE e.op = "bin"
  <2>1. /\ e.sym \in Symbols
        /\ Shared(T, e) = CallUnlessError(operator_to_py[e.sym], <<T[e.left], T[e.right]>>)
    BY <1>3, SharedAt, OperatorsAre
  <2>2. /\ T[e.left] # Unsupported /\ T[e.right] # Unsupported
        /\ Shared(T, e)[1][x] = Binary3(e.sym, T[e.left][1][x], T[e.right][1][x])
    BY <2>1, Call2
  <2>3. Sql[e][x] = Binary3(e.sym, Sql[e.left][x], Sql[e.right][x])
    BY <1>3, SqlAt
  <2>4. Parts(e) = {e.left, e.right}
    BY <1>3, PartsIn
  <2> QED
    BY <2>1, <2>2, <2>3, <2>4, BinaryKnown
<1>4. CASE e.op = "not"
  <2>1. Shared(T, e) = CallUnlessError("invert", <<T[e.arg]>>)
    BY <1>4, SharedAt
  <2>2. T[e.arg] # Unsupported /\ Shared(T, e)[1][x] = Not3(T[e.arg][1][x])
    BY <2>1, Call1
  <2>3. Sql[e][x] = Not3(Sql[e.arg][x])
    BY <1>4, SqlAt
  <2>4. Parts(e) = {e.arg}
    BY <1>4, PartsIn
  <2> QED
    BY <1>4, <2>2, <2>3, <2>4, NotKnown
<1>5. CASE e.op = "isnull"
  <2>1. Shared(T, e) = CallUnlessError("is_null", <<T[e.arg]>>)
    BY <1>5, SharedAt
  <2>2. T[e.arg] # Unsupported /\ Shared(T, e)[1][x] = (T[e.arg][1][x] = NULL)
    BY <2>1, Call1
  <2>3. Sql[e][x] = (Sql[e.arg][x] = NULL)
    BY <1>5, SqlAt
  <2>4. Parts(e) = {e.arg}
    BY <1>5, PartsIn
  <2>5. Sql[e][x] \in BOOLEAN
    BY <2>3
  <2> QED
    BY <1>5, <2>2, <2>3, <2>4, <2>5, NullAssumption
<1>6. CASE e.op = "isnotnull"
  <2>1. Shared(T, e) = CallUnlessError("is_valid", <<T[e.arg]>>)
    BY <1>6, SharedAt
  <2>2. T[e.arg] # Unsupported /\ Shared(T, e)[1][x] = (T[e.arg][1][x] # NULL)
    BY <2>1, Call1
  <2>3. Sql[e][x] = (Sql[e.arg][x] # NULL)
    BY <1>6, SqlAt
  <2>4. Parts(e) = {e.arg}
    BY <1>6, PartsIn
  <2>5. Sql[e][x] \in BOOLEAN
    BY <2>3
  <2> QED
    BY <1>6, <2>2, <2>3, <2>4, <2>5, NullAssumption
<1>7. CASE e.op = "opaque"
    BY <1>7, SharedAt
<1> QED
    BY <1>1, <1>2, <1>3, <1>4, <1>5, <1>6, <1>7, PartsIn DEF Ops

(* A conditional negation, as a chain of calls.                             *)
LEMMA InvertedIs ==
    ASSUME NEW t, NEW negated, Inverted(negated, t) # Unsupported
    PROVE  /\ t # Unsupported
           /\ \A x \in Values :
                 Inverted(negated, t)[1][x] = IF negated THEN Not3(t[1][x]) ELSE t[1][x]
<1>1. CASE negated
    BY <1>1, Call1 DEF Inverted
<1>2. CASE ~negated
    BY <1>2 DEF Inverted
<1> QED
    BY <1>1, <1>2

(* The BETWEEN of the two translations.                                     *)
LEMMA PyArrowBetween ==
    ASSUME NEW e \in Expressions, e.op = "between", PyArrow[e] # Unsupported
    PROVE  /\ \A d \in Parts(e) : PyArrow[d] # Unsupported
           /\ \A x \in Values :
                 LET in == Between3(PyArrow[e.arg][1][x], PyArrow[e.low][1][x],
                                    PyArrow[e.high][1][x])
                 IN PyArrow[e][1][x] = IF e.negated THEN Not3(in) ELSE in
<1> DEFINE a == PyArrow[e.arg]
           lo == CallUnlessError("le", <<PyArrow[e.low], a>>)
           hi == CallUnlessError("le", <<a, PyArrow[e.high]>>)
           both == CallUnlessError("and_", <<lo, hi>>)
<1>1. PyArrow[e] = Inverted(e.negated, both)
  <2>1. PyArrow[e] = PyArrowOf(PyArrow, e)
    BY PyArrowIs
  <2> QED
    BY <2>1 DEF PyArrowOf
<1>2. operator_to_py["LtEq"] = "le" /\ operator_to_py["And"] = "and_"
    BY DEF operator_to_py
<1>3. /\ both # Unsupported
      /\ \A x \in Values :
            PyArrow[e][1][x] = IF e.negated THEN Not3(both[1][x]) ELSE both[1][x]
  <2> HIDE DEF both
  <2> QED
    BY <1>1, InvertedIs
<1>4. /\ lo # Unsupported /\ hi # Unsupported
      /\ \A x \in Values : both[1][x] = And3(lo[1][x], hi[1][x])
  <2>1. "And" \in Symbols
    BY DEF Symbols
  <2> HIDE DEF lo, hi
  <2>2. /\ lo # Unsupported /\ hi # Unsupported
        /\ \A x \in Values : both[1][x] = Binary3("And", lo[1][x], hi[1][x])
    BY <1>2, <1>3, <2>1, Call2
  <2> QED
    BY <2>2, BinaryIs
<1> HIDE DEF both
<1>5. "LtEq" \in Symbols
    BY DEF Symbols
<1>6. /\ PyArrow[e.low] # Unsupported /\ a # Unsupported
      /\ \A x \in Values : lo[1][x] = Binary3("LtEq", PyArrow[e.low][1][x], a[1][x])
    BY <1>2, <1>4, <1>5, Call2
<1>7. /\ PyArrow[e.high] # Unsupported
      /\ \A x \in Values : hi[1][x] = Binary3("LtEq", a[1][x], PyArrow[e.high][1][x])
    BY <1>2, <1>4, <1>5, Call2
<1>8. Parts(e) = {e.arg, e.low, e.high}
    BY PartsIn
<1> HIDE DEF lo, hi
<1> QED
    BY <1>3, <1>4, <1>6, <1>7, <1>8 DEF Between3

LEMMA IbisBetween ==
    ASSUME NEW e \in Expressions, e.op = "between", Ibis[e] # Unsupported
    PROVE  /\ \A d \in Parts(e) : Ibis[d] # Unsupported
           /\ \A x \in Values :
                 LET in == Between3(Ibis[e.arg][1][x], Ibis[e.low][1][x], Ibis[e.high][1][x])
                 IN Ibis[e][1][x] = IF e.negated THEN Not3(in) ELSE in
<1> DEFINE both == CallUnlessError("between", <<Ibis[e.arg], Ibis[e.low], Ibis[e.high]>>)
<1>1. Ibis[e] = Inverted(e.negated, both)
  <2>1. Ibis[e] = IbisOf(Ibis, e)
    BY IbisIs
  <2> QED
    BY <2>1 DEF IbisOf
<1>2. /\ both # Unsupported
      /\ \A x \in Values :
            Ibis[e][1][x] = IF e.negated THEN Not3(both[1][x]) ELSE both[1][x]
  <2> HIDE DEF both
  <2> QED
    BY <1>1, InvertedIs
<1>3. Parts(e) = {e.arg, e.low, e.high}
    BY PartsIn
<1>4. /\ Ibis[e.arg] # Unsupported /\ Ibis[e.low] # Unsupported /\ Ibis[e.high] # Unsupported
      /\ \A x \in Values :
            both[1][x] = Between3(Ibis[e.arg][1][x], Ibis[e.low][1][x], Ibis[e.high][1][x])
    BY <1>2, Call3
<1> HIDE DEF both
<1> QED
    BY <1>2, <1>3, <1>4

LEMMA PyArrowInList ==
    ASSUME NEW e \in Expressions, e.op = "in", PyArrow[e] # Unsupported
    PROVE  /\ PyArrow[e.arg] # Unsupported /\ NULL \notin e.list
           /\ \A x \in Values :
                 LET in == PyArrowIn(PyArrow[e.arg][1][x], e.list)
                 IN PyArrow[e][1][x] = IF e.negated THEN Not3(in) ELSE in
<1> DEFINE t == IF NoScalars(e.list) \/ PyArrow[e.arg] = Unsupported THEN Unsupported
                ELSE <<[x \in Values |-> PyArrowIn(PyArrow[e.arg][1][x], e.list)]>>
<1>1. PyArrow[e] = Inverted(e.negated, t)
  <2>1. PyArrow[e] = PyArrowOf(PyArrow, e)
    BY PyArrowIs
  <2> QED
    BY <2>1 DEF PyArrowOf
<1>2. /\ t # Unsupported
      /\ \A x \in Values : PyArrow[e][1][x] = IF e.negated THEN Not3(t[1][x]) ELSE t[1][x]
  <2> HIDE DEF t
  <2> QED
    BY <1>1, InvertedIs
<1>3. PyArrow[e.arg] # Unsupported /\ NULL \notin e.list
    BY <1>2 DEF NoScalars
<1>4. \A x \in Values : t[1][x] = PyArrowIn(PyArrow[e.arg][1][x], e.list)
    BY <1>2
<1> HIDE DEF t
<1> QED
    BY <1>2, <1>3, <1>4

-----------------------------------------------------------------------------
(* pyarrow: on rows whose column is not null every translated expression    *)
(* has its value in SQL, on the others those without IN lists have, and     *)
(* those that only ask for them let the same rows pass.                     *)
LEMMA PyArrowFaithful == \A e \in Expressions : PyArrowAgrees(e)
<1>1. ASSUME NEW e \in Expressions, \A d \in Parts(e) : PyArrowAgrees(d),
             PyArrow[e] # Unsupported, NEW x \in Values
      PROVE  /\ x # NULL => PyArrow[e][1][x] = Sql[e][x] /\ Sql[e][x] # NULL
             /\ WithoutIn[e] => PyArrow[e][1][x] = Sql[e][x]
             /\ AsksForIn[e] => Same(PyArrow[e][1][x], Sql[e][x])
  <2>1. CASE e.op \notin {"in", "between"}
    <3>1. PyArrow[e] = Shared(PyArrow, e)
      <4>1. PyArrow[e] = PyArrowOf(PyArrow, e)
        BY PyArrowIs
      <4> QED
        BY <2>1, <4>1 DEF PyArrowOf
    <3>2. \A d \in Parts(e) : PyArrow[d] # Unsupported
      BY <1>1, <2>1, <3>1, SharedAgrees
    <3>3. x # NULL => PyArrow[e][1][x] = Sql[e][x] /\ Sql[e][x] # NULL
      <4> SUFFICES ASSUME x # NULL PROVE PyArrow[e][1][x] = Sql[e][x] /\ Sql[e][x] # NULL
        OBVIOUS
      <4>1. \A d \in Parts(e) : PyArrow[d][1][x] = Sql[d][x] /\ Sql[d][x] # NULL
        BY <1>1, <3>2 DEF PyArrowAgrees, Agrees
      <4> QED
        BY <1>1, <2>1, <3>1, <4>1, SharedAgrees
    <3>4. WithoutIn[e] => PyArrow[e][1][x] = Sql[e][x]
      <4> SUFFICES ASSUME WithoutIn[e] PROVE PyArrow[e][1][x] = Sql[e][x]
        OBVIOUS
      <4>1. \A d \in Parts(e) : PyArrow[d][1][x] = Sql[d][x]
        BY <1>1, <3>2, InInParts DEF PyArrowAgrees, Agrees
      <4> QED
        BY <1>1, <2>1, <3>1, <4>1, SharedAgrees
    <3>5. AsksForIn[e] => Same(PyArrow[e][1][x], Sql[e][x])
      <4> SUFFICES ASSUME AsksForIn[e], ~WithoutIn[e] PROVE Same(PyArrow[e][1][x], Sql[e][x])
        BY <3>4 DEF Same
      <4>1. /\ e.op = "bin" /\ e.sym \in {"And", "Or"}
            /\ AsksForIn[e.left] /\ AsksForIn[e.right]
        BY <2>1, InInParts
      <4>2. /\ Same(PyArrow[e.left][1][x], Sql[e.left][x])
            /\ Same(PyArrow[e.right][1][x], Sql[e.right][x])
        BY <1>1, <3>2, <4>1, PartsIn DEF PyArrowAgrees, Agrees
      <4>3. PyArrow[e][1][x] = Binary3(e.sym, PyArrow[e.left][1][x], PyArrow[e.right][1][x])
        BY <1>1, <2>1, <3>1, <4>1, SharedAgrees
      <4>4. Sql[e][x] = Binary3(e.sym, Sql[e.left][x], Sql[e.right][x])
        BY <4>1, SqlAt
      <4>5. CASE e.sym = "And"
        BY <4>2, <4>3, <4>4, <4>5, BinaryIs, SameAnd
      <4>6. CASE e.sym = "Or"
        BY <4>2, <4>3, <4>4, <4>6, BinaryIs, SameOr
      <4> QED
        BY <4>1, <4>5, <4>6
    <3> QED
      BY <3>3, <3>4, <3>5
  <2>2. CASE e.op = "between"
    <3>1. /\ \A d \in Parts(e) : PyArrow[d] # Unsupported
          /\ PyArrow[e][1][x] =
                IF e.negated
                THEN Not3(Between3(PyArrow[e.arg][1][x], PyArrow[e.low][1][x],
                                   PyArrow[e.high][1][x]))
                ELSE Between3(PyArrow[e.arg][1][x], PyArrow[e.low][1][x], PyArrow[e.high][1][x])
      BY <1>1, <2>2, PyArrowBetween
    <3>2. Sql[e][x] =
             IF e.negated THEN Not3(Between3(Sql[e.arg][x], Sql[e.low][x], Sql[e.high][x]))
             ELSE Between3(Sql[e.arg][x], Sql[e.low][x], Sql[e.high][x])
      BY <2>2, SqlAt
    <3>3. Parts(e) = {e.arg, e.low, e.high}
      BY <2>2, PartsIn
    <3>4. x # NULL => PyArrow[e][1][x] = Sql[e][x] /\ Sql[e][x] # NULL
      <4> SUFFICES ASSUME x # NULL PROVE PyArrow[e][1][x] = Sql[e][x] /\ Sql[e][x] # NULL
        OBVIOUS
      <4>1. \A d \in Parts(e) : PyArrow[d][1][x] = Sql[d][x] /\ Sql[d][x] # NULL
        BY <1>1, <3>1 DEF PyArrowAgrees, Agrees
      <4> QED
        BY <3>1, <3>2, <3>3, <4>1, BetweenKnown, NotKnown
    <3>5. WithoutIn[e] => PyArrow[e][1][x] = Sql[e][x]
      <4> SUFFICES ASSUME WithoutIn[e] PROVE PyArrow[e][1][x] = Sql[e][x]
        OBVIOUS
      <4>1. \A d \in Parts(e) : PyArrow[d][1][x] = Sql[d][x]
        BY <1>1, <3>1, InInParts DEF PyArrowAgrees, Agrees
      <4> QED
        BY <3>1, <3>2, <3>3, <4>1
    <3> QED
      BY <2>2, <3>4, <3>5, InInParts DEF Same
  <2>3. CASE e.op = "in"
    <3>1. /\ PyArrow[e.arg] # Unsupported /\ NULL \notin e.list
          /\ PyArrow[e][1][x] = IF e.negated THEN Not3(PyArrowIn(PyArrow[e.arg][1][x], e.list))
                                ELSE PyArrowIn(PyArrow[e.arg][1][x], e.list)
      BY <1>1, <2>3, PyArrowInList
    <3>2. Sql[e][x] = IF e.negated THEN Not3(In3(Sql[e.arg][x], e.list))
                      ELSE In3(Sql[e.arg][x], e.list)
      BY <2>3, SqlAt
    <3>3. PyArrowAgrees(e.arg)
      BY <1>1, <2>3, PartsIn
    <3>4. x # NULL => PyArrow[e][1][x] = Sql[e][x] /\ Sql[e][x] # NULL
      <4> SUFFICES ASSUME x # NULL PROVE PyArrow[e][1][x] = Sql[e][x] /\ Sql[e][x] # NULL
        OBVIOUS
      <4>1. PyArrow[e.arg][1][x] = Sql[e.arg][x] /\ Sql[e.arg][x] # NULL
        BY <3>1, <3>3 DEF PyArrowAgrees, Agrees
      <4>2. /\ In3(Sql[e.arg][x], e.list) = PyArrowIn(Sql[e.arg][x], e.list)
            /\ In3(Sql[e.arg][x], e.list) # NULL
        BY <3>1, <4>1, InKnown
      <4> QED
        BY <3>1, <3>2, <4>1, <4>2, NotKnown
    <3>5. ~WithoutIn[e]
      BY <2>3, <3>1, InInParts DEF NoScalars
    <3>6. AsksForIn[e] => Same(PyArrow[e][1][x], Sql[e][x])
      <4> SUFFICES ASSUME AsksForIn[e] PROVE Same(PyArrow[e][1][x], Sql[e][x])
        OBVIOUS
      <4>1. ~e.negated /\ WithoutIn[e.arg]
        BY <2>3, <3>5, InInParts
      <4>2. PyArrow[e.arg][1][x] = Sql[e.arg][x]
        BY <3>1, <3>3, <4>1 DEF PyArrowAgrees, Agrees
      <4> QED
        BY <3>1, <3>2, <4>1, <4>2, InKnown
    <3> QED
      BY <3>4, <3>5, <3>6
  <2> QED
    BY <2>1, <2>2, <2>3
<1>2. PyArrowRec!Inductive
    BY <1>1 DEF PyArrowRec!Inductive, PyArrowAgrees, Agrees
<1> QED
    BY <1>2, PyArrowFinite, PyArrowRec!Induction

(* ibis: every translated expression without IN lists has its value in SQL. *)
LEMMA IbisFaithful == \A e \in Expressions : IbisAgrees(e)
<1>1. ASSUME NEW e \in Expressions, \A d \in Parts(e) : IbisAgrees(d),
             Ibis[e] # Unsupported, WithoutIn[e], NEW x \in Values
      PROVE  Ibis[e][1][x] = Sql[e][x]
  <2>1. CASE e.op \notin {"in", "between"}
    <3>1. Ibis[e] = Shared(Ibis, e)
      <4>1. Ibis[e] = IbisOf(Ibis, e)
        BY IbisIs
      <4> QED
        BY <2>1, <4>1 DEF IbisOf
    <3>2. \A d \in Parts(e) : Ibis[d] # Unsupported
      BY <1>1, <2>1, <3>1, SharedAgrees
    <3>3. \A d \in Parts(e) : Ibis[d][1][x] = Sql[d][x]
      BY <1>1, <3>2, InInParts DEF IbisAgrees, AgreesWithoutIn
    <3> QED
      BY <1>1, <2>1, <3>1, <3>3, SharedAgrees
  <2>2. CASE e.op = "between"
    <3>1. /\ \A d \in Parts(e) : Ibis[d] # Unsupported
          /\ Ibis[e][1][x] =
                IF e.negated
                THEN Not3(Between3(Ibis[e.arg][1][x], Ibis[e.low][1][x], Ibis[e.high][1][x]))
                ELSE Between3(Ibis[e.arg][1][x], Ibis[e.low][1][x], Ibis[e.high][1][x])
      BY <1>1, <2>2, IbisBetween
    <3>2. Sql[e][x] =
             IF e.negated THEN Not3(Between3(Sql[e.arg][x], Sql[e.low][x], Sql[e.high][x]))
             ELSE Between3(Sql[e.arg][x], Sql[e.low][x], Sql[e.high][x])
      BY <2>2, SqlAt
    <3>3. Parts(e) = {e.arg, e.low, e.high}
      BY <2>2, PartsIn
    <3>4. \A d \in Parts(e) : Ibis[d][1][x] = Sql[d][x]
      BY <1>1, <3>1, InInParts DEF IbisAgrees, AgreesWithoutIn
    <3> QED
      BY <3>1, <3>2, <3>3, <3>4
  <2>3. CASE e.op = "in"
    <3>1. NoScalars(e.list)
      BY <1>1, <2>3, InInParts
    <3>2. Ibis[e] = IbisOf(Ibis, e)
      BY IbisIs
    <3>3. Ibis[e] = Unsupported
      BY <2>3, <3>1, <3>2 DEF IbisOf, IbisInList
    <3> QED
      BY <1>1, <3>3
  <2> QED
    BY <2>1, <2>2, <2>3
<1>2. IbisRec!Inductive
    BY <1>1 DEF IbisRec!Inductive, IbisAgrees, AgreesWithoutIn
<1> QED
    BY <1>2, IbisFinite, IbisRec!Induction

-----------------------------------------------------------------------------
(* The planning state.                                                      *)
Verdicts == [i \in DOMAIN filters |->
                IF Translation(filters[i]) = Unsupported THEN "Unsupported" ELSE "Exact"]
Left(x) == \A i \in DOMAIN filters \ Pushed : Sql[filters[i]][x] = TRUE

FilterInv ==
    /\ kind \in Kinds /\ query \in Queries[kind]
    /\ phase \in {"planning", "planned", "scanned", "done"}
    /\ phase = "planning" => verdict = <<>>
    /\ phase # "planning" => verdict = Verdicts
    /\ phase \in {"planning", "planned"} => rows = {}
    /\ phase = "scanned" => rows = {x \in query.table : Passes(Pushed, x)}
    /\ phase = "done" => rows = {x \in query.table : Passes(Pushed, x) /\ Left(x)}

LEMMA FilterInitInv == Init => FilterInv
    BY DEF Init, FilterInv

LEMMA FilterNextInv == FilterInv /\ [Next]_vars => FilterInv'
<1> SUFFICES ASSUME FilterInv, [Next]_vars PROVE FilterInv'
    OBVIOUS
<1>1. CASE SupportsFiltersPushdown
  <2>1. verdict' = Verdicts /\ UNCHANGED <<kind, query, rows>> /\ phase' = "planned"
    BY <1>1 DEF SupportsFiltersPushdown, Verdicts
  <2>2. Verdicts' = Verdicts
    BY <2>1 DEF Verdicts, filters, Translation
  <2> QED
    BY <1>1, <2>1, <2>2 DEF FilterInv, SupportsFiltersPushdown
<1>2. CASE Scan
  <2>1. UNCHANGED <<kind, query, verdict>> /\ phase = "planned"
    BY <1>2 DEF Scan
  <2>2. Verdicts' = Verdicts /\ Pushed' = Pushed
    BY <2>1 DEF Verdicts, filters, Translation, Pushed
  <2>3. \A i \in Pushed : Translation(filters[i]) # Unsupported
    BY <2>1 DEF FilterInv, Pushed, Verdicts
  <2>4. phase' = "scanned" /\ rows' = {x \in query.table : Passes(Pushed, x)}
    BY <1>2, <2>3 DEF Scan
  <2>5. \A x : Passes(Pushed, x)' = Passes(Pushed, x)
    BY <2>1, <2>2 DEF Passes, Translation, filters
  <2> QED
    BY <2>1, <2>2, <2>4, <2>5 DEF FilterInv
<1>3. CASE FilterExec
  <2>1. UNCHANGED <<kind, query, verdict>> /\ phase = "scanned" /\ phase' = "done"
    BY <1>3 DEF FilterExec
  <2>2. Verdicts' = Verdicts /\ Pushed' = Pushed
    BY <2>1 DEF Verdicts, filters, Translation, Pushed
  <2>3. \A x : Passes(Pushed, x)' = Passes(Pushed, x) /\ Left(x)' = Left(x)
    BY <2>1, <2>2 DEF Passes, Translation, filters, Left
  <2>4. rows' = {x \in query.table : Passes(Pushed, x) /\ Left(x)}
    BY <1>3, <2>1 DEF FilterExec, FilterInv, Left
  <2> QED
    BY <2>1, <2>2, <2>3, <2>4 DEF FilterInv
<1>4. CASE UNCHANGED vars
  <2>1. UNCHANGED <<kind, query, verdict, phase, rows>>
    BY <1>4 DEF vars
  <2>2. Verdicts' = Verdicts /\ Pushed' = Pushed
    BY <2>1 DEF Verdicts, filters, Translation, Pushed
  <2>3. \A x : Passes(Pushed, x)' = Passes(Pushed, x) /\ Left(x)' = Left(x)
    BY <2>1, <2>2 DEF Passes, Translation, filters, Left
  <2> QED
    BY <2>1, <2>2, <2>3 DEF FilterInv
<1> QED
    BY <1>1, <1>2, <1>3, <1>4 DEF Next

LEMMA FilterInvariance == Spec => []FilterInv
<1> QED
    BY FilterInitInv, FilterNextInv, PTL DEF Spec

(* The planning state is well typed: every filter has one of the two        *)
(* answers of supports_filters_pushdown, and rows come from the table.      *)
THEOREM FilterTypes == Spec => []TypeOK
<1>1. FilterInv => TypeOK
    BY QueriesAssumption DEF FilterInv, TypeOK, Verdicts
<1> QED
    BY <1>1, FilterInvariance, PTL

(* The translation that answered Exact when the query was planned succeeds  *)
(* again in scan: the error of DatasetExec::new and the unwrap of the ibis  *)
(* path are unreachable.                                                    *)
THEOREM ScanSafe == Spec => []ScanSucceeds
<1>1. FilterInv => ScanSucceeds
    BY DEF FilterInv, ScanSucceeds
<1> QED
    BY <1>1, FilterInvariance, PTL

(* Whatever filters of any size a query has, the rows of its answer are     *)
(* those SQL asks for, whichever of the filters the source took over:       *)
(* provided that each is without an IN list that translates, or, for a      *)
(* pyarrow dataset, only asks for its IN lists or meets no null.            *)
THEOREM PushdownSafe ==
    ASSUME \A k \in Kinds : \A q \in Queries[k] : Faithful(k, q)
    PROVE  Spec => []PushdownExact
<1>1. ASSUME FilterInv, NEW x \in query.table, NEW i \in DOMAIN filters,
             Translation(filters[i]) # Unsupported
      PROVE  Translation(filters[i])[1][x] = TRUE <=> Sql[filters[i]][x] = TRUE
  <2>1. kind \in Kinds /\ query \in Queries[kind]
    BY <1>1 DEF FilterInv
  <2>2. x \in Values /\ filters[i] \in Expressions
    BY <2>1, QueriesAssumption DEF filters
  <2>3. Faithful(kind, query)
    BY <2>1
  <2>4. CASE kind = "dataset"
    <3>1. Agrees(PyArrow[filters[i]], filters[i])
      BY <2>2, PyArrowFaithful DEF PyArrowAgrees
    <3>2. PyArrow[filters[i]] # Unsupported /\ Translation(filters[i]) = PyArrow[filters[i]]
      BY <1>1, <2>4 DEF Translation
    <3>3. x # NULL \/ AsksForIn[filters[i]]
      BY <2>3, <2>4 DEF Faithful, filters
    <3>4. Same(PyArrow[filters[i]][1][x], Sql[filters[i]][x])
      BY <2>2, <3>1, <3>2, <3>3 DEF Agrees, Same
    <3> QED
      BY <3>2, <3>4, NullAssumption DEF Same
  <2>5. CASE kind # "dataset"
    <3>1. AgreesWithoutIn(Ibis[filters[i]], filters[i])
      BY <2>2, IbisFaithful DEF IbisAgrees
    <3>2. Ibis[filters[i]] # Unsupported /\ Translation(filters[i]) = Ibis[filters[i]]
      BY <1>1, <2>5 DEF Translation
    <3>3. WithoutIn[filters[i]]
      BY <2>3, <2>5 DEF Faithful, filters
    <3> QED
      BY <2>2, <3>1, <3>2, <3>3 DEF AgreesWithoutIn
  <2> QED
    BY <2>4, <2>5
<1>2. ASSUME FilterInv, phase = "done" PROVE rows = Wanted
  <2>1. /\ verdict = Verdicts
        /\ rows = {x \in query.table : Passes(Pushed, x) /\ Left(x)}
    BY <1>2 DEF FilterInv
  <2>2. /\ Pushed \subseteq DOMAIN filters
        /\ \A i \in Pushed : Translation(filters[i]) # Unsupported
    BY <2>1 DEF Pushed, Verdicts
  <2>3. ASSUME NEW x \in query.table
        PROVE  Passes(Pushed, x) <=> \A i \in Pushed : Sql[filters[i]][x] = TRUE
    BY <1>1, <1>2, <2>2 DEF Passes
  <2>4. ASSUME NEW x \in query.table
        PROVE  Passes(Pushed, x) /\ Left(x) <=> \A i \in DOMAIN filters : Sql[filters[i]][x] = TRUE
    BY <2>2, <2>3 DEF Left
  <2> QED
    BY <2>1, <2>4 DEF Wanted
<1>3. FilterInv => PushdownExact
    BY <1>2 DEF PushdownExact
<1> QED
    BY <1>3, FilterInvariance, PTL
=============================================================================
