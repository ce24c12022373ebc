----------------------------- MODULE Aggregation -----------------------------
(***************************************************************************)
(* A user-defined aggregate: Python accumulators behind RustAccumulator.   *)
(* DataFusion (external) updates one accumulator per input partition and   *)
(* group, takes its state as one scalar per state field, and merges the    *)
(* states, columns of one array per field, in batches of any size and      *)
(* order into a final accumulator per group.                               *)
(*                                                                         *)
(* What a Python accumulator has folded in is abstracted to how often it   *)
(* counts each row, in each of its state fields (a mean has two, a sum and *)
(* a count).                                                               *)
(***************************************************************************)
EXTENDS Naturals, FiniteSets, Folds

CONSTANTS
    Rows,
    Group,          \* Group[r]
    Layouts,        \* ways to spread the rows over input partitions
    Fields          \* number of state fields

Groups == {Group[r] : r \in Rows}
Parts == {layout[r] : layout \in Layouts, r \in Rows}
Partials == Parts \X Groups
Finals == {<<g>> : g \in Groups}
Accumulators == Partials \cup Finals
Columns == 1..Fields

ASSUME RowsAssumption == IsFiniteSet(Rows)
ASSUME LayoutsAssumption == \A layout \in Layouts : DOMAIN layout = Rows
ASSUME FieldsAssumption == Fields \in Nat \ {0}

VARIABLES
    part,       \* part[r]: the input partition r is read from
    single,     \* the plan has no separate final aggregation
    reads,      \* what the class takes the argument of merge for: "array" or "list"
    unread,     \* rows not yet read
    value,      \* per Python object: what it has folded in
    states,     \* per partial accumulator: the state it gave
    stage,      \* per partial accumulator: "update", "sent", "merged"
    skipped,    \* partial accumulators whose state merge was given and did not read
    result,     \* per group: the value given, or NoResult
    failed      \* a Python method raised, which fails the query

vars == <<part, single, reads, skipped, unread, value, states, stage, result,
          failed>>

-----------------------------------------------------------------------------
(* The partial accumulators of the query: a group's in each partition that  *)
(* has rows of it.                                                          *)
Partial == {<<part[r], Group[r]>> : r \in Rows}
OnePartition == Cardinality({part[r] : r \in Rows}) = 1

Nothing == [k \in Columns |-> [r \in Rows |-> 0]]
NoResult == [k \in Columns |-> <<>>]

(* to_rust_accumulator: the factory calls the Python class, so that every   *)
(* accumulator has an object of its own.  Faulty variant: the factory hands *)
(* out one object.                                                          *)
SharedObject(a) == CHOOSE b \in Accumulators : TRUE
Object(a) == a

(* Python's update and merge.                                               *)
Counted(v, B) == [k \in Columns |-> [r \in Rows |-> v[k][r] + IF r \in B THEN 1 ELSE 0]]
Plus(v, w) == [r \in Rows |-> v[r] + w[r]]
SumOf(S, k) == MapThenFoldSet(Plus, Nothing[k], LAMBDA a : states[a][k],
                              LAMBDA T : CHOOSE a \in T : TRUE, S)

Fresh ==
    /\ part \in Layouts
    /\ single \in BOOLEAN /\ (single => OnePartition)
    /\ reads \in {"array", "list"}
    /\ skipped = {}
    /\ unread = Rows
    /\ value = [a \in Accumulators |-> Nothing]
    /\ states = [a \in Partials |-> Nothing]
    /\ stage = [a \in Partials |-> "update"]
    /\ result = [g \in Groups |-> NoResult]

Init == Fresh /\ failed = FALSE

(* update_batch with a batch of the rows of one partition and group.        *)
Update(a) ==
    /\ ~failed
    /\ stage[a] = "update"
    /\ \E B \in SUBSET {r \in unread : <<part[r], Group[r]>> = a} :
        /\ B # {}
        /\ unread' = unread \ B
        /\ value' = [value EXCEPT ![Object(a)] = Counted(@, B)]
    /\ UNCHANGED <<part, single, reads, skipped, states, stage, result, failed>>

(* state, once the partition is read.  A plan without a separate final      *)
(* aggregation, which there may be for one partition, takes no state.       *)
State(a) ==
    /\ ~failed /\ ~single
    /\ stage[a] = "update"
    /\ \A r \in unread : part[r] # a[1]
    /\ states' = [states EXCEPT ![a] = value[Object(a)]]
    /\ stage' = [stage EXCEPT ![a] = "sent"]
    /\ UNCHANGED <<part, single, reads, skipped, unread, value, result, failed>>

(* merge_batch with the states S of one group: the array of the first field *)
(* is all that Python's merge is given, so that the other fields of the     *)
(* final accumulator stay.  A class that takes the argument for a list of   *)
(* arrays, one per field, reads its first element, which is one state.      *)
Read(S) == IF reads = "array" THEN {S} ELSE {{a} : a \in S}
MergeBatch(g) ==
    /\ ~failed
    /\ \E S \in SUBSET {a \in Partial : a[2] = g /\ stage[a] = "sent"} :
        /\ S # {}
        /\ \E read \in Read(S) :
            /\ value' = [value EXCEPT ![Object(<<g>>)][1] = Plus(@, SumOf(read, 1))]
            /\ skipped' = skipped \cup (S \ read)
        /\ stage' = [a \in Partials |-> IF a \in S THEN "merged" ELSE stage[a]]
    /\ UNCHANGED <<part, single, reads, unread, states, result, failed>>

(* evaluate: of the final accumulator, or of the only one when nothing is   *)
(* merged.                                                                  *)
Evaluate(g) ==
    /\ ~failed
    /\ result[g] = NoResult
    /\ IF single
       THEN /\ unread = {}
            /\ \E a \in Partial :
                a[2] = g /\ result' = [result EXCEPT ![g] = value[Object(a)]]
       ELSE /\ \A a \in Partial : a[2] = g => stage[a] = "merged"
            /\ result' = [result EXCEPT ![g] = value[Object(<<g>>)]]
    /\ UNCHANGED <<part, single, reads, skipped, unread, value, states, stage, failed>>

(* Any of Python's methods may raise; to_external_err ends the query.       *)
Raise ==
    /\ ~failed
    /\ \E g \in Groups : result[g] = NoResult
    /\ failed' = TRUE
    /\ UNCHANGED <<part, single, reads, skipped, unread, value, states, stage, result>>

Next ==
    \/ \E a \in Partial : Update(a) \/ State(a)
    \/ \E g \in Groups : MergeBatch(g) \/ Evaluate(g)
    \/ Raise

Spec == Init /\ [][Next]_vars

-----------------------------------------------------------------------------
(* Types, and that no accumulator or state ever counts a row twice.         *)
TypeOK ==
    /\ part \in Layouts
    /\ single \in BOOLEAN
    /\ reads \in {"array", "list"}
    /\ skipped \subseteq Partials
    /\ unread \subseteq Rows
    /\ value \in [Accumulators -> [Columns -> [Rows -> {0, 1}]]]
    /\ states \in [Partials -> [Columns -> [Rows -> {0, 1}]]]
    /\ stage \in [Partials -> {"update", "sent", "merged"}]
    /\ failed \in BOOLEAN

(* The value a query is given for a group counts every row of the group     *)
(* once, in every state field, however the rows were split into partitions  *)
(* and batches and in whatever order the states were merged, if the class   *)
(* takes what merge_batch gives it for an array.  One that takes it for a   *)
(* list, as the accumulator of the repository's test does, loses the rows   *)
(* of the states it did not read, and those alone.                          *)
EachRowOnce ==
    /\ reads = "array" => skipped = {}
    /\ \A g \in Groups : result[g] # NoResult =>
        \A k \in Columns : \A r \in Rows :
            result[g][k][r] =
                IF Group[r] = g /\ <<part[r], g>> \notin skipped THEN 1 ELSE 0
=============================================================================
