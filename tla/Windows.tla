------------------------------- MODULE Windows -------------------------------
(***************************************************************************)
(* A user-defined window function: a Python evaluator behind               *)
(* RustPartitionEvaluator.  One Python object, the one udwf was given,     *)
(* serves every partition of every query; partitions are spread over tasks *)
(* that call it concurrently, the GIL changing hands within a call too.    *)
(*                                                                         *)
(* External: DataFusion's two window operators.  With an evaluator that    *)
(* supports bounded execution rows are evaluated as they arrive, over a    *)
(* buffer from which the rows before the last range are pruned; otherwise  *)
(* once the partition is complete, row by row over the frame, or in one    *)
(* call, with the ranges of equal rows (ranks) or with the values.  What a *)
(* call answers for a row is abstracted to the rows it is computed from.   *)
(***************************************************************************)
EXTENDS Integers, FiniteSets, FiniteSetsExt

CONSTANTS
    Sizes,          \* rows of each partition
    Deals,          \* ways to spread the partitions over tasks
    Evaluators,     \* the Python objects: see EvaluatorsAssumption
    Bounds,         \* offsets of a frame
    Null            \* no offset; nothing

Partitions == DOMAIN Sizes
WindowRows == UNION {{p} \X (0..Sizes[p] - 1) : p \in Partitions}
Tasks == UNION {{deal[p] : p \in Partitions} : deal \in Deals}

(* The methods that answer yes or no, or raise.                             *)
Flags == {"supports_bounded_execution", "uses_window_frame", "is_causal", "include_rank"}

(* What get_range answers for the row at index i of a buffer of n rows.     *)
Ranges(reach, i, n) ==
    CASE reach = "self" -> <<i, i + 1>>
      [] reach = "previous" -> <<Max({0, i - 1}), i + 1>>
      [] reach = "next" -> <<i, Min({n, i + 2})>>
      [] reach = "all" -> <<0, n>>

(* An evaluator that calls itself causal does not look past its row.        *)
Honest(e) == e.answers["is_causal"] = "yes" => e.reach \in {"self", "previous"}

ASSUME EvaluatorsAssumption ==
    \A e \in Evaluators :
        /\ e.answers \in [Flags -> {"yes", "no", "raises"}]
        /\ e.reach \in {"self", "previous", "next", "all"}
        /\ e.keeps \in BOOLEAN      \* it keeps what it works on in its fields
        /\ Honest(e)
ASSUME SizesAssumption == \A p \in Partitions : Sizes[p] \in Nat \ {0}
ASSUME DealsAssumption == \A deal \in Deals : DOMAIN deal = Partitions
ASSUME BoundsAssumption == Bounds \subseteq Nat /\ Null \notin Nat
ASSUME NullAssumption == \A S \in SUBSET WindowRows : S # Null

VARIABLES
    evaluator,  \* the Python object
    frame,      \* the frame of the window expression
    task,       \* task[p]: the task that has partition p
    arrived,    \* per partition: rows that have arrived
    ended,      \* partitions known to be complete
    base,       \* per partition: rows pruned from its buffer
    done,       \* per partition: rows evaluated
    call,       \* per task: the call it is in, or Null
    fields,     \* what the evaluator keeps in its fields
    output,     \* per row: the rows its value was computed from, or Null
    stopped     \* the query failed

windowVars == <<evaluator, frame, task, arrived, ended, base, done, call, fields, output, stopped>>
fixedVars == <<evaluator, frame, task>>

-----------------------------------------------------------------------------
(* PyWindowFrame: no offset means unbounded, and is refused for groups.     *)
Units == {"rows", "range", "groups"}
Refused == [units |-> "refused"]
NewFrame(units, start, end) ==
    IF units \notin Units \/ (units = "groups" /\ Null \in {start, end})
    THEN Refused
    ELSE [units |-> units, start |-> <<"preceding", start>>, end |-> <<"following", end>>]

(* PyWindowFrameBound.is_unbounded.                                         *)
IsUnbounded(bound) == bound[1] # "current" /\ bound[2] = Null

(* Where a bound lies from the current row, if it is not unbounded.         *)
Offset(bound) ==
    IF bound[1] = "current" THEN 0
    ELSE IF bound[1] = "preceding" THEN -bound[2] ELSE bound[2]

(* The frames in rows that an expression can have: the constructor's, and   *)
(* those of SQL, which also end before their row, start after it, or have   *)
(* it for a bound, and whose start is not after their end.                  *)
SqlBounds(direction) ==
    ({"preceding", "following"} \X Bounds) \cup {<<"current", Null>>, <<direction, Null>>}
SqlFrames ==
    { f \in [units : {"rows"}, start : SqlBounds("preceding"), end : SqlBounds("following")] :
        IsUnbounded(f.start) \/ IsUnbounded(f.end) \/ Offset(f.start) <= Offset(f.end) }
Frames == { NewFrame("rows", s, e) : s, e \in Bounds \cup {Null} } \cup SqlFrames

(* Of the row at index i of a buffer of n rows; empty where the whole frame *)
(* lies before the first row or after the last.                             *)
Clamp(n, x) == Max({0, Min({n, x})})
FrameRange(f, i, n) ==
    << IF IsUnbounded(f.start) THEN 0 ELSE Clamp(n, i + Offset(f.start)),
       IF IsUnbounded(f.end) THEN n ELSE Clamp(n, i + Offset(f.end) + 1) >>
FrameCausal(f) == ~IsUnbounded(f.end) /\ Offset(f.end) <= 0

(* A flag that raises, or answers no bool, counts as no.  Faulty variant:   *)
(* as yes.                                                                  *)
FlagOrYes(m) == evaluator.answers[m] # "no"
Flag(m) == evaluator.answers[m] = "yes"

Bounded ==
    /\ Flag("supports_bounded_execution")
    /\ Flag("uses_window_frame") => ~IsUnbounded(frame.end)
Causal == IF Flag("uses_window_frame") THEN FrameCausal(frame) ELSE Flag("is_causal")

(* get_range's pair, start and end.                                         *)
GetRange(i, n) == Ranges(evaluator.reach, i, n)

RangeIn(i, n) == IF Flag("uses_window_frame") THEN FrameRange(frame, i, n) ELSE GetRange(i, n)

(* Rows of p between two indices of a buffer that starts at row b.          *)
Slice(p, b, range) == {p} \X (b + range[1]..b + range[2] - 1)

(* Rows that the order of the window holds equal: pairs.                    *)
Equals(i, n) == <<i - (i % 2), Min({n, i - (i % 2) + 2})>>

-----------------------------------------------------------------------------
WindowFresh ==
    /\ evaluator \in Evaluators
    /\ frame \in Frames
    /\ task \in Deals
    /\ arrived = [p \in Partitions |-> 0]
    /\ ended = {}
    /\ base = [p \in Partitions |-> 0]
    /\ done = [p \in Partitions |-> 0]
    /\ call = [t \in Tasks |-> Null]
    /\ fields = Null
    /\ output = [r \in WindowRows |-> Null]

Arrive(p) ==
    /\ ~stopped /\ arrived[p] < Sizes[p]
    /\ arrived' = [arrived EXCEPT ![p] = @ + 1]
    /\ UNCHANGED <<fixedVars, ended, base, done, call, fields, output, stopped>>

Complete(p) ==
    /\ ~stopped /\ p \notin ended /\ arrived[p] = Sizes[p]
    /\ ended' = ended \cup {p}
    /\ UNCHANGED <<fixedVars, arrived, base, done, call, fields, output, stopped>>

(* to_rust_partition_evaluator: every call is one of the same object.       *)
(* gives[r]: the rows that row r is computed from.                          *)
Call(p, gives, start) ==
    /\ ~stopped
    /\ call[task[p]] = Null
    /\ call' = [call EXCEPT ![task[p]] = [part |-> p, gives |-> gives, start |-> start]]
    /\ fields' = IF evaluator.keeps THEN gives ELSE Null
    /\ UNCHANGED <<fixedVars, arrived, ended, base, done, output, stopped>>

(* evaluate, as rows arrive: a range that reaches the end of what is there  *)
(* waits for more, unless the function is causal.                           *)
EvaluateBounded(p) ==
    LET n == arrived[p] - base[p]
        range == RangeIn(done[p] - base[p], n)
    IN /\ Bounded
       /\ done[p] < arrived[p]
       /\ range[2] = n => Causal \/ p \in ended
       /\ Call(p, [r \in {<<p, done[p]>>} |-> Slice(p, base[p], range)], range[1])

(* evaluate, over the frame of every row of a complete partition.           *)
EvaluateFrames(p) ==
    /\ ~Bounded /\ Flag("uses_window_frame")
    /\ p \in ended /\ done[p] < Sizes[p]
    /\ Call(p, [r \in {<<p, done[p]>>} |-> Slice(p, 0, FrameRange(frame, done[p], Sizes[p]))], 0)

EvaluateAllWithRank(p) ==
    /\ ~Bounded /\ ~Flag("uses_window_frame") /\ Flag("include_rank")
    /\ p \in ended /\ done[p] = 0
    /\ Call(p, [r \in {p} \X (0..Sizes[p] - 1) |-> Slice(p, 0, Equals(r[2], Sizes[p]))], 0)

EvaluateAll(p) ==
    /\ ~Bounded /\ ~Flag("uses_window_frame") /\ ~Flag("include_rank")
    /\ p \in ended /\ done[p] = 0
    /\ Call(p, [r \in {p} \X (0..Sizes[p] - 1) |-> {r}], 0)

(* The call returns: what it kept may by now be another call's.  Evaluated  *)
(* rows before its range may be pruned with it.                             *)
Worked(t) == IF evaluator.keeps THEN fields ELSE call[t].gives

Answer(t) ==
    /\ ~stopped /\ call[t] # Null
    /\ LET p == call[t].part
           mine == DOMAIN call[t].gives
       IN /\ output' = [r \in WindowRows |->
                IF r \notin mine THEN output[r]
                ELSE IF r \in DOMAIN Worked(t) THEN Worked(t)[r] ELSE {}]
          /\ done' = [done EXCEPT ![p] = @ + Cardinality(mine)]
          /\ base' \in {base, [base EXCEPT ![p] = Min({@ + call[t].start, done'[p]})]}
    /\ call' = [call EXCEPT ![t] = Null]
    /\ UNCHANGED <<fixedVars, arrived, ended, fields, stopped>>

(* The query fails, and with it every call under way.                       *)
StopQuery == stopped' = TRUE /\ call' = [t \in Tasks |-> Null]

(* A method raises, or get_range gives no pair.                             *)
RaiseInCall(t) ==
    /\ ~stopped /\ call[t] # Null
    /\ StopQuery
    /\ UNCHANGED <<fixedVars, arrived, ended, base, done, fields, output>>

(* memoize, between two calls in bounded execution when no row leaves the   *)
(* frame: the object may drop what it keeps, or raise.                      *)
Memoize(p) ==
    /\ ~stopped /\ Bounded /\ IsUnbounded(frame.start)
    /\ arrived[p] > 0 /\ call[task[p]] = Null
    /\ \/ fields' \in {fields, [r \in {} |-> {}]} /\ UNCHANGED <<call, stopped>>
       \/ StopQuery /\ UNCHANGED fields
    /\ UNCHANGED <<fixedVars, arrived, ended, base, done, output>>

WindowNext ==
    \/ \E p \in Partitions :
        \/ Arrive(p) \/ Complete(p)
        \/ EvaluateBounded(p) \/ EvaluateFrames(p) \/ EvaluateAllWithRank(p) \/ EvaluateAll(p)
        \/ Memoize(p)
    \/ \E t \in Tasks : Answer(t) \/ RaiseInCall(t)

-----------------------------------------------------------------------------
(* Types, and how much of a partition is pruned, evaluated and there.       *)
WindowTypeOK ==
    /\ evaluator \in Evaluators /\ frame \in Frames /\ task \in Deals
    /\ ended \subseteq {p \in Partitions : arrived[p] = Sizes[p]}
    /\ \A p \in Partitions :
        /\ 0 <= base[p] /\ base[p] <= done[p] /\ done[p] <= arrived[p] /\ arrived[p] <= Sizes[p]
        /\ done[p] = Cardinality({i \in 0..Sizes[p] - 1 : output[<<p, i>>] # Null})
    /\ \A t \in Tasks : call[t] # Null => task[call[t].part] = t
    /\ stopped \in BOOLEAN

(* What a row's value is computed from when its partition is evaluated      *)
(* alone and complete, the way the evaluator says without raising.          *)
Says(m) == evaluator.answers[m] = "yes"
Alone(r) ==
    LET size == Sizes[r[1]]
    IN Slice(r[1], 0,
        CASE Says("uses_window_frame") -> FrameRange(frame, r[2], size)
          [] ~Says("uses_window_frame") /\ Says("supports_bounded_execution") ->
                Ranges(evaluator.reach, r[2], size)
          [] /\ ~Says("uses_window_frame") /\ ~Says("supports_bounded_execution")
             /\ Says("include_rank") -> Equals(r[2], size)
          [] OTHER -> <<r[2], r[2] + 1>>)

(* Every value is the one its partition alone would give, whenever the rows *)
(* arrive, as long as the evaluator keeps nothing in its fields, or one     *)
(* task has all the partitions and it keeps it no longer than for a call.   *)
PartitionsApart ==
    (~evaluator.keeps \/ \A p, q \in Partitions : task[p] = task[q]) =>
        \A r \in WindowRows : output[r] # Null => output[r] = Alone(r)
=============================================================================
