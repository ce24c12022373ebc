------------------------------- MODULE Sliding -------------------------------
(***************************************************************************)
(* A user-defined aggregate over the frames of a window.  DataFusion       *)
(* (external) has one accumulator per partition, moves it from the range   *)
(* of a row to that of the next, with the rows that enter and then the     *)
(* rows that leave, and takes the value.  Partitions, frames and ranges    *)
(* are those of Windows; what the accumulator has folded in is how often   *)
(* it counts each row.                                                     *)
(***************************************************************************)
EXTENDS Windows

CONSTANT
    Supports        \* what supports_retract_batch may do: "yes", "no", "raises"

VARIABLES
    support,    \* what it does
    over,       \* the frame
    came,       \* per partition: rows that have arrived
    closed,     \* partitions known to be complete
    live,       \* partitions that have an accumulator
    held,       \* per partition: what its accumulator counts
    range,      \* per partition: the range the accumulator stands for
    moved,      \* per partition: rows evaluated
    taken,      \* per row: the value taken, or Null
    halted      \* the query failed

slidingVars == <<support, over, came, closed, live, held, range, moved, taken, halted>>

-----------------------------------------------------------------------------
Indices(p) == 0..Sizes[p] - 1
Nought(p) == [i \in Indices(p) |-> 0]

(* External: a Python accumulator counts each row of a batch, and discounts *)
(* it again if it knows how to; one that does not say so may leave it.      *)
UpdateBatch(counts, B) == [i \in DOMAIN counts |-> counts[i] + IF i \in B THEN 1 ELSE 0]
Discount(counts, B) ==
    IF support = "yes" THEN [i \in DOMAIN counts |-> counts[i] - IF i \in B THEN 1 ELSE 0]
    ELSE counts

(* retract_batch.  Faulty variant: it calls the method that adds.           *)
RetractAdds(counts, B) == UpdateBatch(counts, B)
RetractBatch(counts, B) == Discount(counts, B)

(* supports_retract_batch: an exception, or an answer that is no bool, is   *)
(* no.  Faulty variant: the answer is not asked for.                        *)
SupportsAlways == TRUE
SupportsRetractBatch == support = "yes"

SlidingFresh ==
    /\ support \in Supports /\ over \in Frames
    /\ came = [p \in Partitions |-> 0] /\ closed = {}
    /\ live = {} /\ held = [p \in Partitions |-> Nought(p)]
    /\ range = [p \in Partitions |-> <<0, 0>>]
    /\ moved = [p \in Partitions |-> 0]
    /\ taken = [r \in WindowRows |-> Null]

Come(p) ==
    /\ ~halted /\ p \notin closed
    /\ IF came[p] < Sizes[p] THEN came' = [came EXCEPT ![p] = @ + 1] /\ UNCHANGED closed
       ELSE closed' = closed \cup {p} /\ UNCHANGED came
    /\ UNCHANGED <<support, over, live, held, range, moved, taken, halted>>

(* to_rust_accumulator makes a new object.  Rows leave a frame unless its   *)
(* start is unbounded, and then DataFusion refuses an accumulator that does *)
(* not support it.                                                          *)
Create(p) ==
    /\ ~halted /\ p \notin live /\ came[p] > 0
    /\ IF IsUnbounded(over.start) \/ SupportsRetractBatch
       THEN live' = live \cup {p} /\ held' = [held EXCEPT ![p] = Nought(p)] /\ UNCHANGED halted
       ELSE halted' = TRUE /\ UNCHANGED <<live, held>>
    /\ UNCHANGED <<support, over, came, closed, range, moved, taken>>

(* update_batch, retract_batch and evaluate for the next row, once its      *)
(* range cannot grow with rows to come.  For an empty range the accumulator *)
(* is not asked, and what it counts falls behind the range.                 *)
Slide(p) ==
    LET to == FrameRange(over, moved[p], came[p])
        empty == to[1] = to[2]
        value == RetractBatch(UpdateBatch(held[p], range[p][2]..to[2] - 1),
                              range[p][1]..to[1] - 1)
    IN /\ ~halted /\ p \in live
       /\ moved[p] < came[p]
       /\ to[2] = came[p] => FrameCausal(over) \/ p \in closed
       /\ held' = [held EXCEPT ![p] = IF empty THEN @ ELSE value]
       /\ range' = [range EXCEPT ![p] = to]
       /\ taken' = [taken EXCEPT ![<<p, moved[p]>>] = IF empty THEN Nought(p) ELSE value]
       /\ moved' = [moved EXCEPT ![p] = @ + 1]
       /\ UNCHANGED <<support, over, came, closed, live, halted>>

(* A method raises, or evaluate gives no scalar: the query fails.           *)
RaiseInSlide ==
    /\ ~halted /\ \E p \in live : moved[p] < Sizes[p]
    /\ halted' = TRUE
    /\ UNCHANGED <<support, over, came, closed, live, held, range, moved, taken>>

SlidingNext == RaiseInSlide \/ \E p \in Partitions : Come(p) \/ Create(p) \/ Slide(p)

-----------------------------------------------------------------------------
(* The value of a row counts each row of its frame once and no other, with  *)
(* whatever rows the accumulator was moved over and in whatever pieces the  *)
(* partition arrived: one that cannot discount rows is never asked to.      *)
FramesExact ==
    \A r \in WindowRows : taken[r] # Null =>
        LET frameOf == FrameRange(over, r[2], Sizes[r[1]])
        IN \A i \in Indices(r[1]) :
            taken[r][i] = IF i \in frameOf[1]..frameOf[2] - 1 THEN 1 ELSE 0
=============================================================================
