------------------------- MODULE UserFunctionsProofs -------------------------
(***************************************************************************)
(* Theorems about user-defined functions, for any rows, layouts and groups *)
(* of an aggregate, any partitions, tasks, frames and evaluators of a      *)
(* window, and any batches and arguments of a scalar function.             *)
(*                                                                         *)
(* Sliding: the accumulator counts the rows of the range it stands for,    *)
(* which is that of the row evaluated last in the complete partition;      *)
(* ranges move forward, and an empty one is before every row, or after all *)
(* of them and then no other follows.                                      *)
(*                                                                         *)
(* Windows: rows are evaluated in order; no row is pruned that the next    *)
(* one needs, so that the range a row has in what is there is, shifted by  *)
(* what was pruned, the one it has in the complete partition; and a call   *)
(* under way works on that range.                                          *)
(*                                                                         *)
(* Aggregation: an accumulator counts every row it was given once, a sent  *)
(* state counts what its partition has, and a final accumulator the sum of *)
(* the states it merged.                                                   *)
(***************************************************************************)
EXTENDS UserFunctions, TLAPS, FiniteSetTheorems, WellFoundedInduction

-----------------------------------------------------------------------------
(* An aggregate over the frames of a window.                                *)

RangeOf(p, i) == FrameRange(over, i, Sizes[p])
Counts(p, counts) ==
    \A i \in Indices(p) : counts[i] = IF i \in range[p][1]..range[p][2] - 1 THEN 1 ELSE 0

(* Rows come, are evaluated, and the range follows them.                    *)
Progress(p) ==
    /\ came[p] \in 0..Sizes[p] /\ moved[p] \in 0..came[p]
    /\ p \in closed => came[p] = Sizes[p]
    /\ range[p] = IF moved[p] = 0 THEN <<0, 0>> ELSE RangeOf(p, moved[p] - 1)

(* What the accumulator of a partition counts, unless the frames have left  *)
(* the partition.                                                           *)
Standing(p) == range[p][1] < range[p][2] \/ range[p][2] = 0
Accumulated(p) ==
    /\ held[p] \in [Indices(p) -> Int]
    /\ Standing(p) => Counts(p, held[p])
    /\ p \in live => IsUnbounded(over.start) \/ support = "yes"
    /\ p \notin live => moved[p] = 0

SlidingTypes ==
    /\ over \in Frames
    /\ DOMAIN came = Partitions /\ DOMAIN moved = Partitions
    /\ DOMAIN range = Partitions /\ DOMAIN held = Partitions
    /\ DOMAIN taken = WindowRows

SlidingInv ==
    /\ SlidingTypes
    /\ \A p \in Partitions : Progress(p) /\ Accumulated(p)
    /\ FramesExact

-----------------------------------------------------------------------------
LEMMA MaxOfTwo ==
    ASSUME NEW a \in Int, NEW b \in Int
    PROVE  Max({a, b}) = IF a >= b THEN a ELSE b
    BY DEF Max

LEMMA MinOfTwo ==
    ASSUME NEW a \in Int, NEW b \in Int
    PROVE  Min({a, b}) = IF a <= b THEN a ELSE b
    BY DEF Min

LEMMA ClampIs ==
    ASSUME NEW n \in Nat, NEW x \in Int
    PROVE  Clamp(n, x) = IF x < 0 THEN 0 ELSE IF x > n THEN n ELSE x
<1>1. Min({n, x}) = IF n <= x THEN n ELSE x
    BY MinOfTwo
<1>2. Min({n, x}) \in Int
    BY <1>1
<1>3. Max({0, Min({n, x})}) = IF 0 >= Min({n, x}) THEN 0 ELSE Min({n, x})
    BY <1>2, MaxOfTwo
<1> QED
    BY <1>1, <1>3 DEF Clamp

LEMMA OffsetIs ==
    ASSUME NEW direction \in {"preceding", "following"}, NEW bound \in SqlBounds(direction),
           ~IsUnbounded(bound)
    PROVE  Offset(bound) \in Int
<1>1. CASE bound = <<"current", Null>>
    BY <1>1 DEF Offset
<1>2. CASE bound \in {"preceding", "following"} \X Bounds
  <2>1. PICK way \in {"preceding", "following"}, k \in Bounds : bound = <<way, k>>
    BY <1>2
  <2> QED
    BY <2>1, BoundsAssumption DEF Offset
<1> QED
    BY <1>1, <1>2 DEF SqlBounds, IsUnbounded

(* The bounds of a frame, and which comes first.                            *)
LEMMA FrameShape ==
    ASSUME NEW f \in Frames
    PROVE  /\ ~IsUnbounded(f.start) => Offset(f.start) \in Int
           /\ ~IsUnbounded(f.end) => Offset(f.end) \in Int
           /\ ~IsUnbounded(f.start) /\ ~IsUnbounded(f.end) => Offset(f.start) <= Offset(f.end)
<1>1. CASE \E s, e \in Bounds \cup {Null} : f = NewFrame("rows", s, e)
  <2>1. PICK s \in Bounds \cup {Null}, e \in Bounds \cup {Null} : f = NewFrame("rows", s, e)
    BY <1>1
  <2>2. f = [units |-> "rows", start |-> <<"preceding", s>>, end |-> <<"following", e>>]
    BY <2>1 DEF NewFrame, Units
  <2> QED
    BY <2>2, BoundsAssumption DEF IsUnbounded, Offset
<1>2. CASE f \in SqlFrames
    BY <1>2, OffsetIs DEF SqlFrames
<1> QED
    BY <1>1, <1>2 DEF Frames

(* The range of a row, without maxima.                                      *)
Within(n, x) == IF x < 0 THEN 0 ELSE IF x > n THEN n ELSE x
LEMMA RangeIs ==
    ASSUME NEW f \in Frames, NEW n \in Nat, NEW i \in 0..n - 1
    PROVE  /\ FrameRange(f, i, n)[1] =
                IF IsUnbounded(f.start) THEN 0 ELSE Within(n, i + Offset(f.start))
           /\ FrameRange(f, i, n)[2] =
                IF IsUnbounded(f.end) THEN n ELSE Within(n, i + Offset(f.end) + 1)
           /\ FrameRange(f, i, n) = <<FrameRange(f, i, n)[1], FrameRange(f, i, n)[2]>>
<1>1. ~IsUnbounded(f.start) => Clamp(n, i + Offset(f.start)) = Within(n, i + Offset(f.start))
    BY FrameShape, ClampIs DEF Within
<1>2. ~IsUnbounded(f.end) => Clamp(n, i + Offset(f.end) + 1) = Within(n, i + Offset(f.end) + 1)
    BY FrameShape, ClampIs DEF Within
<1> QED
    BY <1>1, <1>2 DEF FrameRange

(* Ranges lie in the partition, and move forward; only empty ones before    *)
(* the first row are followed by one that is not empty.                     *)
LEMMA RangesMove ==
    ASSUME NEW f \in Frames, NEW n \in Nat, NEW i \in 0..n - 1
    PROVE  LET r == FrameRange(f, i, n)
               q == FrameRange(f, i - 1, n)
           IN /\ r[1] \in Nat /\ r[2] \in Nat /\ r[1] <= r[2] /\ r[2] <= n
              /\ i > 0 => q[1] \in Nat /\ q[2] \in Nat /\ q[1] <= r[1] /\ q[2] <= r[2]
              /\ i > 0 => q[1] <= q[2] /\ (r[1] < r[2] => q[1] < q[2] \/ q[2] = 0)
              /\ IsUnbounded(f.start) => r[1] = 0
<1> DEFINE r == FrameRange(f, i, n)
           q == FrameRange(f, i - 1, n)
           u == IsUnbounded(f.start)
           v == IsUnbounded(f.end)
           s == Offset(f.start)
           e == Offset(f.end)
<1>1. i > 0 => i - 1 \in 0..n - 1
    OBVIOUS
<1>2. /\ r[1] = (IF u THEN 0 ELSE Within(n, i + s)) /\ r[2] = (IF v THEN n ELSE Within(n, i + e + 1))
      /\ i > 0 => /\ q[1] = (IF u THEN 0 ELSE Within(n, i - 1 + s))
                  /\ q[2] = (IF v THEN n ELSE Within(n, i - 1 + e + 1))
    BY <1>1, RangeIs
<1>3. (~u => s \in Int) /\ (~v => e \in Int) /\ (~u /\ ~v => s <= e)
    BY FrameShape
<1>4. u \in BOOLEAN /\ v \in BOOLEAN
    BY DEF IsUnbounded
<1> HIDE DEF r, q, u, v, s, e
<1>5. /\ r[1] \in Nat /\ r[2] \in Nat /\ r[1] <= r[2] /\ r[2] <= n
      /\ u => r[1] = 0
    BY <1>2, <1>3, <1>4 DEF Within
<1>6. i > 0 => q[1] \in Nat /\ q[2] \in Nat /\ q[1] <= r[1] /\ q[2] <= r[2] /\ q[1] <= q[2]
    BY <1>2, <1>3, <1>4 DEF Within
<1>7. i > 0 /\ r[1] < r[2] => q[1] < q[2] \/ q[2] = 0
    BY <1>2, <1>3, <1>4 DEF Within
<1> QED
    BY <1>5, <1>6, <1>7 DEF r, q, u

(* A row that need not wait has the range it has in the whole partition.    *)
LEMMA RangeIsFinal ==
    ASSUME NEW f \in Frames, NEW n \in Nat, NEW m \in 0..n, NEW i \in 0..m - 1,
           FrameRange(f, i, m)[2] = m => FrameCausal(f) \/ m = n
    PROVE  FrameRange(f, i, m) = FrameRange(f, i, n)
<1>1. m \in Nat /\ i \in 0..n - 1
    OBVIOUS
<1>2. FrameCausal(f) => ~IsUnbounded(f.end) /\ Offset(f.end) <= 0
    BY DEF FrameCausal
<1>3. FrameRange(f, i, m)[1] = FrameRange(f, i, n)[1]
    BY <1>1, <1>2, RangeIs, FrameShape DEF Within
<1>4. FrameRange(f, i, m)[2] = FrameRange(f, i, n)[2]
    BY <1>1, <1>2, RangeIs, FrameShape DEF Within
<1> QED
    BY <1>1, <1>3, <1>4, RangeIs

-----------------------------------------------------------------------------
(* The rows from one index to before another are counted, each once.        *)
Spans(p, counts, a, b) ==
    /\ counts \in [Indices(p) -> Int]
    /\ \A j \in Indices(p) : counts[j] = IF j \in a..b - 1 THEN 1 ELSE 0

(* Rows that enter, and rows that leave.                                    *)
LEMMA Entering ==
    ASSUME NEW p \in Partitions, NEW counts, NEW a \in Nat, NEW b \in Nat, NEW c \in Nat,
           a <= b, b <= c, Spans(p, counts, a, b)
    PROVE  Spans(p, UpdateBatch(counts, b..c - 1), a, c)
<1>1. Indices(p) \subseteq Int
    BY SizesAssumption DEF Indices
<1> QED
    BY <1>1 DEF UpdateBatch, Spans

LEMMA Leaving ==
    ASSUME NEW p \in Partitions, NEW counts, NEW a \in Nat, NEW b \in Nat, NEW c \in Nat,
           a <= b, b <= c, Spans(p, counts, a, c), support = "yes" \/ a = b
    PROVE  Spans(p, RetractBatch(counts, a..b - 1), b, c)
<1>1. Indices(p) \subseteq Int
    BY SizesAssumption DEF Indices
<1>2. CASE support = "yes"
    BY <1>1, <1>2 DEF RetractBatch, Discount, Spans
<1>3. CASE support # "yes"
    BY <1>3 DEF RetractBatch, Discount, Spans
<1> QED
    BY <1>2, <1>3

LEMMA SlidingStart ==
    ASSUME SlidingFresh
    PROVE  SlidingInv
<1>1. SlidingTypes /\ FramesExact
    BY DEF SlidingFresh, SlidingTypes, FramesExact
<1>2. ASSUME NEW p \in Partitions PROVE Progress(p) /\ Accumulated(p)
    BY SizesAssumption
    DEF SlidingFresh, Progress, Accumulated, Counts, Standing, Nought, Indices
<1> QED
    BY <1>1, <1>2 DEF SlidingInv

LEMMA ComeInv ==
    ASSUME SlidingInv, NEW p \in Partitions, Come(p)
    PROVE  SlidingInv'
<1>1. SlidingTypes' /\ FramesExact'
    BY DEF SlidingInv, SlidingTypes, Come, FramesExact
<1>2. ASSUME NEW q \in Partitions PROVE Progress(q)'
    BY <1>2, SizesAssumption DEF SlidingInv, SlidingTypes, Come, Progress, RangeOf
<1>3. ASSUME NEW q \in Partitions PROVE Accumulated(q)'
    BY <1>3 DEF SlidingInv, Come, Accumulated, Counts, Standing
<1> QED
    BY <1>1, <1>2, <1>3 DEF SlidingInv

(* A new accumulator counts nothing, and stands for the empty range.        *)
LEMMA CreateInv ==
    ASSUME SlidingInv, NEW p \in Partitions, Create(p)
    PROVE  SlidingInv'
<1>1. SlidingTypes' /\ FramesExact'
    BY DEF SlidingInv, SlidingTypes, Create, FramesExact
<1>2. ASSUME NEW q \in Partitions PROVE Progress(q)'
    BY <1>2 DEF SlidingInv, Create, Progress, RangeOf
<1>3. moved[p] = 0
    BY DEF SlidingInv, Create, Accumulated
<1>4. ASSUME NEW q \in Partitions PROVE Accumulated(q)'
  <2>1. CASE q = p /\ held' = [held EXCEPT ![p] = Nought(p)]
    <3>1. range'[p] = <<0, 0>> /\ held'[p] = Nought(p) /\ moved'[p] = 0
      BY <1>3, <2>1 DEF SlidingInv, SlidingTypes, Create, Progress
    <3>2. p \in live' => IsUnbounded(over'.start) \/ support' = "yes"
      BY DEF Create, SupportsRetractBatch
    <3>3. Nought(p) \in [Indices(p) -> Int] /\ \A i \in Indices(p) : Nought(p)[i] = 0
      BY DEF Nought
    <3>4. \A i \in Indices(p) : i \notin <<0, 0>>[1]..<<0, 0>>[2] - 1
      BY DEF Indices
    <3>5. held'[p] \in [Indices(p) -> Int] /\ Counts(p, held[p])'
      BY <3>1, <3>3, <3>4 DEF Counts, Indices
    <3> QED
      BY <2>1, <3>1, <3>2, <3>5 DEF Accumulated, Indices
  <2>2. CASE q # p \/ UNCHANGED <<live, held>>
    BY <2>2 DEF SlidingInv, SlidingTypes, Create, Accumulated, Counts, Standing
  <2> QED
    BY <2>1, <2>2 DEF Create
<1> QED
    BY <1>1, <1>2, <1>4 DEF SlidingInv

(* The next range starts no earlier and ends no earlier than the last: the  *)
(* rows between the ends enter, those between the starts leave.  For an     *)
(* empty range the accumulator stays as it is.                              *)
LEMMA SlideInv ==
    ASSUME SlidingInv, NEW p \in Partitions, Slide(p)
    PROVE  SlidingInv'
<1> DEFINE i == moved[p]
           n == Sizes[p]
           last == range[p]
           to == FrameRange(over, i, came[p])
           entered == UpdateBatch(held[p], last[2]..to[2] - 1)
           slid == RetractBatch(entered, last[1]..to[1] - 1)
           empty == to[1] = to[2]
           keeps == IF empty THEN held[p] ELSE slid
           gives == IF empty THEN Nought(p) ELSE slid
<1>1. /\ over \in Frames /\ n \in Nat /\ came[p] \in 0..n /\ i \in 0..came[p] - 1 /\ i \in 0..n - 1
      /\ p \in closed => came[p] = n
      /\ to[2] = came[p] => FrameCausal(over) \/ came[p] = n
    BY SizesAssumption DEF SlidingInv, SlidingTypes, Progress, Slide
<1>2. to = RangeOf(p, i)
    BY <1>1, RangeIsFinal DEF RangeOf
<1>3. last = IF i = 0 THEN <<0, 0>> ELSE RangeOf(p, i - 1)
    BY DEF SlidingInv, Progress
<1>4. /\ to[1] \in Nat /\ to[2] \in Nat /\ to[1] <= to[2] /\ to[2] <= n
      /\ last[1] \in Nat /\ last[2] \in Nat /\ last[1] <= to[1] /\ last[2] <= to[2]
      /\ last[1] <= last[2]
      /\ to[1] < to[2] \/ to[2] = 0 => last[1] < last[2] \/ last[2] = 0
      /\ IsUnbounded(over.start) => to[1] = 0
    BY <1>1, <1>2, <1>3, RangesMove DEF RangeOf
<1>5. /\ held[p] \in [Indices(p) -> Int]
      /\ last[1] < last[2] \/ last[2] = 0 =>
            \A j \in Indices(p) : held[p][j] = IF j \in last[1]..last[2] - 1 THEN 1 ELSE 0
      /\ IsUnbounded(over.start) \/ support = "yes"
    BY DEF SlidingInv, Accumulated, Counts, Standing, Slide
<1>6. ASSUME to[1] < to[2]
      PROVE  Spans(p, slid, to[1], to[2])
  <2> DEFINE a == last[1]
             b == last[2]
             c == to[1]
             d == to[2]
  <2>1. /\ a \in Nat /\ b \in Nat /\ c \in Nat /\ d \in Nat /\ a <= b /\ b <= d /\ a <= c /\ c <= d
        /\ support = "yes" \/ a = c
    BY <1>4, <1>5
  <2>2. Spans(p, held[p], a, b)
    BY <1>4, <1>5, <1>6 DEF Spans
  <2>3. entered = UpdateBatch(held[p], b..d - 1) /\ slid = RetractBatch(entered, a..c - 1)
    OBVIOUS
  <2> HIDE DEF a, b, c, d, entered, slid
  <2>4. Spans(p, entered, a, d)
    BY <2>1, <2>2, <2>3, Entering
  <2>5. Spans(p, slid, c, d)
    BY <2>1, <2>3, <2>4, Leaving
  <2> QED
    BY <2>5 DEF c, d
<1>7. ASSUME to[1] < to[2]
      PROVE  /\ slid \in [Indices(p) -> Int]
             /\ \A j \in Indices(p) : slid[j] = IF j \in to[1]..to[2] - 1 THEN 1 ELSE 0
    BY <1>6, <1>7 DEF Spans
<1>8. \A j \in Indices(p) : gives[j] = IF j \in to[1]..to[2] - 1 THEN 1 ELSE 0
  <2>1. CASE empty
    <3>1. \A j \in Indices(p) : gives[j] = 0
      BY <2>1 DEF Nought
    <3>2. \A j \in Indices(p) : j \notin to[1]..to[2] - 1
      BY <1>4, <2>1
    <3> QED
      BY <3>1, <3>2
  <2>2. CASE ~empty
    BY <1>4, <1>7, <2>2
  <2> QED
    BY <2>1, <2>2
<1>9. /\ keeps \in [Indices(p) -> Int]
      /\ to[1] < to[2] \/ to[2] = 0 =>
           \A j \in Indices(p) : keeps[j] = IF j \in to[1]..to[2] - 1 THEN 1 ELSE 0
  <2>1. CASE empty
    <3>1. keeps = held[p]
      BY <2>1
    <3>2. to[2] = 0 => last[1] = 0 /\ last[2] = 0 /\ to[1] = 0
      BY <1>4
    <3> HIDE DEF to, last, keeps
    <3> QED
      BY <1>4, <1>5, <2>1, <3>1, <3>2
  <2>2. CASE ~empty
    BY <1>4, <1>7, <2>2
  <2> QED
    BY <2>1, <2>2
<1>10. /\ held' = [held EXCEPT ![p] = keeps] /\ range' = [range EXCEPT ![p] = to]
       /\ taken' = [taken EXCEPT ![<<p, i>>] = gives] /\ moved' = [moved EXCEPT ![p] = i + 1]
       /\ UNCHANGED <<support, over, came, closed, live, halted>> /\ p \in live
    BY DEF Slide
<1>11. SlidingTypes'
    BY <1>10 DEF SlidingInv, SlidingTypes
<1>12. ASSUME NEW q \in Partitions PROVE Progress(q)'
  <2>1. CASE q = p
    <3>1. /\ moved'[p] = i + 1 /\ range'[p] = to /\ came'[p] = came[p] /\ closed' = closed
          /\ over' = over /\ i + 1 # 0 /\ (i + 1) - 1 = i
      BY <1>1, <1>10 DEF SlidingInv, SlidingTypes
    <3>2. FrameRange(over', moved'[p] - 1, Sizes[p]) = to
      BY <1>2, <3>1 DEF RangeOf
    <3>3. moved'[p] \in 0..came'[p] /\ moved'[p] # 0
      BY <1>1, <3>1
    <3> HIDE DEF to
    <3> QED
      BY <1>1, <2>1, <3>1, <3>2, <3>3 DEF Progress, RangeOf
  <2>2. CASE q # p
    BY <1>10, <2>2 DEF SlidingInv, SlidingTypes, Progress, RangeOf
  <2> QED
    BY <2>1, <2>2
<1>13. ASSUME NEW q \in Partitions PROVE Accumulated(q)'
  <2>1. CASE q = p
    <3>1. held'[p] = keeps /\ range'[p] = to /\ p \in live'
      BY <1>10 DEF SlidingInv, SlidingTypes
    <3>2. IsUnbounded(over'.start) \/ support' = "yes"
      BY <1>10 DEF SlidingInv, Accumulated
    <3> HIDE DEF keeps, to
    <3> QED
      BY <1>9, <2>1, <3>1, <3>2 DEF Accumulated, Counts, Standing, Indices
  <2>2. CASE q # p
    BY <1>10, <2>2 DEF SlidingInv, SlidingTypes, Accumulated, Counts, Standing
  <2> QED
    BY <2>1, <2>2
<1>14. FramesExact'
  <2> SUFFICES ASSUME NEW r \in WindowRows, taken'[r] # Null,
                      NEW j \in Indices(r[1])
               PROVE  LET w == FrameRange(over, r[2], Sizes[r[1]])
                      IN taken'[r][j] = IF j \in w[1]..w[2] - 1 THEN 1 ELSE 0
    BY <1>10 DEF FramesExact
  <2>1. CASE r = <<p, i>>
    BY <1>2, <1>8, <1>10, <2>1 DEF RangeOf, SlidingInv, SlidingTypes
  <2>2. CASE r # <<p, i>>
    BY <1>10, <2>2 DEF SlidingInv, SlidingTypes, FramesExact
  <2> QED
    BY <2>1, <2>2
<1> QED
    BY <1>11, <1>12, <1>13, <1>14 DEF SlidingInv

LEMMA SlidingStep ==
    ASSUME SlidingInv, [SlidingNext]_slidingVars
    PROVE  SlidingInv'
<1>1. ASSUME RaiseInSlide \/ UNCHANGED slidingVars PROVE SlidingInv'
    BY <1>1 DEF RaiseInSlide, slidingVars, SlidingInv, SlidingTypes, Progress, Accumulated,
                Counts, Standing, RangeOf, FramesExact
<1> QED
    BY <1>1, ComeInv, CreateInv, SlideInv DEF SlidingNext

-----------------------------------------------------------------------------
(* A window function.                                                       *)

WindowTypes ==
    /\ evaluator \in Evaluators /\ frame \in Frames /\ task \in Deals
    /\ DOMAIN arrived = Partitions /\ DOMAIN base = Partitions /\ DOMAIN done = Partitions
    /\ DOMAIN call = Tasks /\ DOMAIN output = WindowRows
    /\ ended \subseteq Partitions
    /\ stopped \in BOOLEAN

WholeOf(p) == {p} \X (0..Sizes[p] - 1)

(* Rows arrive and are evaluated in their order, and no row is pruned that  *)
(* the next one needs.                                                      *)
Evaluated(p) ==
    /\ base[p] \in 0..done[p] /\ done[p] \in 0..arrived[p] /\ arrived[p] \in 0..Sizes[p]
    /\ p \in ended => arrived[p] = Sizes[p]
    /\ \A i \in 0..Sizes[p] - 1 : output[<<p, i>>] # Null <=> i < done[p]
    /\ Bounded /\ done[p] < Sizes[p] => base[p] <= RangeIn(done[p], Sizes[p])[1]

(* A call under way is for the next row of its partition or for all of      *)
(* them, and works on what the partition alone would give.                  *)
Calling(t) ==
    call[t] # Null =>
        LET p == call[t].part
            gives == call[t].gives
        IN /\ p \in Partitions /\ task[p] = t
           /\ \/ DOMAIN gives = {<<p, done[p]>>} /\ done[p] < arrived[p]
              \/ DOMAIN gives = WholeOf(p) /\ done[p] = 0 /\ arrived[p] = Sizes[p]
           /\ \A r \in DOMAIN gives : gives[r] = Alone(r)
           /\ call[t].start \in Nat
           /\ Bounded => /\ DOMAIN gives = {<<p, done[p]>>}
                         /\ base[p] + call[t].start = RangeIn(done[p], Sizes[p])[1]
           /\ ~Bounded => call[t].start = 0

(* What the evaluator keeps is of some call, and of the call under way if   *)
(* one task has all the partitions.                                         *)
OneTask == \A p, q \in Partitions : task[p] = task[q]
Keeping ==
    \A t \in Tasks : call[t] # Null /\ evaluator.keeps =>
        /\ \A r \in DOMAIN fields : fields[r] \in SUBSET WindowRows
        /\ OneTask => fields = call[t].gives

WindowInv ==
    /\ WindowTypes
    /\ \A p \in Partitions : Evaluated(p)
    /\ \A t \in Tasks : Calling(t)
    /\ Keeping
    /\ PartitionsApart

-----------------------------------------------------------------------------
(* What get_range answers, without maxima.                                  *)
LEMMA ReachIs ==
    ASSUME NEW reach \in {"self", "previous", "next", "all"}, NEW n \in Nat, NEW i \in 0..n - 1
    PROVE  LET r == Ranges(reach, i, n)
           IN /\ r = <<r[1], r[2]>>
              /\ reach = "self" => r[1] = i /\ r[2] = i + 1
              /\ reach = "previous" => r[1] = (IF i = 0 THEN 0 ELSE i - 1) /\ r[2] = i + 1
              /\ reach = "next" => r[1] = i /\ r[2] = (IF n = i + 1 THEN n ELSE i + 2)
              /\ reach = "all" => r[1] = 0 /\ r[2] = n
<1>1. Max({0, i - 1}) = IF i = 0 THEN 0 ELSE i - 1
    BY MaxOfTwo
<1>2. Min({n, i + 2}) = IF n = i + 1 THEN n ELSE i + 2
    BY MinOfTwo
<1>3. CASE reach = "self"
    BY <1>3 DEF Ranges
<1>4. CASE reach = "previous"
    BY <1>1, <1>4 DEF Ranges
<1>5. CASE reach = "next"
    BY <1>2, <1>5 DEF Ranges
<1>6. CASE reach = "all"
    BY <1>6 DEF Ranges
<1> QED
    BY <1>3, <1>4, <1>5, <1>6

(* Ranges lie in the partition, start no later than their row, and start no *)
(* earlier than the range before.                                           *)
LEMMA ReachMoves ==
    ASSUME NEW reach \in {"self", "previous", "next", "all"}, NEW n \in Nat, NEW i \in 0..n - 1
    PROVE  /\ Ranges(reach, i, n)[1] \in 0..i /\ Ranges(reach, i, n)[2] \in i + 1..n
           /\ i + 1 < n => Ranges(reach, i, n)[1] <= Ranges(reach, i + 1, n)[1]
<1>1. i + 1 < n => i + 1 \in 0..n - 1
    OBVIOUS
<1>2. Ranges(reach, i, n)[1] \in 0..i /\ Ranges(reach, i, n)[2] \in i + 1..n
    BY ReachIs
<1>3. i + 1 < n => Ranges(reach, i, n)[1] <= Ranges(reach, i + 1, n)[1]
    BY <1>1, ReachIs
<1> QED
    BY <1>2, <1>3

LEMMA FrameMoves ==
    ASSUME NEW f \in Frames, NEW n \in Nat, NEW i \in 0..n - 1
    PROVE  /\ FrameRange(f, i, n)[1] \in 0..n /\ FrameRange(f, i, n)[2] \in 0..n
           /\ i + 1 < n => FrameRange(f, i, n)[1] <= FrameRange(f, i + 1, n)[1]
<1>1. i + 1 < n => i + 1 \in 0..n - 1 /\ (i + 1) - 1 = i
    OBVIOUS
<1>2. FrameRange(f, i, n)[1] \in 0..n /\ FrameRange(f, i, n)[2] \in 0..n
    BY RangesMove
<1>3. i + 1 < n => FrameRange(f, i, n)[1] <= FrameRange(f, i + 1, n)[1]
    BY <1>1, RangesMove
<1> QED
    BY <1>2, <1>3

LEMMA RangesInMove ==
    ASSUME WindowTypes, NEW n \in Nat, NEW i \in 0..n - 1
    PROVE  /\ RangeIn(i, n)[1] \in 0..n /\ RangeIn(i, n)[2] \in 0..n
           /\ i + 1 < n => RangeIn(i, n)[1] <= RangeIn(i + 1, n)[1]
<1>1. frame \in Frames /\ evaluator.reach \in {"self", "previous", "next", "all"}
    BY EvaluatorsAssumption DEF WindowTypes
<1>2. CASE Flag("uses_window_frame")
    BY <1>1, <1>2, FrameMoves DEF RangeIn
<1>3. CASE ~Flag("uses_window_frame")
  <2>1. /\ Ranges(evaluator.reach, i, n)[1] \in 0..n /\ Ranges(evaluator.reach, i, n)[2] \in 0..n
        /\ i + 1 < n => Ranges(evaluator.reach, i, n)[1] <= Ranges(evaluator.reach, i + 1, n)[1]
    BY <1>1, ReachMoves
  <2> QED
    BY <1>3, <2>1 DEF RangeIn, GetRange
<1> QED
    BY <1>2, <1>3

(* A row that need not wait has, in a buffer from which rows before its     *)
(* range were pruned, the range it has in the whole partition.              *)
LEMMA FrameInBuffer ==
    ASSUME NEW f \in Frames, NEW n \in Nat, NEW m \in 0..n, NEW b \in Nat, NEW i \in b..m - 1,
           b <= FrameRange(f, i, n)[1],
           FrameRange(f, i - b, m - b)[2] = m - b => FrameCausal(f) \/ m = n
    PROVE  /\ b + FrameRange(f, i - b, m - b)[1] = FrameRange(f, i, n)[1]
           /\ b + FrameRange(f, i - b, m - b)[2] = FrameRange(f, i, n)[2]
<1>1. m - b \in Nat /\ i - b \in 0..(m - b) - 1 /\ i \in 0..n - 1 /\ i \in Nat /\ m \in Nat
    OBVIOUS
<1> DEFINE u == IsUnbounded(f.start)
           v == IsUnbounded(f.end)
           s == Offset(f.start)
           e == Offset(f.end)
           low == FrameRange(f, i - b, m - b)
           all == FrameRange(f, i, n)
<1>2. (~u => s \in Int) /\ (~v => e \in Int) /\ (~u /\ ~v => s <= e)
    BY FrameShape
<1>3. u \in BOOLEAN /\ v \in BOOLEAN
    BY DEF IsUnbounded
<1>4. /\ low[1] = (IF u THEN 0 ELSE Within(m - b, (i - b) + s))
      /\ low[2] = (IF v THEN m - b ELSE Within(m - b, (i - b) + e + 1))
    BY <1>1, RangeIs
<1>5. all[1] = (IF u THEN 0 ELSE Within(n, i + s)) /\ all[2] = (IF v THEN n ELSE Within(n, i + e + 1))
    BY <1>1, RangeIs
<1>6. b <= all[1] /\ (low[2] = m - b => (~v /\ e <= 0) \/ m = n)
    BY DEF FrameCausal
<1> HIDE DEF u, v, s, e, low, all
<1>7. b + low[1] = all[1]
    BY <1>1, <1>2, <1>3, <1>4, <1>5, <1>6 DEF Within
<1>8. b + low[2] = all[2]
    BY <1>1, <1>2, <1>3, <1>4, <1>5, <1>6 DEF Within
<1> QED
    BY <1>7, <1>8 DEF low, all

LEMMA ReachInBuffer ==
    ASSUME NEW reach \in {"self", "previous", "next", "all"},
           NEW n \in Nat, NEW m \in 0..n, NEW b \in Nat, NEW i \in b..m - 1,
           b <= Ranges(reach, i, n)[1],
           Ranges(reach, i - b, m - b)[2] = m - b => reach \in {"self", "previous"} \/ m = n
    PROVE  /\ b + Ranges(reach, i - b, m - b)[1] = Ranges(reach, i, n)[1]
           /\ b + Ranges(reach, i - b, m - b)[2] = Ranges(reach, i, n)[2]
<1>1. m - b \in Nat /\ i - b \in 0..(m - b) - 1 /\ i \in 0..n - 1 /\ i \in Nat /\ m \in Nat
    OBVIOUS
<1> DEFINE low == Ranges(reach, i - b, m - b)
           all == Ranges(reach, i, n)
<1>2. /\ reach = "self" => low[1] = i - b /\ low[2] = (i - b) + 1
      /\ reach = "previous" => low[1] = (IF i - b = 0 THEN 0 ELSE (i - b) - 1) /\ low[2] = (i - b) + 1
      /\ reach = "next" => low[1] = i - b
                           /\ low[2] = (IF m - b = (i - b) + 1 THEN m - b ELSE (i - b) + 2)
      /\ reach = "all" => low[1] = 0 /\ low[2] = m - b
    BY <1>1, ReachIs
<1>3. /\ reach = "self" => all[1] = i /\ all[2] = i + 1
      /\ reach = "previous" => all[1] = (IF i = 0 THEN 0 ELSE i - 1) /\ all[2] = i + 1
      /\ reach = "next" => all[1] = i /\ all[2] = (IF n = i + 1 THEN n ELSE i + 2)
      /\ reach = "all" => all[1] = 0 /\ all[2] = n
    BY <1>1, ReachIs
<1>4. b <= all[1] /\ (low[2] = m - b => reach \in {"self", "previous"} \/ m = n)
    OBVIOUS
<1> HIDE DEF low, all
<1>5. b + low[1] = all[1]
    BY <1>1, <1>2, <1>3, <1>4
<1>6. b + low[2] = all[2]
    BY <1>1, <1>2, <1>3, <1>4
<1> QED
    BY <1>5, <1>6 DEF low, all

LEMMA RangeInBuffer ==
    ASSUME WindowTypes,
           NEW n \in Nat, NEW m \in 0..n, NEW b \in Nat, NEW i \in b..m - 1,
           b <= RangeIn(i, n)[1],
           RangeIn(i - b, m - b)[2] = m - b => Causal \/ m = n
    PROVE  /\ b + RangeIn(i - b, m - b)[1] = RangeIn(i, n)[1]
           /\ b + RangeIn(i - b, m - b)[2] = RangeIn(i, n)[2]
<1>1. frame \in Frames /\ evaluator.reach \in {"self", "previous", "next", "all"} /\ Honest(evaluator)
    BY EvaluatorsAssumption DEF WindowTypes
<1>2. CASE Flag("uses_window_frame")
    BY <1>1, <1>2, FrameInBuffer DEF RangeIn, Causal
<1>3. CASE ~Flag("uses_window_frame")
  <2>1. Causal => evaluator.reach \in {"self", "previous"}
    BY <1>1, <1>3 DEF Causal, Flag, Honest
  <2>2. /\ RangeIn(i, n) = Ranges(evaluator.reach, i, n)
        /\ RangeIn(i - b, m - b) = Ranges(evaluator.reach, i - b, m - b)
    BY <1>3 DEF RangeIn, GetRange
  <2> DEFINE reach == evaluator.reach
  <2>3. /\ reach \in {"self", "previous", "next", "all"}
        /\ b <= Ranges(reach, i, n)[1]
        /\ Ranges(reach, i - b, m - b)[2] = m - b => reach \in {"self", "previous"} \/ m = n
    BY <1>1, <2>1, <2>2
  <2> HIDE DEF reach
  <2>4. /\ b + Ranges(reach, i - b, m - b)[1] = Ranges(reach, i, n)[1]
        /\ b + Ranges(reach, i - b, m - b)[2] = Ranges(reach, i, n)[2]
    BY <2>3, ReachInBuffer
  <2> QED
    BY <2>2, <2>4 DEF reach
<1> QED
    BY <1>2, <1>3

(* In a complete partition, of one row or of them all.                      *)
LEMMA AloneIs ==
    ASSUME NEW p \in Partitions, NEW i \in 0..Sizes[p] - 1
    PROVE  /\ Bounded => Alone(<<p, i>>) = Slice(p, 0, RangeIn(i, Sizes[p]))
           /\ Flag("uses_window_frame") =>
                Alone(<<p, i>>) = Slice(p, 0, FrameRange(frame, i, Sizes[p]))
           /\ ~Bounded /\ ~Flag("uses_window_frame") /\ Flag("include_rank") =>
                Alone(<<p, i>>) = Slice(p, 0, Equals(i, Sizes[p]))
           /\ ~Bounded /\ ~Flag("uses_window_frame") /\ ~Flag("include_rank") =>
                Alone(<<p, i>>) = Slice(p, 0, <<i, i + 1>>)
    BY DEF Alone, Says, Flag, Bounded, RangeIn, GetRange

LEMMA RankIs ==
    ASSUME NEW n \in Nat, NEW i \in 0..n - 1
    PROVE  Equals(i, n)[1] \in 0..n /\ Equals(i, n)[2] \in 0..n
<1> DEFINE j == i - (i % 2)
<1>1. j \in 0..n - 1
    OBVIOUS
<1> HIDE DEF j
<1>2. Min({n, j + 2}) \in 0..n
    BY <1>1, MinOfTwo
<1> QED
    BY <1>1, <1>2 DEF Equals, j

(* The rows of a value are rows of the partition.                           *)
LEMMA AloneInPartition ==
    ASSUME WindowTypes, NEW p \in Partitions, NEW i \in 0..Sizes[p] - 1
    PROVE  Alone(<<p, i>>) \in SUBSET WindowRows
<1>1. Sizes[p] \in Nat
    BY SizesAssumption
<1>2. \A a, b \in 0..Sizes[p] : Slice(p, 0, <<a, b>>) \in SUBSET WindowRows
    BY <1>1 DEF Slice, WindowRows
<1>3. \A pair : pair[1] \in 0..Sizes[p] /\ pair[2] \in 0..Sizes[p] =>
            Slice(p, 0, pair) \in SUBSET WindowRows
    BY <1>1 DEF Slice, WindowRows
<1>4. RangeIn(i, Sizes[p])[1] \in 0..Sizes[p] /\ RangeIn(i, Sizes[p])[2] \in 0..Sizes[p]
    BY <1>1, RangesInMove
<1>5. Flag("uses_window_frame") =>
        FrameRange(frame, i, Sizes[p])[1] \in 0..Sizes[p] /\ FrameRange(frame, i, Sizes[p])[2] \in 0..Sizes[p]
    BY <1>4 DEF RangeIn
<1>6. Equals(i, Sizes[p])[1] \in 0..Sizes[p] /\ Equals(i, Sizes[p])[2] \in 0..Sizes[p]
    BY <1>1, RankIs
<1>8. CASE Bounded
    BY <1>3, <1>4, <1>8, AloneIs
<1>9. CASE Flag("uses_window_frame")
    BY <1>3, <1>5, <1>9, AloneIs
<1>10. CASE ~Bounded /\ ~Flag("uses_window_frame") /\ Flag("include_rank")
    BY <1>3, <1>6, <1>10, AloneIs
<1>11. CASE ~Bounded /\ ~Flag("uses_window_frame") /\ ~Flag("include_rank")
  <2>1. Alone(<<p, i>>) = Slice(p, 0, <<i, i + 1>>)
    BY <1>11, AloneIs
  <2> QED
    BY <1>2, <1>1, <2>1
<1> QED
    BY <1>8, <1>9, <1>10, <1>11

(* What an evaluator is asked for does not change.                          *)
LEMMA FixedKeeps ==
    ASSUME UNCHANGED fixedVars
    PROVE  /\ Bounded' = Bounded
           /\ \A i, n : RangeIn(i, n)' = RangeIn(i, n)
           /\ \A r : Alone(r)' = Alone(r)
           /\ OneTask' = OneTask
<1>1. Bounded' = Bounded
    BY DEF fixedVars, Bounded, Flag
<1>2. \A i, n : RangeIn(i, n)' = RangeIn(i, n)
    BY DEF fixedVars, RangeIn, Flag, GetRange
<1>3. \A r : Alone(r)' = Alone(r)
    BY DEF fixedVars, Alone, Says
<1>4. OneTask' = OneTask
    BY DEF fixedVars, OneTask
<1> QED
    BY <1>1, <1>2, <1>3, <1>4

LEMMA WindowStart ==
    ASSUME WindowFresh, stopped \in BOOLEAN
    PROVE  WindowInv
<1>1. WindowTypes
    BY DEF WindowFresh, WindowTypes
<1>2. ASSUME NEW p \in Partitions PROVE Evaluated(p)
  <2>1. Sizes[p] \in Nat \ {0} /\ base[p] = 0 /\ done[p] = 0 /\ arrived[p] = 0 /\ ended = {}
    BY SizesAssumption DEF WindowFresh
  <2>2. \A i \in 0..Sizes[p] - 1 : output[<<p, i>>] = Null
    BY DEF WindowFresh, WindowRows
  <2>3. 0 <= RangeIn(0, Sizes[p])[1]
    BY <1>1, <2>1, RangesInMove
  <2> QED
    BY <2>1, <2>2, <2>3 DEF Evaluated
<1>3. \A t \in Tasks : call[t] = Null
    BY DEF WindowFresh
<1>4. PartitionsApart
    BY DEF WindowFresh, PartitionsApart
<1> QED
    BY <1>1, <1>2, <1>3, <1>4 DEF WindowInv, Calling, Keeping

-----------------------------------------------------------------------------
LEMMA ArriveKeeps ==
    ASSUME WindowInv, NEW p \in Partitions, Arrive(p)
    PROVE  WindowInv'
<1>1. UNCHANGED <<fixedVars, ended, base, done, call, fields, output, stopped>>
      /\ arrived' = [arrived EXCEPT ![p] = @ + 1] /\ arrived[p] < Sizes[p]
    BY DEF Arrive
<1>2. UNCHANGED <<evaluator, frame, task>> /\ WindowTypes'
    BY <1>1 DEF WindowInv, WindowTypes, fixedVars
<1>3. ASSUME NEW q \in Partitions PROVE Evaluated(q)'
  <2>1. Evaluated(q) /\ Sizes[q] \in Nat
    BY SizesAssumption DEF WindowInv
  <2>2. q # p => arrived'[q] = arrived[q]
    BY <1>1 DEF WindowInv, WindowTypes
  <2>3. q = p => arrived'[q] = arrived[q] + 1 /\ q \notin ended
    BY <1>1, <2>1 DEF WindowInv, WindowTypes, Evaluated
  <2> QED
    BY <1>1, <2>1, <2>2, <2>3, FixedKeeps DEF Evaluated
<1>4. ASSUME NEW t \in Tasks PROVE Calling(t)'
  <2>1. Calling(t) /\ \A q \in Partitions : Evaluated(q)
    BY DEF WindowInv
  <2>2. \A q \in Partitions : arrived'[q] = IF q = p THEN arrived[q] + 1 ELSE arrived[q]
    BY <1>1 DEF WindowInv, WindowTypes
  <2>3. \A q \in Partitions : Sizes[q] \in Nat /\ arrived[q] \in Nat /\ done[q] \in Nat
    BY <2>1, SizesAssumption DEF Evaluated
  <2> QED
    BY <1>1, <1>2, <2>1, <2>2, <2>3, FixedKeeps DEF Calling
<1>5. Keeping' /\ PartitionsApart'
    BY <1>1, <1>2, FixedKeeps DEF WindowInv, Keeping, PartitionsApart
<1> QED
    BY <1>2, <1>3, <1>4, <1>5 DEF WindowInv

LEMMA CompleteKeeps ==
    ASSUME WindowInv, NEW p \in Partitions, Complete(p)
    PROVE  WindowInv'
<1>1. UNCHANGED <<fixedVars, arrived, base, done, call, fields, output, stopped>>
      /\ ended' = ended \cup {p} /\ arrived[p] = Sizes[p]
    BY DEF Complete
<1>2. UNCHANGED <<evaluator, frame, task>> /\ WindowTypes'
    BY <1>1 DEF WindowInv, WindowTypes, fixedVars
<1>3. ASSUME NEW q \in Partitions PROVE Evaluated(q)'
    BY <1>1, FixedKeeps DEF WindowInv, Evaluated
<1>4. ASSUME NEW t \in Tasks PROVE Calling(t)'
    BY <1>1, <1>2, FixedKeeps DEF WindowInv, Calling
<1>5. Keeping' /\ PartitionsApart'
    BY <1>1, <1>2, FixedKeeps DEF WindowInv, Keeping, PartitionsApart
<1> QED
    BY <1>2, <1>3, <1>4, <1>5 DEF WindowInv

(* A call on what its rows need.                                            *)
LEMMA CallKeeps ==
    ASSUME WindowInv, NEW p \in Partitions, NEW gives, NEW start \in Nat, Call(p, gives, start),
           \/ DOMAIN gives = {<<p, done[p]>>} /\ done[p] < arrived[p]
           \/ DOMAIN gives = WholeOf(p) /\ done[p] = 0 /\ arrived[p] = Sizes[p],
           \A r \in DOMAIN gives : gives[r] = Alone(r),
           Bounded => /\ DOMAIN gives = {<<p, done[p]>>}
                      /\ base[p] + start = RangeIn(done[p], Sizes[p])[1],
           ~Bounded => start = 0
    PROVE  WindowInv'
<1> DEFINE new == [part |-> p, gives |-> gives, start |-> start]
<1>1. /\ UNCHANGED <<fixedVars, arrived, ended, base, done, output, stopped>>
      /\ call' = [call EXCEPT ![task[p]] = new] /\ call[task[p]] = Null
      /\ fields' = IF evaluator.keeps THEN gives ELSE Null
    BY DEF Call
<1>2. UNCHANGED <<evaluator, frame, task>> /\ WindowTypes'
    BY <1>1 DEF WindowInv, WindowTypes, fixedVars
<1>3. ASSUME NEW q \in Partitions PROVE Evaluated(q)'
    BY <1>1, FixedKeeps DEF WindowInv, Evaluated
<1>4. task[p] \in Tasks /\ \A t \in Tasks : call'[t] = IF t = task[p] THEN new ELSE call[t]
    BY <1>1 DEF WindowInv, WindowTypes, Tasks
<1>5. ASSUME NEW t \in Tasks PROVE Calling(t)'
  <2>1. CASE t = task[p]
    <3>1. call'[t] = new
      BY <1>4, <2>1
    <3> QED
      BY <1>1, <1>2, <2>1, <3>1, FixedKeeps DEF Calling
  <2>2. CASE t # task[p]
    <3>1. call'[t] = call[t]
      BY <1>4, <2>2
    <3> QED
      BY <1>1, <1>2, <3>1, FixedKeeps DEF Calling, WindowInv
  <2> QED
    BY <2>1, <2>2
<1>6. Keeping'
  <2> SUFFICES ASSUME NEW t \in Tasks, call'[t] # Null, evaluator.keeps
               PROVE  /\ \A r \in DOMAIN gives : gives[r] \in SUBSET WindowRows
                      /\ OneTask => gives = call'[t].gives
    BY <1>1, <1>2, FixedKeeps DEF Keeping
  <2>1. \A r \in DOMAIN gives : \E i \in 0..Sizes[p] - 1 : r = <<p, i>>
    <3>1. Sizes[p] \in Nat /\ Evaluated(p)
      BY SizesAssumption DEF WindowInv
    <3>2. done[p] < arrived[p] => done[p] \in 0..Sizes[p] - 1
      BY <3>1 DEF Evaluated
    <3> QED
      BY <3>2 DEF WholeOf
  <2>2. \A r \in DOMAIN gives : gives[r] \in SUBSET WindowRows
    BY <2>1, AloneInPartition DEF WindowInv
  <2>3. ASSUME OneTask PROVE t = task[p]
    <3>1. t # task[p] => call[t] # Null
      BY <1>4
    <3>2. t # task[p] => call[t].part \in Partitions /\ task[call[t].part] = t
      BY <3>1 DEF WindowInv, Calling
    <3> QED
      BY <2>3, <3>2 DEF OneTask
  <2> QED
    BY <1>4, <2>2, <2>3
<1>7. PartitionsApart'
    BY <1>1, <1>2, FixedKeeps DEF WindowInv, PartitionsApart
<1> QED
    BY <1>2, <1>3, <1>5, <1>6, <1>7 DEF WindowInv

LEMMA BoundedKeeps ==
    ASSUME WindowInv, NEW p \in Partitions, EvaluateBounded(p)
    PROVE  WindowInv'
<1> DEFINE m == arrived[p]
           b == base[p]
           i == done[p]
           low == RangeIn(i - b, m - b)
           gives == [r \in {<<p, i>>} |-> Slice(p, b, low)]
<1>1. /\ Bounded /\ i < m /\ (low[2] = m - b => Causal \/ p \in ended)
      /\ Call(p, gives, low[1])
    BY DEF EvaluateBounded
<1>2. WindowTypes /\ Evaluated(p) /\ Sizes[p] \in Nat
    BY SizesAssumption DEF WindowInv
<1>3. /\ m \in 0..Sizes[p] /\ b \in Nat /\ i \in b..m - 1 /\ b <= RangeIn(i, Sizes[p])[1]
      /\ p \in ended => m = Sizes[p]
      /\ m - b \in Nat /\ i - b \in 0..(m - b) - 1 /\ i \in 0..Sizes[p] - 1
    BY <1>1, <1>2 DEF Evaluated
<1> HIDE DEF m, b, i
<1>4. b + low[1] = RangeIn(i, Sizes[p])[1] /\ b + low[2] = RangeIn(i, Sizes[p])[2]
  <2>1. low[2] = m - b => Causal \/ m = Sizes[p]
    BY <1>1, <1>3
  <2> QED
    BY <1>2, <1>3, <2>1, RangeInBuffer
<1>5. low[1] \in 0..m - b /\ low[2] \in Int
    BY <1>2, <1>3, RangesInMove
<1>6. low[1] \in Nat
    BY <1>5
<1>7. Slice(p, b, low) = Alone(<<p, i>>)
  <2>1. RangeIn(i, Sizes[p])[1] \in Int /\ RangeIn(i, Sizes[p])[2] \in Int
    BY <1>2, <1>3, RangesInMove
  <2>2. Slice(p, b, low) = Slice(p, 0, RangeIn(i, Sizes[p]))
    <3>1. b + low[1] = 0 + RangeIn(i, Sizes[p])[1] /\ b + low[2] - 1 = 0 + RangeIn(i, Sizes[p])[2] - 1
      BY <1>3, <1>4, <1>5, <2>1
    <3> HIDE DEF low
    <3> QED
      BY <3>1 DEF Slice
  <2> QED
    BY <1>1, <1>3, <2>2, AloneIs
<1>8. DOMAIN gives = {<<p, done[p]>>} /\ \A r \in DOMAIN gives : gives[r] = Alone(r)
    BY <1>7 DEF i
<1> QED
  <2> HIDE DEF gives, low
  <2> QED
    BY <1>1, <1>4, <1>6, <1>8, CallKeeps DEF b, i, m

LEMMA FramesKeeps ==
    ASSUME WindowInv, NEW p \in Partitions, EvaluateFrames(p)
    PROVE  WindowInv'
<1> DEFINE i == done[p]
           gives == [r \in {<<p, i>>} |-> Slice(p, 0, FrameRange(frame, i, Sizes[p]))]
<1>1. ~Bounded /\ Flag("uses_window_frame") /\ p \in ended /\ i < Sizes[p] /\ Call(p, gives, 0)
    BY DEF EvaluateFrames
<1>2. Evaluated(p) /\ Sizes[p] \in Nat
    BY SizesAssumption DEF WindowInv
<1>3. i < arrived[p] /\ i \in 0..Sizes[p] - 1
    BY <1>1, <1>2 DEF Evaluated
<1>4. \A r \in DOMAIN gives : gives[r] = Alone(r)
    BY <1>1, <1>3, AloneIs
<1>5. DOMAIN gives = {<<p, i>>}
    OBVIOUS
<1> QED
  <2> HIDE DEF gives
  <2> QED
    BY <1>1, <1>3, <1>4, <1>5, CallKeeps

LEMMA AllWithRankKeeps ==
    ASSUME WindowInv, NEW p \in Partitions, EvaluateAllWithRank(p)
    PROVE  WindowInv'
<1> DEFINE gives == [r \in WholeOf(p) |-> Slice(p, 0, Equals(r[2], Sizes[p]))]
<1>1. /\ ~Bounded /\ ~Flag("uses_window_frame") /\ Flag("include_rank") /\ p \in ended
      /\ done[p] = 0 /\ Call(p, gives, 0)
    BY DEF EvaluateAllWithRank, WholeOf
<1>2. arrived[p] = Sizes[p]
    BY <1>1 DEF WindowInv, Evaluated
<1>3. ASSUME NEW r \in DOMAIN gives PROVE gives[r] = Alone(r)
  <2>1. PICK i \in 0..Sizes[p] - 1 : r = <<p, i>>
    BY DEF WholeOf
  <2> QED
    BY <1>1, <2>1, AloneIs
<1>4. DOMAIN gives = WholeOf(p)
    OBVIOUS
<1> HIDE DEF gives
<1>5. \A r \in DOMAIN gives : gives[r] = Alone(r)
    BY <1>3
<1>6. /\ 0 \in Nat /\ Call(p, gives, 0)
      /\ \/ DOMAIN gives = {<<p, done[p]>>} /\ done[p] < arrived[p]
         \/ DOMAIN gives = WholeOf(p) /\ done[p] = 0 /\ arrived[p] = Sizes[p]
      /\ ~Bounded
    BY <1>1, <1>2, <1>4
<1> QED
    BY <1>5, <1>6, CallKeeps, Zenon

LEMMA AllKeeps ==
    ASSUME WindowInv, NEW p \in Partitions, EvaluateAll(p)
    PROVE  WindowInv'
<1> DEFINE gives == [r \in WholeOf(p) |-> {r}]
<1>1. /\ ~Bounded /\ ~Flag("uses_window_frame") /\ ~Flag("include_rank") /\ p \in ended
      /\ done[p] = 0 /\ Call(p, gives, 0)
    BY DEF EvaluateAll, WholeOf
<1>2. arrived[p] = Sizes[p]
    BY <1>1 DEF WindowInv, Evaluated
<1>3. ASSUME NEW r \in DOMAIN gives PROVE gives[r] = Alone(r)
  <2>1. PICK i \in 0..Sizes[p] - 1 : r = <<p, i>>
    BY DEF WholeOf
  <2>2. Slice(p, 0, <<i, i + 1>>) = {<<p, i>>}
    BY DEF Slice
  <2> QED
    BY <1>1, <2>1, <2>2, AloneIs
<1>4. DOMAIN gives = WholeOf(p)
    OBVIOUS
<1> HIDE DEF gives
<1>5. \A r \in DOMAIN gives : gives[r] = Alone(r)
    BY <1>3
<1>6. /\ 0 \in Nat /\ Call(p, gives, 0)
      /\ \/ DOMAIN gives = {<<p, done[p]>>} /\ done[p] < arrived[p]
         \/ DOMAIN gives = WholeOf(p) /\ done[p] = 0 /\ arrived[p] = Sizes[p]
      /\ ~Bounded
    BY <1>1, <1>2, <1>4
<1> QED
    BY <1>5, <1>6, CallKeeps, Zenon

LEMMA RaiseKeeps ==
    ASSUME WindowInv, NEW t \in Tasks, RaiseInCall(t)
    PROVE  WindowInv'
<1>1. /\ UNCHANGED <<fixedVars, arrived, ended, base, done, fields, output>>
      /\ call' = [u \in Tasks |-> Null] /\ stopped' = TRUE
    BY DEF RaiseInCall, StopQuery
<1>2. UNCHANGED <<evaluator, frame, task>> /\ WindowTypes'
    BY <1>1 DEF WindowInv, WindowTypes, fixedVars
<1>3. ASSUME NEW q \in Partitions PROVE Evaluated(q)'
    BY <1>1, FixedKeeps DEF WindowInv, Evaluated
<1>4. \A u \in Tasks : call'[u] = Null
    BY <1>1
<1>5. PartitionsApart'
    BY <1>1, <1>2, FixedKeeps DEF WindowInv, PartitionsApart
<1> QED
    BY <1>2, <1>3, <1>4, <1>5 DEF WindowInv, Calling, Keeping

(* No call of the task is under way when its evaluator is asked to memoize. *)
LEMMA MemoizeKeeps ==
    ASSUME WindowInv, NEW p \in Partitions, Memoize(p)
    PROVE  WindowInv'
<1>1. /\ UNCHANGED <<fixedVars, arrived, ended, base, done, output>> /\ call[task[p]] = Null
      /\ \/ fields' \in {fields, [r \in {} |-> {}]} /\ UNCHANGED <<call, stopped>>
         \/ StopQuery /\ UNCHANGED fields
    BY DEF Memoize
<1>2. UNCHANGED <<evaluator, frame, task>> /\ WindowTypes'
    BY <1>1 DEF WindowInv, WindowTypes, fixedVars, StopQuery
<1>3. ASSUME NEW q \in Partitions PROVE Evaluated(q)'
    BY <1>1, FixedKeeps DEF WindowInv, Evaluated
<1>4. ASSUME NEW u \in Tasks PROVE call'[u] = Null \/ call' = call
    BY <1>1 DEF StopQuery
<1>5. ASSUME NEW u \in Tasks PROVE Calling(u)'
  <2>1. CASE call'[u] = Null
    BY <2>1 DEF Calling
  <2>2. CASE call' = call
    BY <1>1, <1>2, <2>2, FixedKeeps DEF WindowInv, Calling
  <2> QED
    BY <1>4, <2>1, <2>2
<1>6. PartitionsApart'
    BY <1>1, <1>2, FixedKeeps DEF WindowInv, PartitionsApart
<1>7. Keeping'
  <2> SUFFICES ASSUME NEW t \in Tasks, call'[t] # Null, evaluator.keeps
               PROVE  /\ \A r \in DOMAIN fields' : fields'[r] \in SUBSET WindowRows
                      /\ OneTask => fields' = call'[t].gives
    BY <1>1, <1>2, FixedKeeps DEF Keeping
  <2>1. call' = call /\ fields' \in {fields, [r \in {} |-> {}]}
    BY <1>1 DEF StopQuery
  <2>2. ~OneTask
    <3>1. call[t].part \in Partitions /\ task[call[t].part] = t
      BY <2>1 DEF WindowInv, Calling
    <3> QED
      BY <1>1, <2>1, <3>1 DEF OneTask
  <2>3. \A r \in DOMAIN fields : fields[r] \in SUBSET WindowRows
    BY <2>1 DEF WindowInv, Keeping
  <2>4. \A r \in DOMAIN [x \in {} |-> {}] : FALSE
    OBVIOUS
  <2> QED
    BY <2>1, <2>2, <2>3, <2>4
<1> QED
    BY <1>2, <1>3, <1>5, <1>6, <1>7 DEF WindowInv

LEMMA IndexCount ==
    ASSUME NEW n \in Nat
    PROVE  IsFiniteSet(0..n - 1) /\ Cardinality(0..n - 1) = n
<1>1. n - 1 \in Int /\ 0 \in Int
    OBVIOUS
<1>2. /\ IsFiniteSet(0..n - 1)
      /\ Cardinality(0..n - 1) = IF 0 > n - 1 THEN 0 ELSE (n - 1) - 0 + 1
    BY <1>1, FS_Interval, Zenon
<1> QED
    BY <1>2

LEMMA WholeCardinality ==
    ASSUME NEW p \in Partitions
    PROVE  Cardinality(WholeOf(p)) = Sizes[p]
<1>1. Sizes[p] \in Nat \ {0}
    BY SizesAssumption
<1>2. IsFiniteSet(0..Sizes[p] - 1) /\ Cardinality(0..Sizes[p] - 1) = Sizes[p]
    BY <1>1, IndexCount
<1>3. IsFiniteSet({p}) /\ Cardinality({p}) = 1
    BY FS_Singleton
<1>4. Cardinality({p} \X (0..Sizes[p] - 1)) = Cardinality({p}) * Cardinality(0..Sizes[p] - 1)
    BY <1>2, <1>3, FS_Product
<1> QED
    BY <1>1, <1>2, <1>3, <1>4 DEF WholeOf

(* The rows a call answers get a value, and the next call is for the row    *)
(* after them.                                                              *)
LEMMA AnswerKeeps ==
    ASSUME WindowInv, NEW t \in Tasks, Answer(t)
    PROVE  WindowInv'
<1>0. PICK p : p = call[t].part
    OBVIOUS
<1> DEFINE gives == call[t].gives
           start == call[t].start
           Given(r) == IF r \in DOMAIN Worked(t) THEN Worked(t)[r] ELSE {}
<1>1. /\ UNCHANGED <<fixedVars, arrived, ended, fields, stopped>> /\ call[t] # Null
      /\ output' = [r \in WindowRows |-> IF r \notin DOMAIN gives THEN output[r] ELSE Given(r)]
      /\ done' = [done EXCEPT ![p] = @ + Cardinality(DOMAIN gives)]
      /\ base' \in {base, [base EXCEPT ![p] = Min({@ + start, done'[p]})]}
      /\ call' = [call EXCEPT ![t] = Null]
    BY <1>0 DEF Answer
<1>2. UNCHANGED <<evaluator, frame, task>> /\ WindowTypes'
    BY <1>1 DEF WindowInv, WindowTypes, fixedVars
<1>3. /\ p \in Partitions /\ task[p] = t
      /\ \/ DOMAIN gives = {<<p, done[p]>>} /\ done[p] < arrived[p]
         \/ DOMAIN gives = WholeOf(p) /\ done[p] = 0 /\ arrived[p] = Sizes[p]
      /\ \A r \in DOMAIN gives : gives[r] = Alone(r)
      /\ start \in Nat
      /\ Bounded => /\ DOMAIN gives = {<<p, done[p]>>}
                    /\ base[p] + start = RangeIn(done[p], Sizes[p])[1]
      /\ ~Bounded => start = 0
    BY <1>0, <1>1 DEF WindowInv, Calling
<1>4. /\ WindowTypes /\ Evaluated(p) /\ Sizes[p] \in Nat \ {0}
      /\ base[p] \in 0..done[p] /\ done[p] \in 0..arrived[p] /\ arrived[p] \in 0..Sizes[p]
    BY <1>3, SizesAssumption DEF WindowInv, Evaluated
<1>5. \A r \in DOMAIN gives : \E i \in 0..Sizes[p] - 1 : r = <<p, i>>
  <2>1. done[p] < arrived[p] => done[p] \in 0..Sizes[p] - 1
    BY <1>4
  <2> QED
    BY <1>3, <2>1 DEF WholeOf
<1>6. \A r \in DOMAIN gives : r \in WindowRows /\ Alone(r) \in SUBSET WindowRows
    BY <1>3, <1>4, <1>5, AloneInPartition DEF WindowRows
<1>7. \A r \in DOMAIN gives : Given(r) # Null
  <2>1. \A r \in DOMAIN Worked(t) : Worked(t)[r] \in SUBSET WindowRows
    BY <1>1, <1>3, <1>6 DEF Worked, WindowInv, Keeping
  <2> QED
    BY <2>1, NullAssumption
<1>8. ~evaluator.keeps \/ OneTask => \A r \in DOMAIN gives : Given(r) = Alone(r)
    BY <1>1, <1>3 DEF Worked, WindowInv, Keeping
<1>9. /\ \A q \in Partitions : q # p => done'[q] = done[q] /\ base'[q] = base[q]
      /\ done'[p] = done[p] + Cardinality(DOMAIN gives)
      /\ base'[p] = base[p] \/ base'[p] = Min({base[p] + start, done'[p]})
      /\ \A r \in WindowRows : output'[r] = IF r \notin DOMAIN gives THEN output[r] ELSE Given(r)
      /\ \A u \in Tasks : call'[u] = IF u = t THEN Null ELSE call[u]
    BY <1>1, <1>3 DEF WindowInv, WindowTypes
<1> HIDE DEF Given
<1>10. Evaluated(p)'
  <2>1. done'[p] = (IF DOMAIN gives = {<<p, done[p]>>} /\ done[p] < arrived[p] THEN done[p] + 1 ELSE Sizes[p])
    <3>1. DOMAIN gives = {<<p, done[p]>>} => Cardinality(DOMAIN gives) = 1
      BY FS_Singleton
    <3>2. DOMAIN gives = WholeOf(p) => Cardinality(DOMAIN gives) = Sizes[p]
      BY <1>3, WholeCardinality
    <3> QED
      BY <1>3, <1>4, <1>9, <3>1, <3>2
  <2>2. done'[p] \in 0..arrived[p] /\ done[p] <= done'[p]
    BY <1>3, <1>4, <2>1
  <2>3. Bounded => done'[p] = done[p] + 1 /\ done[p] \in 0..Sizes[p] - 1
    BY <1>3, <1>4, <2>1, <2>2
  <2>4. Bounded => /\ RangeIn(done[p], Sizes[p])[1] \in Nat
                   /\ done'[p] < Sizes[p] =>
                        RangeIn(done[p], Sizes[p])[1] <= RangeIn(done'[p], Sizes[p])[1]
                        /\ RangeIn(done'[p], Sizes[p])[1] \in Nat
    <3> SUFFICES ASSUME Bounded PROVE
            /\ RangeIn(done[p], Sizes[p])[1] \in Nat
            /\ done[p] + 1 < Sizes[p] =>
                   RangeIn(done[p], Sizes[p])[1] <= RangeIn(done[p] + 1, Sizes[p])[1]
                   /\ RangeIn(done[p] + 1, Sizes[p])[1] \in Nat
      BY <2>3
    <3>1. done[p] + 1 < Sizes[p] => done[p] + 1 \in 0..Sizes[p] - 1
      BY <1>4
    <3> QED
      BY <1>4, <2>3, <3>1, RangesInMove
  <2>41. Min({base[p] + start, done'[p]}) = IF base[p] + start <= done'[p] THEN base[p] + start ELSE done'[p]
    BY <1>3, <1>4, <2>2, MinOfTwo
  <2>5. Bounded => base'[p] \in 0..done'[p] /\ base'[p] <= RangeIn(done[p], Sizes[p])[1]
    <3>1. Bounded => done[p] < Sizes[p]
      BY <1>4, <2>3
    <3>2. Bounded => base[p] <= RangeIn(done[p], Sizes[p])[1]
      BY <1>4, <3>1 DEF Evaluated
    <3> QED
      BY <1>3, <1>4, <1>9, <2>2, <2>4, <2>41, <3>2
  <2>6. ~Bounded => base'[p] = base[p]
    BY <1>3, <1>4, <1>9, <2>2, <2>41
  <2>7. base'[p] \in 0..done'[p]
    BY <1>4, <2>2, <2>5, <2>6
  <2>8. Bounded /\ done'[p] < Sizes[p] => base'[p] <= RangeIn(done'[p], Sizes[p])[1]
    BY <2>4, <2>5
  <2>9. ASSUME NEW i \in 0..Sizes[p] - 1
        PROVE  output'[<<p, i>>] # Null <=> i < done'[p]
    <3>1. <<p, i>> \in WindowRows /\ (output[<<p, i>>] # Null <=> i < done[p])
      BY <1>3, <1>4 DEF WindowRows, Evaluated
    <3>2. CASE DOMAIN gives = {<<p, done[p]>>} /\ done[p] < arrived[p]
      <4>1. done'[p] = done[p] + 1
        BY <2>1, <3>2
      <4>2. CASE i = done[p]
        BY <1>4, <1>7, <1>9, <3>1, <3>2, <4>1, <4>2
      <4>3. CASE i # done[p]
        <5>1. <<p, i>> \notin DOMAIN gives
          BY <3>2, <4>3
        <5> QED
          BY <1>4, <1>9, <3>1, <4>1, <4>3, <5>1
      <4> QED
        BY <4>2, <4>3
    <3>3. CASE ~(DOMAIN gives = {<<p, done[p]>>} /\ done[p] < arrived[p])
      <4>1. done'[p] = Sizes[p] /\ <<p, i>> \in DOMAIN gives
        BY <1>3, <2>1, <3>3 DEF WholeOf
      <4> QED
        BY <1>4, <1>7, <1>9, <3>1, <4>1
    <3> QED
      BY <3>2, <3>3
  <2> QED
    BY <1>1, <1>4, <2>2, <2>7, <2>8, <2>9, FixedKeeps DEF Evaluated
<1>11. ASSUME NEW q \in Partitions, q # p PROVE Evaluated(q)'
  <2>1. Evaluated(q) /\ done'[q] = done[q] /\ base'[q] = base[q]
    BY <1>9, <1>11 DEF WindowInv
  <2>2. \A i \in 0..Sizes[q] - 1 : output'[<<q, i>>] = output[<<q, i>>]
    <3>1. \A i \in 0..Sizes[q] - 1 : <<q, i>> \in WindowRows /\ <<q, i>> \notin DOMAIN gives
      BY <1>5, <1>11 DEF WindowRows
    <3> QED
      BY <1>9, <3>1
  <2> QED
    BY <1>1, <2>1, <2>2, FixedKeeps DEF Evaluated
<1>12. ASSUME NEW u \in Tasks PROVE Calling(u)'
  <2>1. CASE u = t
    BY <1>9, <2>1 DEF Calling
  <2>2. CASE u # t
    <3>1. call'[u] = call[u] /\ Calling(u)
      BY <1>9, <2>2 DEF WindowInv
    <3>2. call[u] # Null => call[u].part \in Partitions /\ call[u].part # p
      BY <1>3, <2>2, <3>1 DEF Calling
    <3>3. call[u] # Null => /\ done'[call[u].part] = done[call[u].part]
                            /\ base'[call[u].part] = base[call[u].part]
      BY <1>9, <3>2
    <3> QED
      BY <1>1, <1>2, <3>1, <3>2, <3>3, FixedKeeps DEF Calling
  <2> QED
    BY <2>1, <2>2
<1>13. Keeping'
    BY <1>1, <1>2, <1>9, FixedKeeps DEF WindowInv, Keeping
<1>14. PartitionsApart'
  <2> SUFFICES ASSUME ~evaluator.keeps \/ \A q, o \in Partitions : task[q] = task[o],
                      NEW r \in WindowRows, output'[r] # Null
               PROVE  output'[r] = Alone(r)
    BY <1>1, <1>2, FixedKeeps DEF PartitionsApart
  <2>1. r \notin DOMAIN gives => output'[r] = output[r]
    BY <1>9
  <2>2. r \notin DOMAIN gives => output[r] = Alone(r)
    BY <2>1 DEF WindowInv, PartitionsApart
  <2>3. r \in DOMAIN gives => output'[r] = Alone(r)
    BY <1>8, <1>9 DEF OneTask
  <2> QED
    BY <2>1, <2>2, <2>3
<1> QED
  <2>1. \A q \in Partitions : Evaluated(q)'
    BY <1>10, <1>11
  <2> QED
    BY <1>2, <1>12, <1>13, <1>14, <2>1 DEF WindowInv

LEMMA WindowStutters ==
    ASSUME WindowInv, UNCHANGED windowVars
    PROVE  WindowInv'
<1>1. UNCHANGED fixedVars /\ UNCHANGED <<evaluator, frame, task>>
      /\ UNCHANGED <<arrived, ended, base, done, call, fields, output, stopped>>
    BY DEF windowVars, fixedVars
<1>2. WindowTypes'
    BY <1>1 DEF WindowInv, WindowTypes
<1>3. \A p \in Partitions : Evaluated(p)'
    BY <1>1, FixedKeeps DEF WindowInv, Evaluated
<1>4. \A t \in Tasks : Calling(t)'
    BY <1>1, FixedKeeps DEF WindowInv, Calling
<1>5. Keeping' /\ PartitionsApart'
    BY <1>1, FixedKeeps DEF WindowInv, Keeping, PartitionsApart
<1> QED
    BY <1>2, <1>3, <1>4, <1>5 DEF WindowInv

LEMMA WindowStep ==
    ASSUME WindowInv, [WindowNext]_windowVars
    PROVE  WindowInv'
    BY ArriveKeeps, CompleteKeeps, BoundedKeeps, FramesKeeps, AllWithRankKeeps, AllKeeps,
       AnswerKeeps, RaiseKeeps, MemoizeKeeps, WindowStutters DEF WindowNext

LEMMA WindowTyped ==
    ASSUME WindowInv
    PROVE  WindowTypeOK
<1>1. ASSUME NEW p \in Partitions
      PROVE  /\ 0 <= base[p] /\ base[p] <= done[p] /\ done[p] <= arrived[p] /\ arrived[p] <= Sizes[p]
             /\ done[p] = Cardinality({i \in 0..Sizes[p] - 1 : output[<<p, i>>] # Null})
  <2>1. Evaluated(p) /\ Sizes[p] \in Nat /\ done[p] \in Nat /\ done[p] <= Sizes[p]
    BY SizesAssumption DEF WindowInv, Evaluated
  <2>2. {i \in 0..Sizes[p] - 1 : output[<<p, i>>] # Null} = 0..done[p] - 1
    BY <2>1 DEF Evaluated
  <2>3. Cardinality(0..done[p] - 1) = done[p]
    BY <2>1, IndexCount
  <2>4. done[p] = Cardinality({i \in 0..Sizes[p] - 1 : output[<<p, i>>] # Null})
    BY <2>2, <2>3, Zenon
  <2>5. 0 <= base[p] /\ base[p] <= done[p] /\ done[p] <= arrived[p] /\ arrived[p] <= Sizes[p]
    BY <2>1 DEF Evaluated
  <2> QED
    BY <2>4, <2>5
<1>2. ended \subseteq {p \in Partitions : arrived[p] = Sizes[p]}
    BY DEF WindowInv, WindowTypes, Evaluated
<1>3. \A t \in Tasks : call[t] # Null => task[call[t].part] = t
    BY DEF WindowInv, Calling
<1> QED
    BY <1>1, <1>2, <1>3 DEF WindowInv, WindowTypes, WindowTypeOK

-----------------------------------------------------------------------------
(* Aggregates: what the partial and the final accumulators count.           *)

(* The partial accumulator that a row is for.                               *)
Home(r) == <<part[r], Group[r]>>

AggregateTypes ==
    /\ part \in Layouts
    /\ single \in BOOLEAN /\ (single => OnePartition)
    /\ reads \in {"array", "list"}
    /\ unread \subseteq Rows
    /\ value \in [Accumulators -> [Columns -> [Rows -> {0, 1}]]]
    /\ states \in [Partials -> [Columns -> [Rows -> {0, 1}]]]
    /\ stage \in [Partials -> {"update", "sent", "merged"}]
    /\ DOMAIN result = Groups
    /\ failed \in BOOLEAN

(* A partial accumulator counts the rows read that are for it.              *)
Folded(a) ==
    \A k \in Columns : \A r \in Rows :
        value[a][k][r] = IF Home(r) = a /\ r \notin unread THEN 1 ELSE 0

(* A state is taken when the partition is read, and stays what it was.      *)
Sent(a) ==
    stage[a] # "update" =>
        /\ \A r \in unread : part[r] # a[1]
        /\ states[a] = value[a]

(* A state that was not read was given to merge, by a class that takes the  *)
(* array for a list.                                                        *)
Skipping ==
    /\ reads = "array" => skipped = {}
    /\ \A a \in skipped : a \in Partials /\ stage[a] = "merged"

(* A plan without a final aggregation takes no state, and one that has      *)
(* given the value of a group has merged all its states.                    *)
Settled ==
    /\ single => \A a \in Partials : stage[a] = "update"
    /\ \A g \in Groups : result[g] # NoResult =>
            \A a \in Partial : a[2] = g => single \/ stage[a] = "merged"

(* A final accumulator counts, in its first field, the rows whose state is  *)
(* merged and was read.                                                     *)
Merged(g) ==
    \A r \in Rows :
        value[<<g>>][1][r] = 1 <=>
            Group[r] = g /\ stage[Home(r)] = "merged" /\ Home(r) \notin skipped

AggregateInv ==
    /\ AggregateTypes
    /\ \A a \in Partials : Folded(a) /\ Sent(a)
    /\ Skipping /\ Settled
    /\ \A g \in Groups : Merged(g)
    /\ Fields = 1 => EachRowOnce

-----------------------------------------------------------------------------
(* A fold over a finite set satisfies its recursion: what is shown of a     *)
(* function that does is shown of the fold.                                 *)
LEMMA SumIs ==
    ASSUME NEW S, IsFiniteSet(S),
           \A a \in S : states[a][1] = [r \in Rows |-> IF Home(r) = a THEN 1 ELSE 0]
    PROVE  SumOf(S, 1) = [r \in Rows |-> IF Home(r) \in S THEN 1 ELSE 0]
<1> DEFINE Pick(s) == CHOOSE a \in s : TRUE
           Step(f, s) == IF s = {} THEN Nothing[1] ELSE Plus(states[Pick(s)][1], f[s \ {Pick(s)}])
           In(s) == [r \in Rows |-> IF Home(r) \in s THEN 1 ELSE 0]
           F == [s \in SUBSET S |-> In(s)]
           iter == CHOOSE f : f = [s \in SUBSET S |-> Step(f, s)]
<1>1. SumOf(S, 1) = iter[S]
    BY DEF SumOf, MapThenFoldSet
<1>2. ASSUME NEW s \in SUBSET S PROVE In(s) = Step(F, s)
  <2>1. CASE s = {}
    <3>1. Nothing[1] = [r \in Rows |-> 0]
      BY FieldsAssumption DEF Nothing, Columns
    <3> QED
      BY <2>1, <3>1
  <2>2. CASE s # {}
    <3>1. PICK x : x = Pick(s)
      OBVIOUS
    <3>2. x \in s /\ x \in S
      BY <2>2, <3>1
    <3>3. Step(F, s) = Plus(states[x][1], In(s \ {x}))
      BY <2>2, <3>1, <3>2
    <3>4. Plus(states[x][1], In(s \ {x})) = In(s)
      <4>1. states[x][1] = [r \in Rows |-> IF Home(r) = x THEN 1 ELSE 0]
        BY <3>2
      <4>2. \A r \in Rows : (Home(r) \in s \ {x} <=> Home(r) \in s /\ Home(r) # x)
        OBVIOUS
      <4> QED
        BY <3>2, <4>1, <4>2 DEF Plus
    <3> QED
      BY <3>3, <3>4
  <2> QED
    BY <2>1, <2>2
<1>3. F = [s \in SUBSET S |-> Step(F, s)]
    BY <1>2
<1> HIDE DEF F, Step
<1>4. iter = [s \in SUBSET S |-> Step(iter, s)]
    BY <1>3
<1> HIDE DEF iter
<1>5. ASSUME iter[S] # F[S] PROVE FALSE
  <2> DEFINE T == {s \in SUBSET S : iter[s] # F[s]}
             R == StrictSubsetOrdering(S)
  <2>1. IsWellFoundedOn(R, SUBSET S)
    BY FS_StrictSubsetOrderingWellFounded, FS_FiniteSubsetsOfFinite
  <2>2. T \subseteq SUBSET S /\ T # {}
    BY <1>5
  <2>3. PICK s \in T : \A y \in T : <<y, s>> \notin R
    <3> HIDE DEF T, R
    <3> QED
      BY <2>1, <2>2, WFMin
  <2>4. s # {}
    <3>1. iter[{}] = Step(iter, {}) /\ F[{}] = Step(F, {})
      BY <1>3, <1>4
    <3> QED
      BY <3>1 DEF Step
  <2>5. PICK x : x = Pick(s)
    OBVIOUS
  <2>6. x \in s
    BY <2>4, <2>5
  <2>7. <<s \ {x}, s>> \in R
    BY <2>6 DEF StrictSubsetOrdering
  <2>8. iter[s \ {x}] = F[s \ {x}]
    BY <2>3, <2>7
  <2>9. iter[s] = Step(iter, s) /\ F[s] = Step(F, s)
    BY <1>3, <1>4
  <2> QED
    BY <2>4, <2>5, <2>8, <2>9 DEF Step
<1>6. F[S] = In(S)
    BY DEF F
<1> QED
    BY <1>1, <1>5, <1>6

LEMMA HomeIs ==
    ASSUME AggregateTypes, NEW r \in Rows
    PROVE  /\ Home(r) \in Partial /\ Home(r) \in Partials
           /\ Home(r)[1] = part[r] /\ Home(r)[2] = Group[r] /\ Group[r] \in Groups
           /\ Partial \subseteq Partials
    BY DEF Home, Partial, Partials, Parts, Groups, AggregateTypes

LEMMA Kinds ==
    /\ Partials \subseteq Accumulators
    /\ \A g \in Groups : <<g>> \in Accumulators /\ <<g>> \notin Partials
    /\ \A g, h : <<g>> = <<h>> => g = h
    /\ 1 \in Columns
    BY FieldsAssumption DEF Partials, Finals, Accumulators, Columns

LEMMA AggregateStart ==
    ASSUME Fresh, failed \in BOOLEAN
    PROVE  AggregateInv
<1>1. \A a \in Accumulators : \A k \in Columns : \A r \in Rows : value[a][k][r] = 0
    BY DEF Fresh, Nothing
<1>2. AggregateTypes
    BY DEF Fresh, AggregateTypes, Nothing
<1>3. \A a \in Partials : Folded(a) /\ Sent(a)
    BY <1>1, Kinds DEF Fresh, Folded, Sent
<1>4. \A g \in Groups : Merged(g)
    BY <1>1, <1>2, Kinds, HomeIs DEF Fresh, Merged
<1>5. EachRowOnce
    BY DEF Fresh, EachRowOnce
<1>6. Skipping /\ Settled
    BY DEF Fresh, Skipping, Settled
<1> QED
    BY <1>2, <1>3, <1>4, <1>5, <1>6 DEF AggregateInv

LEMMA UpdateKeeps ==
    ASSUME AggregateInv, NEW a \in Partial, Update(a)
    PROVE  AggregateInv'
<1>1. PICK B \in SUBSET {r \in unread : <<part[r], Group[r]>> = a} :
        unread' = unread \ B /\ value' = [value EXCEPT ![a] = Counted(@, B)]
    BY DEF Update, Object
<1>2. /\ UNCHANGED <<part, single, reads, skipped, states, stage, result, failed>> /\ stage[a] = "update"
      /\ AggregateTypes /\ a \in Partials /\ a \in Accumulators
    BY HomeIs, Kinds DEF Update, AggregateInv, Partial
<1>3. /\ \A b \in Accumulators : b # a => value'[b] = value[b]
      /\ value'[a] = Counted(value[a], B)
    BY <1>1, <1>2 DEF AggregateTypes
<1>4. \A k \in Columns : \A r \in Rows :
        value'[a][k][r] = IF Home(r) = a /\ r \notin unread' THEN 1 ELSE 0
  <2>1. SUFFICES ASSUME NEW k \in Columns, NEW r \in Rows
                 PROVE  value'[a][k][r] = IF Home(r) = a /\ r \notin unread' THEN 1 ELSE 0
    OBVIOUS
  <2>2. value'[a][k][r] = value[a][k][r] + IF r \in B THEN 1 ELSE 0
    BY <1>3 DEF Counted
  <2>3. value[a][k][r] = IF Home(r) = a /\ r \notin unread THEN 1 ELSE 0
    BY <1>2 DEF AggregateInv, Folded
  <2>4. r \in B => r \in unread /\ Home(r) = a
    BY DEF Home
  <2> QED
    BY <1>1, <2>2, <2>3, <2>4
<1>5. AggregateTypes'
  <2>1. Counted(value[a], B) \in [Columns -> [Rows -> {0, 1}]]
    <3>1. \A k \in Columns : \A r \in Rows : Counted(value[a], B)[k][r] \in {0, 1}
      BY <1>3, <1>4
    <3> QED
      BY <3>1 DEF Counted
  <2> QED
    BY <1>1, <1>2, <2>1 DEF AggregateTypes, OnePartition
<1>6. ASSUME NEW b \in Partials PROVE Folded(b)' /\ Sent(b)'
  <2>1. Folded(b) /\ Sent(b) /\ b \in Accumulators
    BY Kinds DEF AggregateInv
  <2>2. CASE b = a
    BY <1>2, <1>4, <2>2 DEF Folded, Sent, Home
  <2>3. CASE b # a
    <3>1. value'[b] = value[b]
      BY <1>3, <2>1, <2>3
    <3>2. \A r \in Rows : Home(r) = b => (r \in unread' <=> r \in unread)
      BY <1>1, <2>3 DEF Home
    <3> QED
      BY <1>1, <1>2, <2>1, <3>1, <3>2 DEF Folded, Sent, Home
  <2> QED
    BY <2>2, <2>3
<1>7. ASSUME NEW g \in Groups PROVE Merged(g)'
  <2>1. value'[<<g>>] = value[<<g>>]
    BY <1>2, <1>3, Kinds
  <2> QED
    BY <1>2, <2>1 DEF AggregateInv, Merged, Home
<1>8. Fields = 1 => EachRowOnce'
    BY <1>2 DEF AggregateInv, EachRowOnce
<1>9. Skipping' /\ Settled'
    BY <1>2 DEF AggregateInv, Skipping, Settled, Partial
<1> QED
    BY <1>5, <1>6, <1>7, <1>8, <1>9 DEF AggregateInv

LEMMA StateKeeps ==
    ASSUME AggregateInv, NEW a \in Partial, State(a)
    PROVE  AggregateInv'
<1>1. /\ UNCHANGED <<part, single, reads, skipped, unread, value, result, failed>>
      /\ ~single /\ stage[a] = "update"
      /\ \A r \in unread : part[r] # a[1]
      /\ states' = [states EXCEPT ![a] = value[a]] /\ stage' = [stage EXCEPT ![a] = "sent"]
      /\ AggregateTypes /\ a \in Partials /\ a \in Accumulators
    BY HomeIs, Kinds DEF State, Object, AggregateInv, Partial
<1>2. AggregateTypes'
    BY <1>1 DEF AggregateTypes, OnePartition
<1>3. \A b \in Partials : /\ stage'[b] = IF b = a THEN "sent" ELSE stage[b]
                          /\ states'[b] = IF b = a THEN value[b] ELSE states[b]
    BY <1>1 DEF AggregateTypes
<1>4. ASSUME NEW b \in Partials PROVE Folded(b)' /\ Sent(b)'
    BY <1>1, <1>3 DEF AggregateInv, Folded, Sent, Home
<1>5. ASSUME NEW g \in Groups PROVE Merged(g)'
  <2>1. \A r \in Rows : stage'[Home(r)] = "merged" <=> stage[Home(r)] = "merged"
    BY <1>1, <1>3, HomeIs
  <2> QED
    BY <1>1, <2>1 DEF AggregateInv, Merged, Home
<1>6. Fields = 1 => EachRowOnce'
    BY <1>1 DEF AggregateInv, EachRowOnce
<1>7. Skipping'
    BY <1>1, <1>3 DEF AggregateInv, Skipping
<1>8. Settled'
  <2>1. Partial' = Partial /\ Partial \subseteq Partials
    BY <1>1, HomeIs DEF Partial
  <2> QED
    BY <1>1, <1>3, <2>1 DEF AggregateInv, Settled
<1> QED
    BY <1>2, <1>4, <1>5, <1>6, <1>7, <1>8 DEF AggregateInv

LEMMA PartialFinite ==
    ASSUME AggregateTypes
    PROVE  IsFiniteSet(Partial) /\ IsFiniteSet({part[r] : r \in Rows})
<1> DEFINE to == [r \in Rows |-> <<part[r], Group[r]>>]
           from == [r \in Rows |-> part[r]]
<1>1. to \in Surjection(Rows, Partial)
    BY DEF Surjection, Partial
<1>2. from \in Surjection(Rows, {part[r] : r \in Rows})
    BY DEF Surjection
<1> QED
    BY <1>1, <1>2, RowsAssumption, FS_Surjection

LEMMA MergeKeeps ==
    ASSUME AggregateInv, NEW g \in Groups, MergeBatch(g)
    PROVE  AggregateInv'
<1>1. PICK S \in SUBSET {a \in Partial : a[2] = g /\ stage[a] = "sent"} :
        /\ S # {}
        /\ \E read \in Read(S) :
            /\ value' = [value EXCEPT ![<<g>>][1] = Plus(@, SumOf(read, 1))]
            /\ skipped' = skipped \cup (S \ read)
        /\ stage' = [a \in Partials |-> IF a \in S THEN "merged" ELSE stage[a]]
    BY DEF MergeBatch, Object
<1>0. PICK read \in SUBSET S :
        /\ value' = [value EXCEPT ![<<g>>][1] = Plus(@, SumOf(read, 1))]
        /\ skipped' = skipped \cup (S \ read)
        /\ reads = "array" => read = S
  <2>1. PICK read \in Read(S) :
            /\ value' = [value EXCEPT ![<<g>>][1] = Plus(@, SumOf(read, 1))]
            /\ skipped' = skipped \cup (S \ read)
    BY <1>1
  <2>2. read \subseteq S /\ (reads = "array" => read = S)
    BY <2>1 DEF Read
  <2> QED
    BY <2>1, <2>2
<1>2. /\ UNCHANGED <<part, single, reads, unread, states, result, failed>> /\ AggregateTypes
      /\ <<g>> \in Accumulators /\ <<g>> \notin Partials /\ 1 \in Columns
    BY Kinds DEF MergeBatch, AggregateInv
<1>3. \A a \in S : a \in Partials /\ a[2] = g /\ stage[a] = "sent" /\ Folded(a) /\ Sent(a)
    BY <1>2, HomeIs DEF AggregateInv, Partial
<1>4. SumOf(read, 1) = [r \in Rows |-> IF Home(r) \in read THEN 1 ELSE 0]
  <2>1. ASSUME NEW a \in read
        PROVE  states[a][1] = [r \in Rows |-> IF Home(r) = a THEN 1 ELSE 0]
    <3>1. states[a] = value[a] /\ \A r \in unread : part[r] # a[1]
      BY <1>3 DEF Sent
    <3>2. \A r \in Rows : Home(r) = a => r \notin unread
      BY <3>1 DEF Home
    <3>3. \A r \in Rows : states[a][1][r] = IF Home(r) = a THEN 1 ELSE 0
      BY <1>2, <1>3, <3>1, <3>2 DEF Folded
    <3>4. states[a][1] \in [Rows -> {0, 1}]
      BY <1>2, <1>3 DEF AggregateTypes
    <3> QED
      BY <3>3, <3>4
  <2>2. IsFiniteSet(read)
    BY <1>2, PartialFinite, FS_Subset
  <2> QED
    BY <2>1, <2>2, SumIs
<1>5. /\ \A b \in Accumulators : b # <<g>> => value'[b] = value[b]
      /\ value'[<<g>>] = [value[<<g>>] EXCEPT ![1] = Plus(value[<<g>>][1], SumOf(read, 1))]
    BY <1>0, <1>2 DEF AggregateTypes
<1>6. /\ value'[<<g>>][1] = Plus(value[<<g>>][1], SumOf(read, 1))
      /\ \A k \in Columns : k # 1 => value'[<<g>>][k] = value[<<g>>][k]
    BY <1>2, <1>5 DEF AggregateTypes
<1>7. \A a \in Partials : stage'[a] = IF a \in S THEN "merged" ELSE stage[a]
    BY <1>1
<1>8. ASSUME NEW r \in Rows
      PROVE  /\ value'[<<g>>][1][r] \in {0, 1}
             /\ value'[<<g>>][1][r] = 1 <=>
                    Group[r] = g /\ stage'[Home(r)] = "merged" /\ Home(r) \notin skipped'
  <2>1. value'[<<g>>][1][r] = value[<<g>>][1][r] + IF Home(r) \in read THEN 1 ELSE 0
    BY <1>4, <1>6 DEF Plus
  <2>2. /\ value[<<g>>][1][r] \in {0, 1}
        /\ value[<<g>>][1][r] = 1 <=>
            Group[r] = g /\ stage[Home(r)] = "merged" /\ Home(r) \notin skipped
    BY <1>2 DEF AggregateInv, Merged, AggregateTypes
  <2>3. Home(r) \in Partials /\ (Home(r) \in S => Group[r] = g /\ stage[Home(r)] = "sent")
    BY <1>2, <1>3, HomeIs
  <2>4. Home(r) \in S => Home(r) \notin skipped
    BY <2>3 DEF AggregateInv, Skipping
  <2> QED
    BY <1>0, <1>7, <2>1, <2>2, <2>3, <2>4
<1>9. AggregateTypes'
  <2>1. Plus(value[<<g>>][1], SumOf(read, 1)) \in [Rows -> {0, 1}]
    <3>1. \A r \in Rows : Plus(value[<<g>>][1], SumOf(read, 1))[r] \in {0, 1}
      BY <1>6, <1>8
    <3> QED
      BY <3>1 DEF Plus
  <2>2. value'[<<g>>] \in [Columns -> [Rows -> {0, 1}]]
    <3>1. value[<<g>>] \in [Columns -> [Rows -> {0, 1}]]
      BY <1>2 DEF AggregateTypes
    <3> HIDE DEF Columns
    <3> QED
      BY <1>2, <1>5, <2>1, <3>1
  <2>3. value' \in [Accumulators -> [Columns -> [Rows -> {0, 1}]]]
    <3>1. value' = [value EXCEPT ![<<g>>] = value'[<<g>>]]
      BY <1>0, <1>2, <1>5 DEF AggregateTypes
    <3> QED
      BY <1>2, <2>2, <3>1 DEF AggregateTypes
  <2>4. stage' \in [Partials -> {"update", "sent", "merged"}]
    BY <1>1, <1>2 DEF AggregateTypes
  <2> QED
    BY <1>2, <2>3, <2>4 DEF AggregateTypes, OnePartition
<1>10. ASSUME NEW b \in Partials PROVE Folded(b)' /\ Sent(b)'
  <2>1. value'[b] = value[b] /\ (stage'[b] # "update" => stage[b] # "update")
    BY <1>2, <1>3, <1>5, <1>7, Kinds
  <2> QED
    BY <1>2, <2>1 DEF AggregateInv, Folded, Sent, Home
<1>11. ASSUME NEW h \in Groups PROVE Merged(h)'
  <2>1. CASE h = g
    BY <1>2, <1>8, <2>1 DEF Merged, Home
  <2>2. CASE h # g
    <3>1. value'[<<h>>] = value[<<h>>]
      BY <1>5, <2>2, Kinds
    <3>2. \A r \in Rows : Group[r] = h => stage'[Home(r)] = stage[Home(r)]
      BY <1>2, <1>3, <1>7, <2>2, HomeIs
    <3>3. \A r \in Rows : Group[r] = h => (Home(r) \in skipped' <=> Home(r) \in skipped)
      BY <1>0, <1>3, <2>2 DEF Home
    <3> QED
      BY <1>2, <3>1, <3>2, <3>3 DEF AggregateInv, Merged, Home
  <2> QED
    BY <2>1, <2>2
<1>12. Skipping'
    BY <1>0, <1>2, <1>3, <1>7 DEF AggregateInv, Skipping
<1>13. Partial' = Partial /\ Partial \subseteq Partials
    BY <1>2, HomeIs DEF Partial
<1>14. ~single /\ result[g] = NoResult
    BY <1>1, <1>3 DEF AggregateInv, Settled
<1>15. Settled'
    BY <1>2, <1>7, <1>13, <1>14 DEF AggregateInv, Settled, NoResult, Columns
<1>16. \A h \in Groups \ {g} : \A r \in Rows : <<part[r], h>> \in skipped' <=> <<part[r], h>> \in skipped
    BY <1>0, <1>3
<1>17. Fields = 1 => EachRowOnce'
    BY <1>2, <1>12, <1>14, <1>16 DEF AggregateInv, EachRowOnce, Skipping, NoResult, Columns
<1> QED
    BY <1>9, <1>10, <1>11, <1>12, <1>15, <1>17 DEF AggregateInv

LEMMA EvaluateKeeps ==
    ASSUME AggregateInv, NEW g \in Groups, Evaluate(g)
    PROVE  AggregateInv'
<1>1. UNCHANGED <<part, single, reads, skipped, unread, value, states, stage, failed>> /\ AggregateTypes
    BY DEF Evaluate, AggregateInv
<1>2. PICK a \in Accumulators :
        /\ result' = [result EXCEPT ![g] = value[a]]
        /\ \/ single /\ unread = {} /\ a \in Partial /\ a[2] = g
           \/ a = <<g>> /\ \A b \in Partial : b[2] = g => stage[b] = "merged"
  <2>1. Partial \subseteq Accumulators
    BY <1>1, Kinds DEF Partial, Partials, Parts, Groups, AggregateTypes
  <2> QED
    BY <2>1, Kinds DEF Evaluate, Object
<1>3. ASSUME Fields = 1, NEW k \in Columns, NEW r \in Rows
      PROVE  value[a][k][r] = IF Group[r] = g /\ <<part[r], g>> \notin skipped THEN 1 ELSE 0
  <2>1. k = 1
    BY <1>3 DEF Columns
  <2>2. CASE single /\ unread = {} /\ a \in Partial /\ a[2] = g
    <3>1. PICK x : {part[q] : q \in Rows} = {x}
      BY <1>1, <2>2, PartialFinite, FS_Singleton DEF AggregateInv, AggregateTypes, OnePartition
    <3>2. \A q \in Rows : part[q] = x
      BY <3>1
    <3>3. PICK q \in Rows : a = <<part[q], Group[q]>>
      BY <2>2 DEF Partial
    <3>4. Home(r) = a <=> Group[r] = g
      BY <2>2, <3>2, <3>3 DEF Home
    <3>5. Folded(a)
      BY <1>1, <2>2, <3>3, HomeIs DEF AggregateInv, Home
    <3>6. skipped = {}
      BY <2>2 DEF AggregateInv, Skipping, Settled
    <3> QED
      BY <2>2, <3>4, <3>5, <3>6 DEF Folded
  <2>3. CASE a = <<g>> /\ \A b \in Partial : b[2] = g => stage[b] = "merged"
    <3>1. Group[r] = g => stage[Home(r)] = "merged"
      BY <1>1, <2>3, HomeIs
    <3>2. Merged(g)
      BY DEF AggregateInv
    <3>3. Group[r] = g => Home(r) = <<part[r], g>>
      BY DEF Home
    <3>4. value[<<g>>][1][r] \in {0, 1}
      BY <1>1, Kinds DEF AggregateTypes
    <3> QED
      BY <2>1, <2>3, <3>1, <3>2, <3>3, <3>4 DEF Merged
  <2> QED
    BY <1>2, <2>2, <2>3
<1>4. \A h \in Groups : result'[h] = IF h = g THEN value[a] ELSE result[h]
    BY <1>1, <1>2 DEF AggregateTypes
<1>5. Fields = 1 => EachRowOnce'
    BY <1>1, <1>3, <1>4 DEF AggregateInv, EachRowOnce
<1>6. AggregateTypes'
    BY <1>1, <1>2 DEF AggregateTypes, OnePartition
<1>7. \A b \in Partials : Folded(b)' /\ Sent(b)'
    BY <1>1 DEF AggregateInv, Folded, Sent, Home
<1>8. \A h \in Groups : Merged(h)'
    BY <1>1 DEF AggregateInv, Merged, Home
<1>9. Skipping' /\ Settled'
    BY <1>1, <1>2, <1>4 DEF AggregateInv, Skipping, Settled, Partial, NoResult
<1> QED
    BY <1>5, <1>6, <1>7, <1>8, <1>9 DEF AggregateInv

(* A raise, and a step of a query of another kind.                          *)
LEMMA IdleKeeps ==
    ASSUME AggregateInv, UNCHANGED <<part, single, reads, skipped, unread, value, states, stage, result>>,
           failed' \in BOOLEAN
    PROVE  AggregateInv'
<1>1. AggregateTypes'
    BY DEF AggregateInv, AggregateTypes, OnePartition
<1>2. \A b \in Partials : Folded(b)' /\ Sent(b)'
    BY DEF AggregateInv, Folded, Sent, Home
<1>3. \A h \in Groups : Merged(h)'
    BY DEF AggregateInv, Merged, Home
<1>4. Fields = 1 => EachRowOnce'
    BY DEF AggregateInv, EachRowOnce
<1>5. Skipping' /\ Settled'
    BY DEF AggregateInv, Skipping, Settled, Partial
<1> QED
    BY <1>1, <1>2, <1>3, <1>4, <1>5 DEF AggregateInv

LEMMA AggregateStep ==
    ASSUME AggregateInv, [Next]_vars
    PROVE  AggregateInv'
<1>1. CASE Raise
    BY <1>1, IdleKeeps DEF Raise
<1>2. CASE UNCHANGED vars
    BY <1>2, IdleKeeps DEF vars, AggregateInv, AggregateTypes
<1> QED
    BY <1>1, <1>2, UpdateKeeps, StateKeeps, MergeKeeps, EvaluateKeeps DEF Next

-----------------------------------------------------------------------------
(* Scalar functions.                                                        *)

ScalarInv ==
    /\ invocation # Null => invocation \in Invocations
    /\ answer # Null => invocation \in Invocations /\ answer = MakeScalarFunction(invocation.args)

Aligned(gives, args, n) ==
    \/ /\ Arrays(args) = {}
       /\ gives = <<"scalar", [k \in DOMAIN args |-> args[k][2]]>>
    \/ /\ Arrays(args) # {} /\ gives[1] = "array" /\ Len(gives[2]) = n
       /\ \A i \in 1..n : gives[2][i] = [k \in DOMAIN args |-> IntoArray(args[k], n)[i]]

LEMMA LastExists ==
    ASSUME NEW n \in Nat, NEW S \in SUBSET (1..n), S # {}
    PROVE  Max(S) \in S
<1> DEFINE T == {n - i : i \in S}
           R == OpToRel(<, Nat)
<1>1. T \subseteq Nat /\ T # {}
  <2>1. \A i \in S : n - i \in Nat
    OBVIOUS
  <2> QED
    BY <2>1
<1>2. PICK x \in T : \A y \in T : <<y, x>> \notin R
  <2> HIDE DEF T, R
  <2>1. IsWellFoundedOn(R, Nat)
    BY NatLessThanWellFounded DEF R
  <2> QED
    BY <1>1, <2>1, WFMin
<1>3. \A y \in T : ~(y < x)
    BY <1>1, <1>2 DEF OpToRel
<1>4. PICK m \in S : x = n - m
    OBVIOUS
<1>5. \A i \in S : m >= i
  <2>1. ASSUME NEW i \in S PROVE m >= i
    <3>1. ~(n - i < n - m) /\ n \in Int /\ i \in Int /\ m \in Int
      BY <1>3, <1>4
    <3> QED
      BY <3>1
  <2> QED
    BY <2>1
<1> QED
    BY <1>4, <1>5 DEF Max

LEMMA Lengths ==
    ASSUME NEW n \in Nat, NEW f, DOMAIN f = 1..n
    PROVE  Len(f) = n
    OBVIOUS

LEMMA PythonGives ==
    ASSUME NEW m \in Nat \ {0}, NEW len \in Nat, NEW a, DOMAIN a = 1..m,
           \A k \in 1..m : Len(a[k]) = len
    PROVE  Python(a) = <<"array", [j \in 1..len |-> [k \in 1..m |-> a[k][j]]]>>
<1>1. Len(a) = m /\ Len(a) # 0 /\ Len(a[1]) = len
    BY Lengths
<1>2. ~\E k \in DOMAIN a : Len(a[k]) # Len(a[1])
    BY <1>1
<1> QED
    BY <1>1, <1>2 DEF Python

(* A call on a batch of n rows.                                             *)
LEMMA CallAligned ==
    ASSUME NEW n \in Nat, NEW m \in Nat, NEW args \in [1..m -> Arguments(n)]
    PROVE  Aligned(MakeScalarFunction(args), args, n)
<1> DEFINE len == InferredLength(args)
           arrays == [k \in 1..m |-> IntoArray(args[k], len)]
           given == [k \in 1..m |-> args[k][2]]
           gives == MakeScalarFunction(args)
<1>1. DOMAIN args = 1..m /\ Len(arrays) = m
    BY Lengths
<1>2. \A k \in 1..m : \/ args[k][1] = "scalar"
                      \/ args[k][1] = "array" /\ args[k][2] \in [1..n -> Values]
    BY DEF Arguments
<1>3. gives = IF Python(arrays) = Raised THEN Raised
              ELSE IF Arrays(args) = {} THEN <<"scalar", Python(arrays)[2][1]>> ELSE Python(arrays)
    BY <1>1 DEF MakeScalarFunction
<1>4. CASE Arrays(args) = {}
  <2>1. len = 1 /\ \A k \in 1..m : args[k][1] = "scalar"
    BY <1>1, <1>2, <1>4 DEF InferredLength, Arrays
  <2>2. \A k \in 1..m : arrays[k] = [j \in 1..1 |-> args[k][2]]
    BY <2>1 DEF IntoArray
  <2>3. CASE m = 0
    <3>1. Python(arrays) = <<"array", << <<>> >> >>
      BY <1>1, <2>3 DEF Python
    <3>2. Python(arrays) # Raised
      BY <3>1 DEF Raised
    <3>3. gives = <<"scalar", <<>> >>
      BY <1>3, <1>4, <3>1, <3>2
    <3>4. given = <<>>
      BY <2>3
    <3> QED
      BY <1>1, <1>4, <3>3, <3>4 DEF Aligned
  <2>4. CASE m # 0
    <3>1. \A k \in 1..m : Len(arrays[k]) = 1
      BY <2>2, Lengths
    <3>2. Python(arrays) = <<"array", [j \in 1..1 |-> [k \in 1..m |-> arrays[k][j]]]>>
      <4> HIDE DEF len
      <4>1. DOMAIN arrays = 1..m
        OBVIOUS
      <4> HIDE DEF arrays
      <4> QED
        <5>1. m \in Nat \ {0} /\ 1 \in Nat
          BY <2>4
        <5> QED
          BY <3>1, <4>1, <5>1, PythonGives, Zenon
    <3>3. Python(arrays) # Raised
      BY <3>2 DEF Raised
    <3>4. Python(arrays)[2][1] = given
      <4>1. Python(arrays)[2][1] = [k \in 1..m |-> arrays[k][1]]
        BY <3>2
      <4>2. \A k \in 1..m : arrays[k][1] = given[k]
        BY <2>2
      <4> QED
        BY <4>1, <4>2
    <3> QED
      BY <1>1, <1>3, <1>4, <3>3, <3>4 DEF Aligned
  <2> QED
    BY <2>3, <2>4
<1>5. CASE Arrays(args) # {}
  <2>1. Arrays(args) \subseteq 1..m /\ Max(Arrays(args)) \in Arrays(args)
    BY <1>1, <1>5, LastExists DEF Arrays
  <2>2. len = n
    BY <1>1, <1>2, <1>5, <2>1, Lengths DEF InferredLength, Arrays
  <2>3. m # 0 /\ \A k \in 1..m : DOMAIN arrays[k] = 1..n
    BY <1>2, <1>5, <2>1, <2>2 DEF IntoArray
  <2>4. \A k \in 1..m : Len(arrays[k]) = n
    BY <2>3, Lengths
  <2>5. Python(arrays) = <<"array", [j \in 1..n |-> [k \in 1..m |-> arrays[k][j]]]>>
    <3>1. DOMAIN arrays = 1..m
      OBVIOUS
    <3> HIDE DEF arrays
    <3> QED
      BY <2>3, <2>4, <3>1, PythonGives
  <2>6. Python(arrays) # Raised
    BY <2>5 DEF Raised
  <2>7. gives = <<"array", [j \in 1..n |-> [k \in 1..m |-> arrays[k][j]]]>>
    BY <1>3, <1>5, <2>5, <2>6
  <2>8. /\ gives[1] = "array" /\ Len(gives[2]) = n
        /\ \A i \in 1..n : gives[2][i] = [k \in 1..m |-> IntoArray(args[k], n)[i]]
    BY <2>2, <2>7, Lengths
  <2> QED
    BY <1>1, <1>5, <2>8 DEF Aligned
<1> QED
    BY <1>1, <1>4, <1>5 DEF Aligned

LEMMA ScalarAligned ==
    ASSUME ScalarInv
    PROVE  RowsAligned
<1> SUFFICES ASSUME answer # Null
             PROVE  Aligned(answer, invocation.args, invocation.rows)
    BY DEF RowsAligned, Aligned
<1>1. PICK n \in 0..MaxBatch, m \in 0..MaxArguments :
        \E args \in [1..m -> Arguments(n)] : invocation = [rows |-> n, args |-> args]
    BY DEF ScalarInv, Invocations
<1>2. PICK args \in [1..m -> Arguments(n)] : invocation = [rows |-> n, args |-> args]
    BY <1>1
<1>3. invocation.rows = n /\ invocation.args = args /\ n \in Nat /\ m \in Nat
      /\ answer = MakeScalarFunction(args)
    BY <1>2 DEF ScalarInv
<1> QED
    BY <1>3, CallAligned

LEMMA ScalarStep ==
    ASSUME ScalarInv, InvokeScalar \/ UNCHANGED scalarVars
    PROVE  ScalarInv'
    BY DEF ScalarInv, InvokeScalar, scalarVars, Invocations, MakeScalarFunction

-----------------------------------------------------------------------------
QueriesInv == AggregateInv /\ WindowInv /\ SlidingInv /\ ScalarInv

LEMMA QueriesStart == AllInit => QueriesInv
<1> SUFFICES ASSUME AllInit PROVE QueriesInv
    OBVIOUS
<1>1. failed \in BOOLEAN /\ stopped \in BOOLEAN
    BY DEF AllInit, AFailedAggregate, AFailedWindow
<1>2. AggregateInv /\ WindowInv /\ SlidingInv
    BY <1>1, AggregateStart, WindowStart, SlidingStart DEF AllInit
<1>3. ScalarInv
    BY DEF AllInit, ScalarInv
<1> QED
    BY <1>2, <1>3 DEF QueriesInv

LEMMA QueriesStep == QueriesInv /\ [AllNext]_allVars => QueriesInv'
<1> SUFFICES ASSUME QueriesInv, [AllNext]_allVars PROVE QueriesInv'
    OBVIOUS
<1>1. /\ [Next]_vars /\ [WindowNext]_windowVars /\ [SlidingNext]_slidingVars
      /\ InvokeScalar \/ UNCHANGED scalarVars
    BY DEF AllNext, allVars, InvokeScalar
<1> QED
    BY <1>1, AggregateStep, WindowStep, SlidingStep, ScalarStep DEF QueriesInv

(* The four inductive invariants together hold of every query: of an        *)
(* aggregate, a window, a sliding aggregate and a scalar function.          *)
THEOREM QueriesInvariant == AllSpec => []QueriesInv
    BY QueriesStart, QueriesStep, PTL DEF AllSpec

(* Every reachable state is well typed, no accumulator or state counts a    *)
(* row twice, and the rows of a partition that are pruned, evaluated and    *)
(* there are in that order (QueriesTypeOK).                                 *)
THEOREM QueriesTypes == AllSpec => []QueriesTypeOK
<1>1. QueriesInv => QueriesTypeOK
    BY WindowTyped DEF QueriesInv, QueriesTypeOK, AggregateInv, AggregateTypes, Skipping, TypeOK
<1> QED
    BY <1>1, QueriesInvariant, PTL

(* The value of a group counts each row of the group once (EachRowOnce),    *)
(* for any rows, partitions, batches and order of merging, when the         *)
(* accumulator has one state field, since merge_batch hands Python the      *)
(* first; a class that takes the array of states for a list loses the rows  *)
(* of the states it does not read, and those alone.                         *)
THEOREM EachRowSafe ==
    ASSUME Fields = 1
    PROVE  AllSpec => []EachRowOnce
<1>1. QueriesInv => EachRowOnce
    BY DEF QueriesInv, AggregateInv
<1> QED
    BY <1>1, QueriesInvariant, PTL

(* The value of a row of a window is the one its partition alone gives      *)
(* (PartitionsApart), whenever rows arrive and are pruned, whatever the     *)
(* evaluator reaches for, and however calls interleave.                     *)
THEOREM PartitionsSafe == AllSpec => []PartitionsApart
<1>1. QueriesInv => PartitionsApart
    BY DEF QueriesInv, WindowInv
<1> QED
    BY <1>1, QueriesInvariant, PTL

(* An aggregate over the frames of a window counts, for each row, the rows  *)
(* of its frame once (FramesExact), whatever the sizes, the frame and the   *)
(* arrival.                                                                 *)
THEOREM FramesSafe == AllSpec => []FramesExact
<1>1. QueriesInv => FramesExact
    BY DEF QueriesInv, SlidingInv
<1> QED
    BY <1>1, QueriesInvariant, PTL

(* A scalar function gives every row of a batch the value for its own       *)
(* arguments (RowsAligned), for any number of arguments and of rows: the    *)
(* length inferred from the last array is that of the batch.                *)
THEOREM AlignedSafe == AllSpec => []RowsAligned
<1>1. QueriesInv => RowsAligned
    BY ScalarAligned DEF QueriesInv
<1> QED
    BY <1>1, QueriesInvariant, PTL
=============================================================================
