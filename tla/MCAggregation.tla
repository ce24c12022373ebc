---------------------------- MODULE MCAggregation ----------------------------
(* Model-checking instances of Aggregation: six rows of two groups, read    *)
(* from one partition, from two that both groups span, or from three of     *)
(* which one has rows of one group only.                                    *)
EXTENDS Aggregation

SixRows == 1..6
GroupOf == [r \in SixRows |-> IF r <= 4 THEN "g" ELSE "h"]
MCLayouts ==
    { [r \in SixRows |-> "p"],
      [r \in SixRows |-> IF r % 2 = 0 THEN "p" ELSE "q"],
      [r \in SixRows |-> IF r = 1 THEN "s" ELSE IF r % 2 = 0 THEN "p" ELSE "q"] }
=============================================================================
