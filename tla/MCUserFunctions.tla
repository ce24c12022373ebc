--------------------------- MODULE MCUserFunctions ---------------------------
(* Model-checking instance of UserFunctions.  The aggregate is that of      *)
(* MCAggregation.  Windows are over two partitions, in one task or in two.  *)
EXTENDS UserFunctions

SixRows == 1..6
GroupOf == [r \in SixRows |-> IF r <= 4 THEN "g" ELSE "h"]
MCLayouts ==
    { [r \in SixRows |-> "p"],
      [r \in SixRows |-> IF r % 2 = 0 THEN "p" ELSE "q"],
      [r \in SixRows |-> IF r = 1 THEN "s" ELSE IF r % 2 = 0 THEN "p" ELSE "q"] }

MCSizes == [p \in {"a", "b"} |-> IF p = "a" THEN 3 ELSE 2]
MCDeals == {[p \in {"a", "b"} |-> 1], [p \in {"a", "b"} |-> IF p = "a" THEN 1 ELSE 2]}

Answering(yes, raises) ==
    [f \in Flags |-> IF f \in yes THEN "yes" ELSE IF f \in raises THEN "raises" ELSE "no"]
MCAnswers ==
    { Answering({}, {}), Answering({}, Flags),
      Answering({"include_rank"}, {}), Answering({"uses_window_frame"}, {}),
      Answering({"supports_bounded_execution"}, {}),
      Answering({"supports_bounded_execution"}, {"is_causal"}),
      Answering({"supports_bounded_execution", "is_causal"}, {}),
      Answering({"supports_bounded_execution", "uses_window_frame"}, {}) }
(* get_range is only asked in bounded execution without the frame.          *)
AsksRange(answers) ==
    answers["supports_bounded_execution"] = "yes" /\ answers["uses_window_frame"] # "yes"
MCEvaluators ==
    {e \in [answers : MCAnswers, reach : {"self", "previous", "next", "all"}, keeps : BOOLEAN] :
        Honest(e) /\ (e.reach = "self" \/ AsksRange(e.answers))}
=============================================================================
