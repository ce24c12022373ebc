--------------------------- MODULE MCChannelStream ---------------------------
(* Small instances of the stream bridge for TLC.                            *)
EXTENDS ChannelStreamProperties

CONSTANTS s1, s2    \* streams

NoStream   == {}
OneStream  == {s1}
SecondStream == {s2}
TwoStreams == {s1, s2}

(* Bound of shared_budgets: one of the streams is kept.                     *)
OneDrop(s) == DropStream(s) /\ \A t \in Streams \ {s} : stream[t] = "live"

CompetingNext ==
    \E s \in Streams :
        PollRequest(s) \/ Answer(s) \/ OneDrop(s) \/ Coordinator(s) \/ Worker(s)

CompetingStreams == Init /\ [][CompetingNext]_vars /\ Fairness
=============================================================================
