------------------------------ MODULE MCReentry ------------------------------
(* An instance of Reentry.                                                  *)
EXTENDS Reentry

CONSTANTS s, t      \* streams

TwoStreams == {s, t}

(* The calls under way after a step.                                        *)
UnderWay == {c \in Calls : pc'[c] \in {"waiting", "ready"}}

(* Bounds: two threads of the program; and a fourth call, or a read of t,   *)
(* only among reads whose sources run Python code on the thread that reads, *)
(* t beside s.                                                              *)
TwoThreads == Cardinality({c \in UnderWay : parent'[c] = None}) <= 2
ReadsOnly == \A c \in UnderWay : stream'[c] # None /\ site'[c] = "here"
SomeCall(c) ==
    /\ Call(c)
    /\ TwoThreads
    /\ c = 4 \/ (\E d \in UnderWay : stream'[d] = t) => ReadsOnly
    /\ (\E d \in UnderWay : stream'[d] = t) => (\E d \in UnderWay : stream'[d] = s)

SomeNext ==
    \/ \E c \in Calls : SomeCall(c) \/ Step(c) \/ Attach(c) \/ Return(c)
    \/ Close \/ TimeOut

SomeCalls == Init /\ [][SomeNext]_vars /\ Fairness
=============================================================================
