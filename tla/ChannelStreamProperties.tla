----------------------- MODULE ChannelStreamProperties -----------------------
(***************************************************************************)
(* What the stream bridge promises its consumer, its reader and the         *)
(* process, as properties of ChannelStream.                                 *)
(***************************************************************************)
EXTENDS ChannelStream

(* The types of the state: every variable of the bridge stays in its range. *)
TypeOK ==
    /\ stream \in [Streams -> {"live", "dropped"}]
    /\ requested \in [Streams -> BOOLEAN]
    /\ delivered \in [Streams -> Seq(Nat)]
    /\ outcome \in [Streams -> {"open", "end", "raised"}]
    /\ demand \in [Streams -> Nat]
    /\ chan \in [Streams -> Seq(Nat)]
    /\ slot \in [Streams -> BOOLEAN]
    /\ co \in [Streams -> AwaitPoints \cup Gone \cup {"credit", "dispatch"}]
    /\ host \in [Streams -> {"none", "affine", "pool"}]
    /\ affineFree \in Nat
    /\ spec \in [Streams -> SUBSET SpecPermits]
    /\ specFree \in SUBSET SpecPermits
    /\ thr \in [Streams -> InRound \cup {"none", "idle", "queued", "exiting", "exited"}]
    /\ done \in [Streams -> {"none", "more", "over", "panic", "cancelled"}]
    /\ reader \in [Streams -> Destroyed \cup {"future", "guard", "host", "output"}]
    /\ pulls \in [Streams -> Nat]
    /\ last \in [Streams -> {"unread", "ok", "err", "none", "panic"}]
    /\ late \in [Streams -> Nat]
    /\ rt \in {"up", "down"}

-----------------------------------------------------------------------------
(* What the consumer is promised.                                           *)

(* Batches the reader has handed over so far.                               *)
Yielded(s) ==
    IF thr[s] \in {"pulling", "stuck"} \/ last[s] \in {"err", "none", "panic"}
    THEN pulls[s] - 1 ELSE pulls[s]

(* Items in the order the consumer sees them: what it got, then the queue.  *)
Arrived(s) == delivered[s] \o chan[s]

(* Across rounds, hosts, crashes and cancellation the consumer receives     *)
(* exactly the reader's batches, in order, none lost and none twice; an     *)
(* error is the last item, and only a failed reader produces one            *)
(* (drain_batches, and the channel between it and the consumer).            *)
InOrder ==
    \A s \in Streams : \A i \in 1..Len(Arrived(s)) :
        \/ Arrived(s)[i] = i
        \/ Arrived(s)[i] = Error /\ i = Len(Arrived(s)) /\ last[s] = "err"

(* A stream that ends without an error has delivered everything the reader  *)
(* had: neither a panic, a cancelled round, a lost pull thread nor the      *)
(* runtime's shutdown is reported as a normal end (PullHost::round treats a *)
(* thread that is gone as the end of the stream).                           *)
NoSilentTruncation ==
    \A s \in Streams : outcome[s] = "end" =>
        \/ last[s] = "none" /\ Len(delivered[s]) = Yielded(s)
        \/ last[s] = "err" /\ delivered[s] # <<>>
                           /\ delivered[s][Len(delivered[s])] = Error

(* The bridge implements the stream it is meant to be (BatchStream): its    *)
(* rounds, hosts, channel and budgets are invisible to the consumer.        *)
Abstract == INSTANCE BatchStream WITH
    yielded <- [s \in Streams |-> Yielded(s)],
    fate <- [s \in Streams |-> IF last[s] \in {"unread", "ok"} THEN "open" ELSE last[s]]

(* Every behaviour of the bridge is one of the abstract stream: in-order    *)
(* delivery, one final error, no premature end, and no stream cut short but *)
(* by a panic or a shutdown.                                                *)
IsBatchStream == Abstract!Spec

(* A consumer whose poll is pending is answered, unless it gives the stream *)
(* up, its own reader never returns, or no pool thread is left for it.      *)
PollIsAnswered ==
    \A s \in Streams :
        (Polling(s) /\ requested[s]) ~>
            \/ ~requested[s]
            \/ outcome[s] # "open"
            \/ stream[s] = "dropped"
            \/ thr[s] = "stuck"
            \/ Cardinality({t \in PoolBusy : thr[t] = "stuck"}) >= PoolThreads

-----------------------------------------------------------------------------
(* What the reader is promised: the contract of BatchPull.                  *)

(* Under ReadAhead::OnDemand the reader is entered once for every batch the *)
(* consumer has polled for and never more, whatever was polled, delivered   *)
(* or abandoned in between (ReadAhead::OnDemand, DemandStream::requested).  *)
OnDemandExact == \A s \in OnDemand : pulls[s] <= Asked(s)

(* Read-ahead never exceeds the channel: the batches pulled and not yet     *)
(* consumed, the pull in progress included, fit in it (CHANNEL_CAPACITY).   *)
BoundedReadAhead ==
    \A s \in Streams :
        /\ SlotsUsed(s) <= Capacity
        /\ stream[s] = "live" => pulls[s] <= Len(delivered[s]) + Capacity

(* The reader is called again only after Some(Ok(_)), and only while it     *)
(* exists and the worker of the round owns it: never past an error, an end  *)
(* or a panic, nor after it was destroyed or handed back (BatchPull).       *)
PullContract ==
    [][\A s \in Streams : pulls'[s] # pulls[s] =>
            last[s] \in {"unread", "ok"} /\ reader[s] = "host"]_vars

(* After the stream is dropped the reader is entered at most once more: by  *)
(* a round dispatched, or a credit taken, while the drop was under way.     *)
AtMostOnePullAfterDrop == \A s \in Streams : late[s] <= 1

(* A reader that got its own thread stays there until the thread destroys   *)
(* it, also when the coordinator is aborted or the runtime goes down        *)
(* (PullHost::Affine); a destroyed reader is not being called.              *)
ReaderStaysOnItsThread ==
    \A s \in Streams :
        /\ host[s] = "affine" => reader[s] \in {"host", "thread"}
        /\ reader[s] \in Destroyed => thr[s] \notin InRound \cup {"queued"}

-----------------------------------------------------------------------------
(* What the process is promised: the two budgets and the threads.           *)

(* Every speculation permit is free or held by exactly one stream, and a    *)
(* stream holds one only between taking a credit and the end of the round   *)
(* it pays for: no abort, panic, cancellation or closed channel leaks one   *)
(* or returns it twice (Credit::Speculative).                               *)
SpeculationConserved ==
    /\ specFree \cup UNION {spec[s] : s \in Streams} = SpecPermits
    /\ \A s \in Streams : /\ spec[s] \cap specFree = {}
                          /\ \A t \in Streams \ {s} : spec[s] \cap spec[t] = {}
                          /\ spec[s] # {} => \/ co[s] \in {"reserve", "dispatch"}
                                             \/ thr[s] \in InRound \cup {"queued"}

(* The affine budget counts live pull threads: a permit is out exactly for  *)
(* the streams whose thread has not exited (AFFINE_THREAD_BUDGET).          *)
AffineConserved ==
    affineFree + Cardinality({s \in Streams : HoldsThread(s)}) = AffineBudget

(* Everything a dropped stream held is given back: its coordinator is gone, *)
(* its thread has exited, its permits are free and the reader is destroyed; *)
(* only a pull that never returns, or a full pool, prevents it.             *)
DropReleases ==
    \A s \in Streams :
        stream[s] = "dropped" ~>
            \/ /\ co[s] \in Gone
               /\ spec[s] = {}
               /\ ~HoldsThread(s)
               /\ reader[s] \in Destroyed
            \/ thr[s] = "stuck"
            \/ Cardinality({t \in PoolBusy : thr[t] = "stuck"}) >= PoolThreads

-----------------------------------------------------------------------------
(* What comments of the source claim, and the code does not keep.           *)

(* SPECULATION_BUDGET: pulls nobody asked for strand "at most this many     *)
(* threads".                                                                *)
StrandedWithinBudget ==
    Cardinality({s \in Streams : thr[s] = "stuck" /\ pulls[s] > Asked(s)})
        <= Cardinality(SpecPermits)

(* PullGuard: it "guarantees the closure is destroyed on the blocking       *)
(* pool", never on an async worker, while there is a runtime.               *)
DestroyedOffTheWorkers ==
    rt = "up" => \A s \in Streams : reader[s] # "worker"
=============================================================================
