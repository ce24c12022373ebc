----------------------------- MODULE BatchStream -----------------------------
(***************************************************************************)
(* What spawn_channel_stream promises, with no coordinator, thread, channel *)
(* or budget: a reader yields batches 1, 2, ... and then ends, fails or     *)
(* panics; the consumer receives them in order, then the error if there is  *)
(* one, and learns the end of the stream only when it has everything.       *)
(* Nothing but a panic or the runtime's shutdown cuts a stream short.       *)
(***************************************************************************)
EXTENDS Naturals, Sequences

CONSTANTS Streams, Error

VARIABLES
    yielded,    \* batches the reader has handed over
    fate,       \* how the reader finished, "open" until it does
    stream,     \* whether the consumer still holds the stream
    delivered,  \* the items the consumer has received
    outcome,    \* how the stream finished for the consumer
    rt          \* whether the runtime is up

vars == <<yielded, fate, stream, delivered, outcome, rt>>

Init ==
    /\ yielded   = [s \in Streams |-> 0]
    /\ fate      = [s \in Streams |-> "open"]
    /\ stream    = [s \in Streams |-> "live"]
    /\ delivered = [s \in Streams |-> <<>>]
    /\ outcome   = [s \in Streams |-> "open"]
    /\ rt        = "up"

Failed(s) == delivered[s] # <<>> /\ delivered[s][Len(delivered[s])] = Error

Yield(s) ==
    /\ fate[s] = "open"
    /\ yielded' = [yielded EXCEPT ![s] = @ + 1]
    /\ UNCHANGED <<fate, stream, delivered, outcome, rt>>

Finish(s) ==
    /\ fate[s] = "open"
    /\ \E f \in {"none", "err", "panic"} : fate' = [fate EXCEPT ![s] = f]
    /\ UNCHANGED <<yielded, stream, delivered, outcome, rt>>

Receive(s, item) ==
    /\ stream[s] = "live"
    /\ outcome[s] = "open"
    /\ delivered' = [delivered EXCEPT ![s] = Append(@, item)]
    /\ UNCHANGED <<yielded, fate, stream, outcome, rt>>

(* The next batch in order.                                                 *)
Deliver(s) ==
    /\ ~Failed(s)
    /\ Len(delivered[s]) < yielded[s]
    /\ Receive(s, Len(delivered[s]) + 1)

(* The reader's error, once, after every batch before it.                   *)
DeliverError(s) ==
    /\ ~Failed(s)
    /\ fate[s] = "err"
    /\ Len(delivered[s]) = yielded[s]
    /\ Receive(s, Error)

Close(s, how) ==
    /\ stream[s] = "live"
    /\ outcome[s] = "open"
    /\ outcome' = [outcome EXCEPT ![s] = how]
    /\ UNCHANGED <<yielded, fate, stream, delivered, rt>>

End(s) ==
    /\ \/ fate[s] = "none" /\ Len(delivered[s]) = yielded[s]
       \/ fate[s] = "err" /\ Failed(s)
    /\ Close(s, "end")

Raise(s) ==
    /\ fate[s] = "panic" \/ rt = "down"
    /\ Close(s, "raised")

Cancel(s) ==
    /\ stream[s] = "live"
    /\ stream' = [stream EXCEPT ![s] = "dropped"]
    /\ UNCHANGED <<yielded, fate, delivered, outcome, rt>>

Shutdown ==
    /\ rt' = "down"
    /\ UNCHANGED <<yielded, fate, stream, delivered, outcome>>

Next ==
    \/ Shutdown
    \/ \E s \in Streams : \/ Yield(s) \/ Finish(s)
                          \/ Deliver(s) \/ DeliverError(s)
                          \/ End(s) \/ Raise(s) \/ Cancel(s)

Spec == Init /\ [][Next]_vars
=============================================================================
