-------------------------- MODULE ChannelStreamProofs --------------------------
(***************************************************************************)
(* Proofs, for any number of streams, any capacity and any budgets, of the  *)
(* safety properties of the stream bridge: who owns the closure, the        *)
(* credits and the threads; then what the consumer receives, in order and   *)
(* once; then that the bridge implements the abstract BatchStream.          *)
(***************************************************************************)
EXTENDS ChannelStreamProperties, FiniteSetTheorems, SequenceTheorems, TLAPS

-----------------------------------------------------------------------------
(* What the steps that drop the coordinator's locals do.                    *)

Place == Destroyed \cup {"future", "guard", "host", "output"}

(* Leave sets the coordinator's state; the closure it owned is destroyed on *)
(* the pool or on a worker, and one it does not own stays where it is.      *)
LEMMA LeaveEffect ==
  ASSUME NEW s \in Streams, NEW state, NEW owner \in Place, Leave(s, state, owner)
  PROVE  /\ co' = Update(co, s, state)
         /\ \E place \in Place :
              /\ reader' = Update(reader, s, place)
              /\ owner \in Destroyed \cup {"host"} => place = owner
              /\ owner \in {"future", "guard", "output"} => place \in {"pool", "worker"}
<1>1. PICK place \in DroppedFrom(owner) : reader' = Update(reader, s, place)
  BY DEF Leave
<1>2. /\ place \in Place
      /\ owner \in Destroyed \cup {"host"} => place = owner
      /\ owner \in {"future", "guard", "output"} => place \in {"pool", "worker"}
  BY <1>1 DEF DroppedFrom, Place, Destroyed
<1> QED
  BY <1>1, <1>2 DEF Leave

(* Abort and ReserveClosed leave with the closure they own.                 *)
LEMMA AbortEffect ==
  ASSUME TypeOK, NEW s \in Streams, Abort(s)
  PROVE  /\ co[s] \in AwaitPoints
         /\ stream[s] = "dropped" \/ rt = "down"
         /\ co' = Update(co, s, "aborted")
         /\ \E place \in Place :
              /\ reader' = Update(reader, s, place)
              /\ reader[s] \in Destroyed \cup {"host"} => place = reader[s]
              /\ reader[s] \in {"future", "guard", "output"} => place \in {"pool", "worker"}
         /\ done' = Update(done, s, "none")
         /\ co[s] = "reserve" => ReleaseCredit(s)
         /\ co[s] # "reserve" => UNCHANGED creditVars
         /\ UNCHANGED <<consumerVars, wireVars, host, affineFree, workVars, rt>>
<1>1. reader[s] \in Place
  BY DEF TypeOK, Place
<1> QED
  BY <1>1, LeaveEffect DEF Abort

LEMMA ReserveClosedEffect ==
  ASSUME TypeOK, NEW s \in Streams, ReserveClosed(s)
  PROVE  /\ co[s] = "reserve" /\ stream[s] = "dropped"
         /\ co' = Update(co, s, "ended")
         /\ \E place \in Place :
              /\ reader' = Update(reader, s, place)
              /\ reader[s] \in Destroyed \cup {"host"} => place = reader[s]
              /\ reader[s] \in {"future", "guard", "output"} => place \in {"pool", "worker"}
         /\ ReleaseCredit(s)
         /\ UNCHANGED <<consumerVars, wireVars, host, affineFree, workVars, done, rt>>
<1>1. reader[s] \in Place
  BY DEF TypeOK, Place
<1> QED
  BY <1>1, LeaveEffect DEF ReserveClosed

(* RoundDone resumes the loop on "more", with the closure of a pool round   *)
(* back in the guard, and otherwise leaves in the state of the result.      *)
LEMMA RoundDoneEffect ==
  ASSUME TypeOK, NEW s \in Streams, RoundDone(s)
  PROVE  /\ co[s] = "round"
         /\ done[s] \in {"more", "over", "panic", "cancelled"}
         /\ done' = Update(done, s, "none")
         /\ \E state \in Gone \cup {"credit"}, place \in Place :
              /\ co' = Update(co, s, state)
              /\ reader' = Update(reader, s, place)
              /\ done[s] = "more" <=> state = "credit"
              /\ done[s] = "over" <=> state = "ended"
              /\ done[s] = "panic" <=> state = "panicked"
              /\ done[s] = "cancelled" <=> state = "failed"
              /\ reader[s] \in Destroyed \cup {"host"} => place = reader[s]
              /\ state = "credit" /\ reader[s] = "output" => place = "guard"
              /\ state # "credit" /\ reader[s] \notin Destroyed \cup {"host"}
                    => place \in {"pool", "worker"}
         /\ UNCHANGED <<consumerVars, wireVars, host, affineFree, creditVars, workVars, rt>>
<1> DEFINE owner == IF reader[s] = "output" THEN "guard" ELSE reader[s]
<1> DEFINE Effect(state, place) ==
              /\ co' = Update(co, s, state)
              /\ reader' = Update(reader, s, place)
              /\ done[s] = "more" <=> state = "credit"
              /\ done[s] = "over" <=> state = "ended"
              /\ done[s] = "panic" <=> state = "panicked"
              /\ done[s] = "cancelled" <=> state = "failed"
              /\ reader[s] \in Destroyed \cup {"host"} => place = reader[s]
              /\ state = "credit" /\ reader[s] = "output" => place = "guard"
              /\ state # "credit" /\ reader[s] \notin Destroyed \cup {"host"}
                    => place \in {"pool", "worker"}
<1>1. /\ owner \in Place
      /\ reader[s] = "output" => owner = "guard"
      /\ reader[s] # "output" => owner = reader[s]
  BY DEF TypeOK, Place
<1>2. /\ co[s] = "round"
      /\ done[s] \in {"more", "over", "panic", "cancelled"}
      /\ done' = Update(done, s, "none")
      /\ UNCHANGED <<consumerVars, wireVars, host, affineFree, creditVars, workVars, rt>>
  BY DEF RoundDone, TypeOK
<1>3. CASE done[s] = "more"
  <2>1. co' = Update(co, s, "credit") /\ reader' = Update(reader, s, owner)
    BY <1>3 DEF RoundDone
  <2> HIDE DEF owner
  <2>2. Effect("credit", owner)
    BY <1>1, <1>2, <1>3, <2>1 DEF Destroyed
  <2> HIDE DEF Effect
  <2>3. \E state \in Gone \cup {"credit"}, place \in Place : Effect(state, place)
    BY <1>1, <2>2
  <2> QED
    BY <1>2, <2>3 DEF Effect
<1>4. CASE done[s] # "more"
  <2>1. Leave(s, FinalState(done[s]), owner)
    BY <1>4 DEF RoundDone
  <2> HIDE DEF owner
  <2>2. PICK place \in Place :
          /\ reader' = Update(reader, s, place)
          /\ owner \in Destroyed \cup {"host"} => place = owner
          /\ owner \in {"future", "guard", "output"} => place \in {"pool", "worker"}
    BY <1>1, <2>1, LeaveEffect
  <2>3. co' = Update(co, s, FinalState(done[s]))
    BY <1>1, <2>1, LeaveEffect
  <2>4. /\ FinalState(done[s]) \in Gone
        /\ done[s] = "over" <=> FinalState(done[s]) = "ended"
        /\ done[s] = "panic" <=> FinalState(done[s]) = "panicked"
        /\ done[s] = "cancelled" <=> FinalState(done[s]) = "failed"
    BY <1>2, <1>4 DEF FinalState, Gone
  <2>5. /\ reader[s] \in Destroyed \cup {"host"} => place = reader[s]
        /\ reader[s] \notin Destroyed \cup {"host"} => place \in {"pool", "worker"}
    BY <1>1, <2>2 DEF Place, Destroyed
  <2>6. Effect(FinalState(done[s]), place)
    BY <1>2, <1>4, <2>2, <2>3, <2>4, <2>5 DEF Gone
  <2> HIDE DEF Effect
  <2>7. \E state \in Gone \cup {"credit"}, pl \in Place : Effect(state, pl)
    BY <2>2, <2>4, <2>6
  <2> QED
    BY <1>2, <2>7 DEF Effect
<1> QED
  BY <1>3, <1>4


-----------------------------------------------------------------------------
(* Every step keeps the types.                                              *)
LEMMA TypeOKNext == TypeOK /\ [Next]_vars => TypeOK'
<1> SUFFICES ASSUME TypeOK, [Next]_vars PROVE TypeOK'
  OBVIOUS
<1> USE DEF TypeOK, AwaitPoints, Gone, InRound, Destroyed, Update, consumerVars, wireVars, creditVars, workVars
<1>1. ASSUME NEW s \in Streams, PollRequest(s) PROVE TypeOK'
  BY <1>1 DEF PollRequest, Polling
<1>2. ASSUME NEW s \in Streams, PollBatch(s) PROVE TypeOK'
  BY <1>2, SMTT(60) DEF PollBatch, Polling
<1>3. ASSUME NEW s \in Streams, PollEnd(s) PROVE TypeOK'
  BY <1>3 DEF PollEnd, Polling
<1>4. ASSUME NEW s \in Streams, PollRaise(s) PROVE TypeOK'
  BY <1>4 DEF PollRaise, Polling
<1>5. ASSUME NEW s \in Streams, DropStream(s) PROVE TypeOK'
  BY <1>5 DEF DropStream
<1>6. ASSUME NEW s \in Streams, StartAffine(s) PROVE TypeOK'
  BY <1>6 DEF StartAffine
<1>7. ASSUME NEW s \in Streams, StartPool(s) PROVE TypeOK'
  BY <1>7 DEF StartPool
<1>8. ASSUME NEW s \in Streams, TakeDemand(s) PROVE TypeOK'
  BY <1>8 DEF TakeDemand
<1>9. ASSUME NEW s \in Streams, Speculate(s) PROVE TypeOK'
  BY <1>9 DEF Speculate, TrySpeculate
<1>10. ASSUME NEW s \in Streams, Park(s) PROVE TypeOK'
  BY <1>10 DEF Park, CanSpeculate
<1>11. ASSUME NEW s \in Streams, Reserve(s) PROVE TypeOK'
  BY <1>11 DEF Reserve, FreeSlot
<1>12. ASSUME NEW s \in Streams, ReserveClosed(s) PROVE TypeOK'
  <2>1. /\ co[s] = "reserve" /\ stream[s] = "dropped"
        /\ co' = Update(co, s, "ended")
        /\ ReleaseCredit(s)
        /\ UNCHANGED <<consumerVars, wireVars, host, affineFree, workVars, done, rt>>
    BY <1>12, ReserveClosedEffect
  <2>2. PICK place \in Place :
          /\ reader' = Update(reader, s, place)
          /\ reader[s] \in Destroyed \cup {"host"} => place = reader[s]
          /\ reader[s] \in {"future", "guard", "output"} => place \in {"pool", "worker"}
    BY <1>12, ReserveClosedEffect
  <2> QED
    BY <2>1, <2>2 DEF ReleaseCredit, Place
<1>13. ASSUME NEW s \in Streams, DispatchAffine(s) PROVE TypeOK'
  <2>1. CASE thr[s] = "idle"
    BY <1>13, <2>1, ZenonT(60) DEF DispatchAffine
  <2>2. CASE thr[s] # "idle"
    <3>1. /\ co[s] = "dispatch" /\ host[s] = "affine"
          /\ co' = Update(co, s, "ended")
          /\ slot' = Update(slot, s, FALSE)
          /\ ReleaseCredit(s)
          /\ UNCHANGED <<consumerVars, demand, chan, host, affineFree, done, reader,
                         thr, pulls, last, late, rt>>
      BY <1>13, <2>2 DEF DispatchAffine
    <3> QED
      BY <2>2, <3>1 DEF ReleaseCredit
  <2> QED
    BY <2>1, <2>2
<1>14. ASSUME NEW s \in Streams, DispatchPool(s) PROVE TypeOK'
  BY <1>14 DEF DispatchPool
<1>15. ASSUME NEW s \in Streams, DispatchRefused(s) PROVE TypeOK'
  BY <1>15 DEF DispatchRefused, ReleaseCredit
<1>16. ASSUME NEW s \in Streams, RoundDone(s) PROVE TypeOK'
  <2>1. /\ co[s] = "round"
        /\ done[s] \in {"more", "over", "panic", "cancelled"}
        /\ done' = Update(done, s, "none")
        /\ UNCHANGED <<consumerVars, wireVars, host, affineFree, creditVars, workVars, rt>>
    BY <1>16, RoundDoneEffect
  <2>2. PICK state \in Gone \cup {"credit"}, place \in Place :
          /\ co' = Update(co, s, state)
          /\ reader' = Update(reader, s, place)
          /\ done[s] = "more" <=> state = "credit"
          /\ done[s] = "over" <=> state = "ended"
          /\ done[s] = "panic" <=> state = "panicked"
          /\ done[s] = "cancelled" <=> state = "failed"
          /\ reader[s] \in Destroyed \cup {"host"} => place = reader[s]
          /\ state = "credit" /\ reader[s] = "output" => place = "guard"
          /\ state # "credit" /\ reader[s] \notin Destroyed \cup {"host"}
                => place \in {"pool", "worker"}
    BY <1>16, RoundDoneEffect
  <2> QED
    BY <2>1, <2>2 DEF Place
<1>17. ASSUME NEW s \in Streams, Abort(s) PROVE TypeOK'
  <2>1. /\ co[s] \in AwaitPoints
        /\ stream[s] = "dropped" \/ rt = "down"
        /\ co' = Update(co, s, "aborted")
        /\ done' = Update(done, s, "none")
        /\ co[s] = "reserve" => ReleaseCredit(s)
        /\ co[s] # "reserve" => UNCHANGED creditVars
        /\ UNCHANGED <<consumerVars, wireVars, host, affineFree, workVars, rt>>
    BY <1>17, AbortEffect
  <2>2. PICK place \in Place :
          /\ reader' = Update(reader, s, place)
          /\ reader[s] \in Destroyed \cup {"host"} => place = reader[s]
          /\ reader[s] \in {"future", "guard", "output"} => place \in {"pool", "worker"}
    BY <1>17, AbortEffect
  <2>3. CASE co[s] = "reserve"
    BY <2>1, <2>2, <2>3, ZenonT(60) DEF ReleaseCredit, Place
  <2>4. CASE co[s] # "reserve"
    BY <2>1, <2>2, <2>4 DEF Place
  <2> QED
    BY <2>3, <2>4
<1>18. ASSUME NEW s \in Streams, BeginRound(s) PROVE TypeOK'
  BY <1>18, SMTT(60) DEF BeginRound, Enter
<1>19. ASSUME NEW s \in Streams, PullBatch(s) PROVE TypeOK'
  BY <1>19 DEF PullBatch, Return, Send
<1>20. ASSUME NEW s \in Streams, PullFails(s) PROVE TypeOK'
  BY <1>20 DEF PullFails, Return, Send, Error
<1>21. ASSUME NEW s \in Streams, PullNone(s) PROVE TypeOK'
  BY <1>21 DEF PullNone, Return
<1>22. ASSUME NEW s \in Streams, PullPanics(s) PROVE TypeOK'
  BY <1>22 DEF PullPanics, Return
<1>23. ASSUME NEW s \in Streams, PullHangs(s) PROVE TypeOK'
  BY <1>23 DEF PullHangs
<1>24. ASSUME NEW s \in Streams, TryReserve(s) PROVE TypeOK'
  <2>1. CASE FreeSlot(s)
    BY <1>24, <2>1, ZenonT(60) DEF TryReserve
  <2>2. CASE ~FreeSlot(s)
    BY <1>24, <2>2, ZenonT(60) DEF TryReserve
  <2> QED
    BY <2>1, <2>2
<1>25. ASSUME NEW s \in Streams, ContinueOnDemand(s) PROVE TypeOK'
  BY <1>25, SMTT(60) DEF ContinueOnDemand, Enter
<1>26. ASSUME NEW s \in Streams, ContinueSpeculatively(s) PROVE TypeOK'
  BY <1>26 DEF ContinueSpeculatively, TrySpeculate, Enter
<1>27. ASSUME NEW s \in Streams, OutOfCredit(s) PROVE TypeOK'
  BY <1>27 DEF OutOfCredit, CanSpeculate
<1>28. ASSUME NEW s \in Streams, ReportAffine(s) PROVE TypeOK'
  BY <1>28 DEF ReportAffine, ReleaseCredit, Publish
<1>29. ASSUME NEW s \in Streams, ReportPool(s) PROVE TypeOK'
  BY <1>29 DEF ReportPool, ReleaseCredit, Publish
<1>30. ASSUME NEW s \in Streams, CancelQueued(s) PROVE TypeOK'
  BY <1>30 DEF CancelQueued, ReleaseCredit
<1>31. ASSUME NEW s \in Streams, AffineExit(s) PROVE TypeOK'
  BY <1>31 DEF AffineExit
<1>32. CASE Shutdown
  BY <1>32 DEF Shutdown
<1>33. CASE UNCHANGED vars
  BY <1>33 DEF vars
<1> QED
  BY <1>1, <1>2, <1>3, <1>4, <1>5, <1>6, <1>7, <1>8, <1>9, <1>10,
     <1>11, <1>12, <1>13, <1>14, <1>15, <1>16, <1>17, <1>18, <1>19, <1>20, <1>21,
     <1>22, <1>23, <1>24, <1>25, <1>26, <1>27, <1>28, <1>29, <1>30, <1>31, <1>32, <1>33
     DEF Next, Consumer, Answer, Coordinator, Worker

(* Type correctness of the bridge, for any streams and any bounds.          *)
THEOREM TypeCorrect == Spec => []TypeOK
<1>1. Init => TypeOK
  BY BoundsAssumption DEF Init, TypeOK, AwaitPoints, Gone, InRound, Destroyed
<1> QED
  BY <1>1, TypeOKNext, PTL DEF Spec

-----------------------------------------------------------------------------
(* The inductive invariant.  One part for each thing the properties rest    *)
(* on; every part is a statement about a single stream.                     *)

Looping == {"credit", "park", "reserve", "dispatch"}

(* Who runs: a coordinator in its loop has no round under way, a result is  *)
(* pending only while it is awaited, and each host has its own kind of      *)
(* worker.                                                                  *)
Control(s) ==
    /\ co[s] = "spawned" => host[s] = "none"
    /\ host[s] = "none" => co[s] \in {"spawned", "aborted"} /\ thr[s] = "none"
    /\ host[s] = "affine" => thr[s] # "none"
    /\ host[s] = "pool" => thr[s] \notin {"idle", "exiting", "exited"}
    /\ co[s] \in Looping => thr[s] \in {"none", "idle"} /\ done[s] = "none"
    /\ done[s] # "none" => co[s] = "round" /\ thr[s] \in {"none", "idle", "exiting", "exited"}
    /\ done[s] = "more" => thr[s] \in {"none", "idle"}

(* Who holds the channel slot.                                              *)
Slotted(s) ==
    slot[s] <=> co[s] = "dispatch" \/ thr[s] \in {"queued", "pulling", "stuck", "slot"}

(* What the last pull returned decides what can still happen.               *)
Results(s) ==
    /\ last[s] \in {"err", "none", "panic"} =>
         /\ thr[s] \notin {"queued", "pulling", "stuck", "sent", "slot", "more"}
         /\ co[s] \notin Looping \cup {"spawned"}
         /\ done[s] # "more"
    /\ thr[s] = "over" \/ done[s] = "over" => last[s] \in {"err", "none"}
    /\ thr[s] = "panic" \/ done[s] = "panic" => last[s] = "panic"
    /\ done[s] = "cancelled" => rt = "down"
    /\ co[s] = "ended" => stream[s] = "dropped" \/ last[s] \in {"err", "none"}
    /\ co[s] = "panicked" => last[s] = "panic"
    /\ co[s] \in {"failed", "aborted"} => stream[s] = "dropped" \/ rt = "down"

(* Who owns the closure.                                                    *)
Owned(s) ==
    /\ host[s] = "affine" => reader[s] \in {"host", "thread"}
    /\ host[s] = "affine" => (reader[s] = "thread" <=> thr[s] = "exited")
    /\ thr[s] \in InRound \cup {"queued"} => reader[s] = "host"

(* A pull that follows the drop was paid for before it.                     *)
DropPart(s) ==
    /\ stream[s] = "live" => late[s] = 0
    /\ late[s] <= 1
    /\ late[s] = 1 => co[s] # "dispatch" /\ thr[s] \notin {"queued", "slot"}

(* Under OnDemand every pull, the one being arranged included, and every    *)
(* unused permit stands for a poll.                                         *)
DemandPart(s) ==
    s \in OnDemand =>
        /\ spec[s] = {}
        /\ pulls[s] + demand[s]
             + (IF co[s] \in {"reserve", "dispatch"} \/ thr[s] = "queued" THEN 1 ELSE 0)
           <= Asked(s)

ControlInv == \A t \in Streams : Control(t)

(* While a round is queued or running its coordinator awaits it or is gone. *)
LEMMA Busy ==
  ASSUME TypeOK, NEW s \in Streams, Control(s), thr[s] \in InRound \cup {"queued"}
  PROVE  co[s] \notin Looping \cup {"spawned"} /\ done[s] = "none"
BY DEF TypeOK, Control, Looping, InRound

(* Every step keeps Control.                                                *)
LEMMA ControlNext ==
  ASSUME TypeOK, ControlInv, [Next]_vars
  PROVE  \A t \in Streams : Control(t)'
<1> TAKE t \in Streams
<1> USE DEF ControlInv, Control, Looping, TypeOK, AwaitPoints, Gone, InRound, Destroyed, Update, consumerVars, wireVars, creditVars, workVars
<1>1. ASSUME NEW s \in Streams, PollRequest(s) PROVE Control(t)'
  BY <1>1 DEF PollRequest, Polling
<1>2. ASSUME NEW s \in Streams, PollBatch(s) PROVE Control(t)'
  BY <1>2 DEF PollBatch, Polling
<1>3. ASSUME NEW s \in Streams, PollEnd(s) PROVE Control(t)'
  BY <1>3 DEF PollEnd, Polling
<1>4. ASSUME NEW s \in Streams, PollRaise(s) PROVE Control(t)'
  BY <1>4 DEF PollRaise, Polling
<1>5. ASSUME NEW s \in Streams, DropStream(s) PROVE Control(t)'
  BY <1>5 DEF DropStream
<1>6. ASSUME NEW s \in Streams, StartAffine(s) PROVE Control(t)'
  BY <1>6 DEF StartAffine
<1>7. ASSUME NEW s \in Streams, StartPool(s) PROVE Control(t)'
  BY <1>7 DEF StartPool
<1>8. ASSUME NEW s \in Streams, TakeDemand(s) PROVE Control(t)'
  BY <1>8 DEF TakeDemand
<1>9. ASSUME NEW s \in Streams, Speculate(s) PROVE Control(t)'
  BY <1>9 DEF Speculate, TrySpeculate
<1>10. ASSUME NEW s \in Streams, Park(s) PROVE Control(t)'
  BY <1>10 DEF Park, CanSpeculate
<1>11. ASSUME NEW s \in Streams, Reserve(s) PROVE Control(t)'
  BY <1>11 DEF Reserve, FreeSlot
<1>12. ASSUME NEW s \in Streams, ReserveClosed(s) PROVE Control(t)'
  <2>1. /\ co[s] = "reserve" /\ stream[s] = "dropped"
        /\ co' = Update(co, s, "ended")
        /\ ReleaseCredit(s)
        /\ UNCHANGED <<consumerVars, wireVars, host, affineFree, workVars, done, rt>>
    BY <1>12, ReserveClosedEffect
  <2>2. PICK place \in Place :
          /\ reader' = Update(reader, s, place)
          /\ reader[s] \in Destroyed \cup {"host"} => place = reader[s]
          /\ reader[s] \in {"future", "guard", "output"} => place \in {"pool", "worker"}
    BY <1>12, ReserveClosedEffect
  <2> QED
    BY <2>1, <2>2 DEF ReleaseCredit, Place
<1>13. ASSUME NEW s \in Streams, DispatchAffine(s) PROVE Control(t)'
  <2>1. CASE thr[s] = "idle"
    BY <1>13, <2>1 DEF DispatchAffine
  <2>2. CASE thr[s] # "idle"
    <3>1. /\ co[s] = "dispatch" /\ host[s] = "affine"
          /\ co' = Update(co, s, "ended")
          /\ slot' = Update(slot, s, FALSE)
          /\ ReleaseCredit(s)
          /\ UNCHANGED <<consumerVars, demand, chan, host, affineFree, done, reader,
                         thr, pulls, last, late, rt>>
      BY <1>13, <2>2 DEF DispatchAffine
    <3> QED
      BY <2>2, <3>1 DEF ReleaseCredit
  <2> QED
    BY <2>1, <2>2
<1>14. ASSUME NEW s \in Streams, DispatchPool(s) PROVE Control(t)'
  BY <1>14 DEF DispatchPool
<1>15. ASSUME NEW s \in Streams, DispatchRefused(s) PROVE Control(t)'
  BY <1>15 DEF DispatchRefused, ReleaseCredit
<1>16. ASSUME NEW s \in Streams, RoundDone(s) PROVE Control(t)'
  <2>1. /\ co[s] = "round"
        /\ done[s] \in {"more", "over", "panic", "cancelled"}
        /\ done' = Update(done, s, "none")
        /\ UNCHANGED <<consumerVars, wireVars, host, affineFree, creditVars, workVars, rt>>
    BY <1>16, RoundDoneEffect
  <2>2. PICK state \in Gone \cup {"credit"}, place \in Place :
          /\ co' = Update(co, s, state)
          /\ reader' = Update(reader, s, place)
          /\ done[s] = "more" <=> state = "credit"
          /\ done[s] = "over" <=> state = "ended"
          /\ done[s] = "panic" <=> state = "panicked"
          /\ done[s] = "cancelled" <=> state = "failed"
          /\ reader[s] \in Destroyed \cup {"host"} => place = reader[s]
          /\ state = "credit" /\ reader[s] = "output" => place = "guard"
          /\ state # "credit" /\ reader[s] \notin Destroyed \cup {"host"}
                => place \in {"pool", "worker"}
    BY <1>16, RoundDoneEffect
  <2> QED
    BY <2>1, <2>2 DEF Place
<1>17. ASSUME NEW s \in Streams, Abort(s) PROVE Control(t)'
  <2>1. /\ co[s] \in AwaitPoints
        /\ stream[s] = "dropped" \/ rt = "down"
        /\ co' = Update(co, s, "aborted")
        /\ done' = Update(done, s, "none")
        /\ co[s] = "reserve" => ReleaseCredit(s)
        /\ co[s] # "reserve" => UNCHANGED creditVars
        /\ UNCHANGED <<consumerVars, wireVars, host, affineFree, workVars, rt>>
    BY <1>17, AbortEffect
  <2>2. PICK place \in Place :
          /\ reader' = Update(reader, s, place)
          /\ reader[s] \in Destroyed \cup {"host"} => place = reader[s]
          /\ reader[s] \in {"future", "guard", "output"} => place \in {"pool", "worker"}
    BY <1>17, AbortEffect
  <2>3. CASE co[s] = "reserve"
    BY <2>1, <2>2, <2>3 DEF ReleaseCredit, Place
  <2>4. CASE co[s] # "reserve"
    BY <2>1, <2>2, <2>4 DEF Place
  <2> QED
    BY <2>3, <2>4
<1>18. ASSUME NEW s \in Streams, BeginRound(s) PROVE Control(t)'
  BY <1>18 DEF BeginRound, Enter
<1>19. ASSUME NEW s \in Streams, PullBatch(s) PROVE Control(t)'
  BY <1>19 DEF PullBatch, Return, Send
<1>20. ASSUME NEW s \in Streams, PullFails(s) PROVE Control(t)'
  BY <1>20 DEF PullFails, Return, Send, Error
<1>21. ASSUME NEW s \in Streams, PullNone(s) PROVE Control(t)'
  BY <1>21 DEF PullNone, Return
<1>22. ASSUME NEW s \in Streams, PullPanics(s) PROVE Control(t)'
  BY <1>22 DEF PullPanics, Return
<1>23. ASSUME NEW s \in Streams, PullHangs(s) PROVE Control(t)'
  BY <1>23 DEF PullHangs
<1>24. ASSUME NEW s \in Streams, TryReserve(s) PROVE Control(t)'
  <2>1. CASE FreeSlot(s)
    BY <1>24, <2>1 DEF TryReserve
  <2>2. CASE ~FreeSlot(s)
    BY <1>24, <2>2 DEF TryReserve
  <2> QED
    BY <2>1, <2>2
<1>25. ASSUME NEW s \in Streams, ContinueOnDemand(s) PROVE Control(t)'
  BY <1>25 DEF ContinueOnDemand, Enter
<1>26. ASSUME NEW s \in Streams, ContinueSpeculatively(s) PROVE Control(t)'
  BY <1>26 DEF ContinueSpeculatively, TrySpeculate, Enter
<1>27. ASSUME NEW s \in Streams, OutOfCredit(s) PROVE Control(t)'
  BY <1>27 DEF OutOfCredit, CanSpeculate
<1>28. ASSUME NEW s \in Streams, ReportAffine(s) PROVE Control(t)'
  BY <1>28 DEF ReportAffine, ReleaseCredit, Publish
<1>29. ASSUME NEW s \in Streams, ReportPool(s) PROVE Control(t)'
  BY <1>29 DEF ReportPool, ReleaseCredit, Publish
<1>30. ASSUME NEW s \in Streams, CancelQueued(s) PROVE Control(t)'
  BY <1>30 DEF CancelQueued, ReleaseCredit
<1>31. ASSUME NEW s \in Streams, AffineExit(s) PROVE Control(t)'
  BY <1>31 DEF AffineExit
<1>32. CASE Shutdown
  BY <1>32 DEF Shutdown
<1>33. CASE UNCHANGED vars
  BY <1>33 DEF vars
<1> QED
  BY <1>1, <1>2, <1>3, <1>4, <1>5, <1>6, <1>7, <1>8, <1>9, <1>10,
     <1>11, <1>12, <1>13, <1>14, <1>15, <1>16, <1>17, <1>18, <1>19, <1>20, <1>21,
     <1>22, <1>23, <1>24, <1>25, <1>26, <1>27, <1>28, <1>29, <1>30, <1>31, <1>32, <1>33
     DEF Next, Consumer, Answer, Coordinator, Worker

SlottedInv == \A t \in Streams : Slotted(t)

(* Every step keeps Slotted.                                                 *)
LEMMA SlottedNext ==
  ASSUME TypeOK, ControlInv, SlottedInv, [Next]_vars
  PROVE  \A t \in Streams : Slotted(t)'
<1> TAKE t \in Streams
<1> USE DEF SlottedInv, Slotted, ControlInv, Control, Looping, TypeOK, AwaitPoints, Gone, InRound, Destroyed, Update, consumerVars, wireVars, creditVars, workVars
<1>1. ASSUME NEW s \in Streams, PollRequest(s) PROVE Slotted(t)'
  BY <1>1 DEF PollRequest, Polling
<1>2. ASSUME NEW s \in Streams, PollBatch(s) PROVE Slotted(t)'
  BY <1>2 DEF PollBatch, Polling
<1>3. ASSUME NEW s \in Streams, PollEnd(s) PROVE Slotted(t)'
  BY <1>3 DEF PollEnd, Polling
<1>4. ASSUME NEW s \in Streams, PollRaise(s) PROVE Slotted(t)'
  BY <1>4 DEF PollRaise, Polling
<1>5. ASSUME NEW s \in Streams, DropStream(s) PROVE Slotted(t)'
  BY <1>5 DEF DropStream
<1>6. ASSUME NEW s \in Streams, StartAffine(s) PROVE Slotted(t)'
  BY <1>6 DEF StartAffine
<1>7. ASSUME NEW s \in Streams, StartPool(s) PROVE Slotted(t)'
  BY <1>7 DEF StartPool
<1>8. ASSUME NEW s \in Streams, TakeDemand(s) PROVE Slotted(t)'
  BY <1>8 DEF TakeDemand
<1>9. ASSUME NEW s \in Streams, Speculate(s) PROVE Slotted(t)'
  BY <1>9 DEF Speculate, TrySpeculate
<1>10. ASSUME NEW s \in Streams, Park(s) PROVE Slotted(t)'
  BY <1>10 DEF Park, CanSpeculate
<1>11. ASSUME NEW s \in Streams, Reserve(s) PROVE Slotted(t)'
  BY <1>11 DEF Reserve, FreeSlot
<1>12. ASSUME NEW s \in Streams, ReserveClosed(s) PROVE Slotted(t)'
  <2>1. /\ co[s] = "reserve" /\ stream[s] = "dropped"
        /\ co' = Update(co, s, "ended")
        /\ ReleaseCredit(s)
        /\ UNCHANGED <<consumerVars, wireVars, host, affineFree, workVars, done, rt>>
    BY <1>12, ReserveClosedEffect
  <2>2. PICK place \in Place :
          /\ reader' = Update(reader, s, place)
          /\ reader[s] \in Destroyed \cup {"host"} => place = reader[s]
          /\ reader[s] \in {"future", "guard", "output"} => place \in {"pool", "worker"}
    BY <1>12, ReserveClosedEffect
  <2> QED
    BY <2>1, <2>2 DEF ReleaseCredit, Place
<1>13. ASSUME NEW s \in Streams, DispatchAffine(s) PROVE Slotted(t)'
  <2>1. CASE thr[s] = "idle"
    <3>1. CASE t = s
      BY <1>13, <2>1, <3>1 DEF DispatchAffine
    <3>2. CASE t # s
      BY <1>13, <2>1, <3>2 DEF DispatchAffine
    <3> QED
      BY <3>1, <3>2
  <2>2. CASE thr[s] # "idle"
    <3>1. /\ co[s] = "dispatch" /\ host[s] = "affine"
          /\ co' = Update(co, s, "ended")
          /\ slot' = Update(slot, s, FALSE)
          /\ ReleaseCredit(s)
          /\ UNCHANGED <<consumerVars, demand, chan, host, affineFree, done, reader,
                         thr, pulls, last, late, rt>>
      BY <1>13, <2>2 DEF DispatchAffine
    <3> QED
      BY <2>2, <3>1 DEF ReleaseCredit
  <2> QED
    BY <2>1, <2>2
<1>14. ASSUME NEW s \in Streams, DispatchPool(s) PROVE Slotted(t)'
  BY <1>14 DEF DispatchPool
<1>15. ASSUME NEW s \in Streams, DispatchRefused(s) PROVE Slotted(t)'
  BY <1>15 DEF DispatchRefused, ReleaseCredit
<1>16. ASSUME NEW s \in Streams, RoundDone(s) PROVE Slotted(t)'
  <2>1. /\ co[s] = "round"
        /\ done[s] \in {"more", "over", "panic", "cancelled"}
        /\ done' = Update(done, s, "none")
        /\ UNCHANGED <<consumerVars, wireVars, host, affineFree, creditVars, workVars, rt>>
    BY <1>16, RoundDoneEffect
  <2>2. PICK state \in Gone \cup {"credit"}, place \in Place :
          /\ co' = Update(co, s, state)
          /\ reader' = Update(reader, s, place)
          /\ done[s] = "more" <=> state = "credit"
          /\ done[s] = "over" <=> state = "ended"
          /\ done[s] = "panic" <=> state = "panicked"
          /\ done[s] = "cancelled" <=> state = "failed"
          /\ reader[s] \in Destroyed \cup {"host"} => place = reader[s]
          /\ state = "credit" /\ reader[s] = "output" => place = "guard"
          /\ state # "credit" /\ reader[s] \notin Destroyed \cup {"host"}
                => place \in {"pool", "worker"}
    BY <1>16, RoundDoneEffect
  <2> QED
    BY <2>1, <2>2 DEF Place
<1>17. ASSUME NEW s \in Streams, Abort(s) PROVE Slotted(t)'
  <2>1. /\ co[s] \in AwaitPoints
        /\ stream[s] = "dropped" \/ rt = "down"
        /\ co' = Update(co, s, "aborted")
        /\ done' = Update(done, s, "none")
        /\ co[s] = "reserve" => ReleaseCredit(s)
        /\ co[s] # "reserve" => UNCHANGED creditVars
        /\ UNCHANGED <<consumerVars, wireVars, host, affineFree, workVars, rt>>
    BY <1>17, AbortEffect
  <2>2. PICK place \in Place :
          /\ reader' = Update(reader, s, place)
          /\ reader[s] \in Destroyed \cup {"host"} => place = reader[s]
          /\ reader[s] \in {"future", "guard", "output"} => place \in {"pool", "worker"}
    BY <1>17, AbortEffect
  <2>3. CASE co[s] = "reserve"
    BY <2>1, <2>2, <2>3 DEF ReleaseCredit, Place
  <2>4. CASE co[s] # "reserve"
    BY <2>1, <2>2, <2>4 DEF Place
  <2> QED
    BY <2>3, <2>4
<1>18. ASSUME NEW s \in Streams, BeginRound(s) PROVE Slotted(t)'
  BY <1>18 DEF BeginRound, Enter
<1>19. ASSUME NEW s \in Streams, PullBatch(s) PROVE Slotted(t)'
  <2>1. co[s] \notin Looping \cup {"spawned"} /\ done[s] = "none"
    BY <1>19, Busy DEF PullBatch, Return, Send
  <2>2. CASE t # s
    BY <1>19, <2>1, <2>2 DEF PullBatch, Return, Send
  <2>3. CASE t = s
    BY <1>19, <2>1, <2>3 DEF PullBatch, Return, Send
  <2> QED
    BY <2>2, <2>3
<1>20. ASSUME NEW s \in Streams, PullFails(s) PROVE Slotted(t)'
  <2>1. co[s] \notin Looping \cup {"spawned"} /\ done[s] = "none"
    BY <1>20, Busy DEF PullFails, Return, Send, Error
  <2>2. CASE t # s
    BY <1>20, <2>1, <2>2 DEF PullFails, Return, Send, Error
  <2>3. CASE t = s
    BY <1>20, <2>1, <2>3 DEF PullFails, Return, Send, Error
  <2> QED
    BY <2>2, <2>3
<1>21. ASSUME NEW s \in Streams, PullNone(s) PROVE Slotted(t)'
  <2>1. co[s] \notin Looping \cup {"spawned"} /\ done[s] = "none"
    BY <1>21, Busy DEF PullNone, Return
  <2>2. CASE t # s
    BY <1>21, <2>1, <2>2 DEF PullNone, Return
  <2>3. CASE t = s
    BY <1>21, <2>1, <2>3 DEF PullNone, Return
  <2> QED
    BY <2>2, <2>3
<1>22. ASSUME NEW s \in Streams, PullPanics(s) PROVE Slotted(t)'
  <2>1. co[s] \notin Looping \cup {"spawned"} /\ done[s] = "none"
    BY <1>22, Busy DEF PullPanics, Return
  <2>2. CASE t # s
    BY <1>22, <2>1, <2>2 DEF PullPanics, Return
  <2>3. CASE t = s
    BY <1>22, <2>1, <2>3 DEF PullPanics, Return
  <2> QED
    BY <2>2, <2>3
<1>23. ASSUME NEW s \in Streams, PullHangs(s) PROVE Slotted(t)'
  BY <1>23 DEF PullHangs
<1>24. ASSUME NEW s \in Streams, TryReserve(s) PROVE Slotted(t)'
  <2>1. co[s] \notin Looping \cup {"spawned"} /\ done[s] = "none"
    BY <1>24, Busy DEF TryReserve
  <2>2. CASE t # s
    BY <1>24, <2>1, <2>2 DEF TryReserve
  <2>3. CASE t = s /\ FreeSlot(s)
    BY <1>24, <2>1, <2>3 DEF TryReserve
  <2>4. CASE t = s /\ ~FreeSlot(s)
    <3>1. thr[s] = "sent" /\ thr'[s] = "more" /\ slot'[s] = slot[s] /\ co'[s] = co[s]
      BY <1>24, <2>4 DEF TryReserve
    <3>2. ~slot[s]
      BY <2>1, <3>1
    <3> QED
      BY <2>1, <2>4, <3>1, <3>2
  <2> QED
    BY <2>2, <2>3, <2>4
<1>25. ASSUME NEW s \in Streams, ContinueOnDemand(s) PROVE Slotted(t)'
  BY <1>25 DEF ContinueOnDemand, Enter
<1>26. ASSUME NEW s \in Streams, ContinueSpeculatively(s) PROVE Slotted(t)'
  BY <1>26 DEF ContinueSpeculatively, TrySpeculate, Enter
<1>27. ASSUME NEW s \in Streams, OutOfCredit(s) PROVE Slotted(t)'
  <2>1. CASE t = s
    BY <1>27, <2>1, ZenonT(60) DEF OutOfCredit, CanSpeculate
  <2>2. CASE t # s
    BY <1>27, <2>2 DEF OutOfCredit, CanSpeculate
  <2> QED
    BY <2>1, <2>2
<1>28. ASSUME NEW s \in Streams, ReportAffine(s) PROVE Slotted(t)'
  BY <1>28 DEF ReportAffine, ReleaseCredit, Publish
<1>29. ASSUME NEW s \in Streams, ReportPool(s) PROVE Slotted(t)'
  BY <1>29 DEF ReportPool, ReleaseCredit, Publish
<1>30. ASSUME NEW s \in Streams, CancelQueued(s) PROVE Slotted(t)'
  BY <1>30 DEF CancelQueued, ReleaseCredit
<1>31. ASSUME NEW s \in Streams, AffineExit(s) PROVE Slotted(t)'
  BY <1>31 DEF AffineExit
<1>32. CASE Shutdown
  BY <1>32 DEF Shutdown
<1>33. CASE UNCHANGED vars
  BY <1>33 DEF vars
<1> QED
  BY <1>1, <1>2, <1>3, <1>4, <1>5, <1>6, <1>7, <1>8, <1>9, <1>10,
     <1>11, <1>12, <1>13, <1>14, <1>15, <1>16, <1>17, <1>18, <1>19, <1>20, <1>21,
     <1>22, <1>23, <1>24, <1>25, <1>26, <1>27, <1>28, <1>29, <1>30, <1>31, <1>32, <1>33
     DEF Next, Consumer, Answer, Coordinator, Worker

ResultsInv == \A t \in Streams : Results(t)

(* Every step keeps Results.                                                 *)
LEMMA ResultsNext ==
  ASSUME TypeOK, ControlInv, ResultsInv, [Next]_vars
  PROVE  \A t \in Streams : Results(t)'
<1> TAKE t \in Streams
<1> USE DEF ResultsInv, Results, ControlInv, Control, Looping, TypeOK, AwaitPoints, Gone, InRound, Destroyed, Update, consumerVars, wireVars, creditVars, workVars
<1>1. ASSUME NEW s \in Streams, PollRequest(s) PROVE Results(t)'
  BY <1>1 DEF PollRequest, Polling
<1>2. ASSUME NEW s \in Streams, PollBatch(s) PROVE Results(t)'
  BY <1>2 DEF PollBatch, Polling
<1>3. ASSUME NEW s \in Streams, PollEnd(s) PROVE Results(t)'
  BY <1>3 DEF PollEnd, Polling
<1>4. ASSUME NEW s \in Streams, PollRaise(s) PROVE Results(t)'
  BY <1>4 DEF PollRaise, Polling
<1>5. ASSUME NEW s \in Streams, DropStream(s) PROVE Results(t)'
  BY <1>5 DEF DropStream
<1>6. ASSUME NEW s \in Streams, StartAffine(s) PROVE Results(t)'
  BY <1>6 DEF StartAffine
<1>7. ASSUME NEW s \in Streams, StartPool(s) PROVE Results(t)'
  BY <1>7 DEF StartPool
<1>8. ASSUME NEW s \in Streams, TakeDemand(s) PROVE Results(t)'
  BY <1>8 DEF TakeDemand
<1>9. ASSUME NEW s \in Streams, Speculate(s) PROVE Results(t)'
  BY <1>9 DEF Speculate, TrySpeculate
<1>10. ASSUME NEW s \in Streams, Park(s) PROVE Results(t)'
  BY <1>10 DEF Park, CanSpeculate
<1>11. ASSUME NEW s \in Streams, Reserve(s) PROVE Results(t)'
  BY <1>11 DEF Reserve, FreeSlot
<1>12. ASSUME NEW s \in Streams, ReserveClosed(s) PROVE Results(t)'
  <2>1. /\ co[s] = "reserve" /\ stream[s] = "dropped"
        /\ co' = Update(co, s, "ended")
        /\ ReleaseCredit(s)
        /\ UNCHANGED <<consumerVars, wireVars, host, affineFree, workVars, done, rt>>
    BY <1>12, ReserveClosedEffect
  <2>2. PICK place \in Place :
          /\ reader' = Update(reader, s, place)
          /\ reader[s] \in Destroyed \cup {"host"} => place = reader[s]
          /\ reader[s] \in {"future", "guard", "output"} => place \in {"pool", "worker"}
    BY <1>12, ReserveClosedEffect
  <2> QED
    BY <2>1, <2>2 DEF ReleaseCredit, Place
<1>13. ASSUME NEW s \in Streams, DispatchAffine(s) PROVE Results(t)'
  <2>1. CASE thr[s] = "idle"
    BY <1>13, <2>1 DEF DispatchAffine
  <2>2. CASE thr[s] # "idle"
    <3>1. /\ co[s] = "dispatch" /\ host[s] = "affine"
          /\ co' = Update(co, s, "ended")
          /\ slot' = Update(slot, s, FALSE)
          /\ ReleaseCredit(s)
          /\ UNCHANGED <<consumerVars, demand, chan, host, affineFree, done, reader,
                         thr, pulls, last, late, rt>>
      BY <1>13, <2>2 DEF DispatchAffine
    <3> QED
      BY <2>2, <3>1 DEF ReleaseCredit
  <2> QED
    BY <2>1, <2>2
<1>14. ASSUME NEW s \in Streams, DispatchPool(s) PROVE Results(t)'
  BY <1>14 DEF DispatchPool
<1>15. ASSUME NEW s \in Streams, DispatchRefused(s) PROVE Results(t)'
  BY <1>15 DEF DispatchRefused, ReleaseCredit
<1>16. ASSUME NEW s \in Streams, RoundDone(s) PROVE Results(t)'
  <2>1. /\ co[s] = "round"
        /\ done[s] \in {"more", "over", "panic", "cancelled"}
        /\ done' = Update(done, s, "none")
        /\ UNCHANGED <<consumerVars, wireVars, host, affineFree, creditVars, workVars, rt>>
    BY <1>16, RoundDoneEffect
  <2>2. PICK state \in Gone \cup {"credit"}, place \in Place :
          /\ co' = Update(co, s, state)
          /\ reader' = Update(reader, s, place)
          /\ done[s] = "more" <=> state = "credit"
          /\ done[s] = "over" <=> state = "ended"
          /\ done[s] = "panic" <=> state = "panicked"
          /\ done[s] = "cancelled" <=> state = "failed"
          /\ reader[s] \in Destroyed \cup {"host"} => place = reader[s]
          /\ state = "credit" /\ reader[s] = "output" => place = "guard"
          /\ state # "credit" /\ reader[s] \notin Destroyed \cup {"host"}
                => place \in {"pool", "worker"}
    BY <1>16, RoundDoneEffect
  <2> QED
    BY <2>1, <2>2 DEF Place
<1>17. ASSUME NEW s \in Streams, Abort(s) PROVE Results(t)'
  <2>1. /\ co[s] \in AwaitPoints
        /\ stream[s] = "dropped" \/ rt = "down"
        /\ co' = Update(co, s, "aborted")
        /\ done' = Update(done, s, "none")
        /\ co[s] = "reserve" => ReleaseCredit(s)
        /\ co[s] # "reserve" => UNCHANGED creditVars
        /\ UNCHANGED <<consumerVars, wireVars, host, affineFree, workVars, rt>>
    BY <1>17, AbortEffect
  <2>2. PICK place \in Place :
          /\ reader' = Update(reader, s, place)
          /\ reader[s] \in Destroyed \cup {"host"} => place = reader[s]
          /\ reader[s] \in {"future", "guard", "output"} => place \in {"pool", "worker"}
    BY <1>17, AbortEffect
  <2>3. CASE co[s] = "reserve"
    BY <2>1, <2>2, <2>3 DEF ReleaseCredit, Place
  <2>4. CASE co[s] # "reserve"
    BY <2>1, <2>2, <2>4 DEF Place
  <2> QED
    BY <2>3, <2>4
<1>18. ASSUME NEW s \in Streams, BeginRound(s) PROVE Results(t)'
  BY <1>18 DEF BeginRound, Enter
<1>19. ASSUME NEW s \in Streams, PullBatch(s) PROVE Results(t)'
  BY <1>19 DEF PullBatch, Return, Send
<1>20. ASSUME NEW s \in Streams, PullFails(s) PROVE Results(t)'
  <2>1. co[s] \notin Looping \cup {"spawned"} /\ done[s] = "none"
    BY <1>20, Busy DEF PullFails, Return, Send, Error
  <2>2. CASE t # s
    BY <1>20, <2>1, <2>2 DEF PullFails, Return, Send, Error
  <2>3. CASE t = s
    BY <1>20, <2>1, <2>3 DEF PullFails, Return, Send, Error
  <2> QED
    BY <2>2, <2>3
<1>21. ASSUME NEW s \in Streams, PullNone(s) PROVE Results(t)'
  <2>1. co[s] \notin Looping \cup {"spawned"} /\ done[s] = "none"
    BY <1>21, Busy DEF PullNone, Return
  <2>2. CASE t # s
    BY <1>21, <2>1, <2>2 DEF PullNone, Return
  <2>3. CASE t = s
    BY <1>21, <2>1, <2>3 DEF PullNone, Return
  <2> QED
    BY <2>2, <2>3
<1>22. ASSUME NEW s \in Streams, PullPanics(s) PROVE Results(t)'
  <2>1. co[s] \notin Looping \cup {"spawned"} /\ done[s] = "none"
    BY <1>22, Busy DEF PullPanics, Return
  <2>2. CASE t # s
    BY <1>22, <2>1, <2>2 DEF PullPanics, Return
  <2>3. CASE t = s
    BY <1>22, <2>1, <2>3 DEF PullPanics, Return
  <2> QED
    BY <2>2, <2>3
<1>23. ASSUME NEW s \in Streams, PullHangs(s) PROVE Results(t)'
  BY <1>23 DEF PullHangs
<1>24. ASSUME NEW s \in Streams, TryReserve(s) PROVE Results(t)'
  <2>1. CASE FreeSlot(s)
    BY <1>24, <2>1 DEF TryReserve
  <2>2. CASE ~FreeSlot(s)
    BY <1>24, <2>2 DEF TryReserve
  <2> QED
    BY <2>1, <2>2
<1>25. ASSUME NEW s \in Streams, ContinueOnDemand(s) PROVE Results(t)'
  BY <1>25 DEF ContinueOnDemand, Enter
<1>26. ASSUME NEW s \in Streams, ContinueSpeculatively(s) PROVE Results(t)'
  BY <1>26 DEF ContinueSpeculatively, TrySpeculate, Enter
<1>27. ASSUME NEW s \in Streams, OutOfCredit(s) PROVE Results(t)'
  BY <1>27 DEF OutOfCredit, CanSpeculate
<1>28. ASSUME NEW s \in Streams, ReportAffine(s) PROVE Results(t)'
  BY <1>28 DEF ReportAffine, ReleaseCredit, Publish
<1>29. ASSUME NEW s \in Streams, ReportPool(s) PROVE Results(t)'
  BY <1>29 DEF ReportPool, ReleaseCredit, Publish
<1>30. ASSUME NEW s \in Streams, CancelQueued(s) PROVE Results(t)'
  BY <1>30 DEF CancelQueued, ReleaseCredit
<1>31. ASSUME NEW s \in Streams, AffineExit(s) PROVE Results(t)'
  BY <1>31 DEF AffineExit
<1>32. CASE Shutdown
  BY <1>32 DEF Shutdown
<1>33. CASE UNCHANGED vars
  BY <1>33 DEF vars
<1> QED
  BY <1>1, <1>2, <1>3, <1>4, <1>5, <1>6, <1>7, <1>8, <1>9, <1>10,
     <1>11, <1>12, <1>13, <1>14, <1>15, <1>16, <1>17, <1>18, <1>19, <1>20, <1>21,
     <1>22, <1>23, <1>24, <1>25, <1>26, <1>27, <1>28, <1>29, <1>30, <1>31, <1>32, <1>33
     DEF Next, Consumer, Answer, Coordinator, Worker

OwnedInv == \A t \in Streams : Owned(t)

(* Every step keeps Owned.                                                   *)
LEMMA OwnedNext ==
  ASSUME TypeOK, ControlInv, OwnedInv, [Next]_vars
  PROVE  \A t \in Streams : Owned(t)'
<1> TAKE t \in Streams
<1> USE DEF OwnedInv, Owned, ControlInv, Control, Looping, TypeOK, AwaitPoints, Gone, InRound, Destroyed, Update, consumerVars, wireVars, creditVars, workVars
<1>1. ASSUME NEW s \in Streams, PollRequest(s) PROVE Owned(t)'
  BY <1>1 DEF PollRequest, Polling
<1>2. ASSUME NEW s \in Streams, PollBatch(s) PROVE Owned(t)'
  BY <1>2 DEF PollBatch, Polling
<1>3. ASSUME NEW s \in Streams, PollEnd(s) PROVE Owned(t)'
  BY <1>3 DEF PollEnd, Polling
<1>4. ASSUME NEW s \in Streams, PollRaise(s) PROVE Owned(t)'
  BY <1>4 DEF PollRaise, Polling
<1>5. ASSUME NEW s \in Streams, DropStream(s) PROVE Owned(t)'
  BY <1>5 DEF DropStream
<1>6. ASSUME NEW s \in Streams, StartAffine(s) PROVE Owned(t)'
  BY <1>6 DEF StartAffine
<1>7. ASSUME NEW s \in Streams, StartPool(s) PROVE Owned(t)'
  BY <1>7 DEF StartPool
<1>8. ASSUME NEW s \in Streams, TakeDemand(s) PROVE Owned(t)'
  BY <1>8 DEF TakeDemand
<1>9. ASSUME NEW s \in Streams, Speculate(s) PROVE Owned(t)'
  BY <1>9 DEF Speculate, TrySpeculate
<1>10. ASSUME NEW s \in Streams, Park(s) PROVE Owned(t)'
  BY <1>10 DEF Park, CanSpeculate
<1>11. ASSUME NEW s \in Streams, Reserve(s) PROVE Owned(t)'
  BY <1>11 DEF Reserve, FreeSlot
<1>12. ASSUME NEW s \in Streams, ReserveClosed(s) PROVE Owned(t)'
  <2>1. /\ co[s] = "reserve" /\ stream[s] = "dropped"
        /\ co' = Update(co, s, "ended")
        /\ ReleaseCredit(s)
        /\ UNCHANGED <<consumerVars, wireVars, host, affineFree, workVars, done, rt>>
    BY <1>12, ReserveClosedEffect
  <2>2. PICK place \in Place :
          /\ reader' = Update(reader, s, place)
          /\ reader[s] \in Destroyed \cup {"host"} => place = reader[s]
          /\ reader[s] \in {"future", "guard", "output"} => place \in {"pool", "worker"}
    BY <1>12, ReserveClosedEffect
  <2> QED
    BY <2>1, <2>2 DEF ReleaseCredit, Place
<1>13. ASSUME NEW s \in Streams, DispatchAffine(s) PROVE Owned(t)'
  <2>1. CASE thr[s] = "idle"
    BY <1>13, <2>1 DEF DispatchAffine
  <2>2. CASE thr[s] # "idle"
    <3>1. /\ co[s] = "dispatch" /\ host[s] = "affine"
          /\ co' = Update(co, s, "ended")
          /\ slot' = Update(slot, s, FALSE)
          /\ ReleaseCredit(s)
          /\ UNCHANGED <<consumerVars, demand, chan, host, affineFree, done, reader,
                         thr, pulls, last, late, rt>>
      BY <1>13, <2>2 DEF DispatchAffine
    <3> QED
      BY <2>2, <3>1 DEF ReleaseCredit
  <2> QED
    BY <2>1, <2>2
<1>14. ASSUME NEW s \in Streams, DispatchPool(s) PROVE Owned(t)'
  BY <1>14 DEF DispatchPool
<1>15. ASSUME NEW s \in Streams, DispatchRefused(s) PROVE Owned(t)'
  BY <1>15 DEF DispatchRefused, ReleaseCredit
<1>16. ASSUME NEW s \in Streams, RoundDone(s) PROVE Owned(t)'
  <2>1. /\ co[s] = "round"
        /\ done[s] \in {"more", "over", "panic", "cancelled"}
        /\ done' = Update(done, s, "none")
        /\ UNCHANGED <<consumerVars, wireVars, host, affineFree, creditVars, workVars, rt>>
    BY <1>16, RoundDoneEffect
  <2>2. PICK state \in Gone \cup {"credit"}, place \in Place :
          /\ co' = Update(co, s, state)
          /\ reader' = Update(reader, s, place)
          /\ done[s] = "more" <=> state = "credit"
          /\ done[s] = "over" <=> state = "ended"
          /\ done[s] = "panic" <=> state = "panicked"
          /\ done[s] = "cancelled" <=> state = "failed"
          /\ reader[s] \in Destroyed \cup {"host"} => place = reader[s]
          /\ state = "credit" /\ reader[s] = "output" => place = "guard"
          /\ state # "credit" /\ reader[s] \notin Destroyed \cup {"host"}
                => place \in {"pool", "worker"}
    BY <1>16, RoundDoneEffect
  <2> QED
    BY <2>1, <2>2 DEF Place
<1>17. ASSUME NEW s \in Streams, Abort(s) PROVE Owned(t)'
  <2>1. /\ co[s] \in AwaitPoints
        /\ stream[s] = "dropped" \/ rt = "down"
        /\ co' = Update(co, s, "aborted")
        /\ done' = Update(done, s, "none")
        /\ co[s] = "reserve" => ReleaseCredit(s)
        /\ co[s] # "reserve" => UNCHANGED creditVars
        /\ UNCHANGED <<consumerVars, wireVars, host, affineFree, workVars, rt>>
    BY <1>17, AbortEffect
  <2>2. PICK place \in Place :
          /\ reader' = Update(reader, s, place)
          /\ reader[s] \in Destroyed \cup {"host"} => place = reader[s]
          /\ reader[s] \in {"future", "guard", "output"} => place \in {"pool", "worker"}
    BY <1>17, AbortEffect
  <2>3. CASE co[s] = "reserve"
    BY <2>1, <2>2, <2>3 DEF ReleaseCredit, Place
  <2>4. CASE co[s] # "reserve"
    BY <2>1, <2>2, <2>4 DEF Place
  <2> QED
    BY <2>3, <2>4
<1>18. ASSUME NEW s \in Streams, BeginRound(s) PROVE Owned(t)'
  BY <1>18 DEF BeginRound, Enter
<1>19. ASSUME NEW s \in Streams, PullBatch(s) PROVE Owned(t)'
  BY <1>19 DEF PullBatch, Return, Send
<1>20. ASSUME NEW s \in Streams, PullFails(s) PROVE Owned(t)'
  BY <1>20 DEF PullFails, Return, Send, Error
<1>21. ASSUME NEW s \in Streams, PullNone(s) PROVE Owned(t)'
  BY <1>21 DEF PullNone, Return
<1>22. ASSUME NEW s \in Streams, PullPanics(s) PROVE Owned(t)'
  BY <1>22 DEF PullPanics, Return
<1>23. ASSUME NEW s \in Streams, PullHangs(s) PROVE Owned(t)'
  BY <1>23 DEF PullHangs
<1>24. ASSUME NEW s \in Streams, TryReserve(s) PROVE Owned(t)'
  <2>1. CASE FreeSlot(s)
    BY <1>24, <2>1 DEF TryReserve
  <2>2. CASE ~FreeSlot(s)
    BY <1>24, <2>2 DEF TryReserve
  <2> QED
    BY <2>1, <2>2
<1>25. ASSUME NEW s \in Streams, ContinueOnDemand(s) PROVE Owned(t)'
  BY <1>25 DEF ContinueOnDemand, Enter
<1>26. ASSUME NEW s \in Streams, ContinueSpeculatively(s) PROVE Owned(t)'
  BY <1>26 DEF ContinueSpeculatively, TrySpeculate, Enter
<1>27. ASSUME NEW s \in Streams, OutOfCredit(s) PROVE Owned(t)'
  BY <1>27 DEF OutOfCredit, CanSpeculate
<1>28. ASSUME NEW s \in Streams, ReportAffine(s) PROVE Owned(t)'
  BY <1>28 DEF ReportAffine, ReleaseCredit, Publish
<1>29. ASSUME NEW s \in Streams, ReportPool(s) PROVE Owned(t)'
  BY <1>29 DEF ReportPool, ReleaseCredit, Publish
<1>30. ASSUME NEW s \in Streams, CancelQueued(s) PROVE Owned(t)'
  BY <1>30 DEF CancelQueued, ReleaseCredit
<1>31. ASSUME NEW s \in Streams, AffineExit(s) PROVE Owned(t)'
  BY <1>31 DEF AffineExit
<1>32. CASE Shutdown
  BY <1>32 DEF Shutdown
<1>33. CASE UNCHANGED vars
  BY <1>33 DEF vars
<1> QED
  BY <1>1, <1>2, <1>3, <1>4, <1>5, <1>6, <1>7, <1>8, <1>9, <1>10,
     <1>11, <1>12, <1>13, <1>14, <1>15, <1>16, <1>17, <1>18, <1>19, <1>20, <1>21,
     <1>22, <1>23, <1>24, <1>25, <1>26, <1>27, <1>28, <1>29, <1>30, <1>31, <1>32, <1>33
     DEF Next, Consumer, Answer, Coordinator, Worker

DropPartInv == \A t \in Streams : DropPart(t)

(* Every step keeps DropPart.                                                *)
LEMMA DropPartNext ==
  ASSUME TypeOK, ControlInv, SlottedInv, DropPartInv, [Next]_vars
  PROVE  \A t \in Streams : DropPart(t)'
<1> TAKE t \in Streams
<1> USE DEF DropPartInv, DropPart, ControlInv, Control, Looping, TypeOK, AwaitPoints, Gone, InRound, Destroyed, Update, consumerVars, wireVars, creditVars, workVars
<1>1. ASSUME NEW s \in Streams, PollRequest(s) PROVE DropPart(t)'
  BY <1>1 DEF PollRequest, Polling
<1>2. ASSUME NEW s \in Streams, PollBatch(s) PROVE DropPart(t)'
  BY <1>2 DEF PollBatch, Polling
<1>3. ASSUME NEW s \in Streams, PollEnd(s) PROVE DropPart(t)'
  BY <1>3 DEF PollEnd, Polling
<1>4. ASSUME NEW s \in Streams, PollRaise(s) PROVE DropPart(t)'
  BY <1>4 DEF PollRaise, Polling
<1>5. ASSUME NEW s \in Streams, DropStream(s) PROVE DropPart(t)'
  BY <1>5 DEF DropStream
<1>6. ASSUME NEW s \in Streams, StartAffine(s) PROVE DropPart(t)'
  BY <1>6 DEF StartAffine
<1>7. ASSUME NEW s \in Streams, StartPool(s) PROVE DropPart(t)'
  BY <1>7 DEF StartPool
<1>8. ASSUME NEW s \in Streams, TakeDemand(s) PROVE DropPart(t)'
  BY <1>8 DEF TakeDemand
<1>9. ASSUME NEW s \in Streams, Speculate(s) PROVE DropPart(t)'
  BY <1>9 DEF Speculate, TrySpeculate
<1>10. ASSUME NEW s \in Streams, Park(s) PROVE DropPart(t)'
  BY <1>10 DEF Park, CanSpeculate
<1>11. ASSUME NEW s \in Streams, Reserve(s) PROVE DropPart(t)'
  BY <1>11 DEF Reserve, FreeSlot
<1>12. ASSUME NEW s \in Streams, ReserveClosed(s) PROVE DropPart(t)'
  <2>1. /\ co[s] = "reserve" /\ stream[s] = "dropped"
        /\ co' = Update(co, s, "ended")
        /\ ReleaseCredit(s)
        /\ UNCHANGED <<consumerVars, wireVars, host, affineFree, workVars, done, rt>>
    BY <1>12, ReserveClosedEffect
  <2>2. PICK place \in Place :
          /\ reader' = Update(reader, s, place)
          /\ reader[s] \in Destroyed \cup {"host"} => place = reader[s]
          /\ reader[s] \in {"future", "guard", "output"} => place \in {"pool", "worker"}
    BY <1>12, ReserveClosedEffect
  <2> QED
    BY <2>1, <2>2 DEF ReleaseCredit, Place
<1>13. ASSUME NEW s \in Streams, DispatchAffine(s) PROVE DropPart(t)'
  <2>1. CASE thr[s] = "idle"
    BY <1>13, <2>1 DEF DispatchAffine
  <2>2. CASE thr[s] # "idle"
    <3>1. /\ co[s] = "dispatch" /\ host[s] = "affine"
          /\ co' = Update(co, s, "ended")
          /\ slot' = Update(slot, s, FALSE)
          /\ ReleaseCredit(s)
          /\ UNCHANGED <<consumerVars, demand, chan, host, affineFree, done, reader,
                         thr, pulls, last, late, rt>>
      BY <1>13, <2>2 DEF DispatchAffine
    <3> QED
      BY <2>2, <3>1 DEF ReleaseCredit
  <2> QED
    BY <2>1, <2>2
<1>14. ASSUME NEW s \in Streams, DispatchPool(s) PROVE DropPart(t)'
  BY <1>14 DEF DispatchPool
<1>15. ASSUME NEW s \in Streams, DispatchRefused(s) PROVE DropPart(t)'
  BY <1>15 DEF DispatchRefused, ReleaseCredit
<1>16. ASSUME NEW s \in Streams, RoundDone(s) PROVE DropPart(t)'
  <2>1. /\ co[s] = "round"
        /\ done[s] \in {"more", "over", "panic", "cancelled"}
        /\ done' = Update(done, s, "none")
        /\ UNCHANGED <<consumerVars, wireVars, host, affineFree, creditVars, workVars, rt>>
    BY <1>16, RoundDoneEffect
  <2>2. PICK state \in Gone \cup {"credit"}, place \in Place :
          /\ co' = Update(co, s, state)
          /\ reader' = Update(reader, s, place)
          /\ done[s] = "more" <=> state = "credit"
          /\ done[s] = "over" <=> state = "ended"
          /\ done[s] = "panic" <=> state = "panicked"
          /\ done[s] = "cancelled" <=> state = "failed"
          /\ reader[s] \in Destroyed \cup {"host"} => place = reader[s]
          /\ state = "credit" /\ reader[s] = "output" => place = "guard"
          /\ state # "credit" /\ reader[s] \notin Destroyed \cup {"host"}
                => place \in {"pool", "worker"}
    BY <1>16, RoundDoneEffect
  <2> QED
    BY <2>1, <2>2 DEF Place
<1>17. ASSUME NEW s \in Streams, Abort(s) PROVE DropPart(t)'
  <2>1. /\ co[s] \in AwaitPoints
        /\ stream[s] = "dropped" \/ rt = "down"
        /\ co' = Update(co, s, "aborted")
        /\ done' = Update(done, s, "none")
        /\ co[s] = "reserve" => ReleaseCredit(s)
        /\ co[s] # "reserve" => UNCHANGED creditVars
        /\ UNCHANGED <<consumerVars, wireVars, host, affineFree, workVars, rt>>
    BY <1>17, AbortEffect
  <2>2. PICK place \in Place :
          /\ reader' = Update(reader, s, place)
          /\ reader[s] \in Destroyed \cup {"host"} => place = reader[s]
          /\ reader[s] \in {"future", "guard", "output"} => place \in {"pool", "worker"}
    BY <1>17, AbortEffect
  <2>3. CASE co[s] = "reserve"
    BY <2>1, <2>2, <2>3 DEF ReleaseCredit, Place
  <2>4. CASE co[s] # "reserve"
    BY <2>1, <2>2, <2>4 DEF Place
  <2> QED
    BY <2>3, <2>4
<1>18. ASSUME NEW s \in Streams, BeginRound(s) PROVE DropPart(t)'
  <2>1. co[s] \notin Looping \cup {"spawned"} /\ done[s] = "none"
    BY <1>18, Busy DEF BeginRound, Enter
  <2>2. CASE t # s
    BY <1>18, <2>1, <2>2 DEF BeginRound, Enter
  <2>3. CASE t = s /\ stream[s] = "live"
    BY <1>18, <2>1, <2>3 DEF BeginRound, Enter
  <2>4. CASE t = s /\ stream[s] # "live"
    BY <1>18, <2>1, <2>4 DEF BeginRound, Enter
  <2> QED
    BY <2>2, <2>3, <2>4
<1>19. ASSUME NEW s \in Streams, PullBatch(s) PROVE DropPart(t)'
  BY <1>19 DEF PullBatch, Return, Send
<1>20. ASSUME NEW s \in Streams, PullFails(s) PROVE DropPart(t)'
  BY <1>20 DEF PullFails, Return, Send, Error
<1>21. ASSUME NEW s \in Streams, PullNone(s) PROVE DropPart(t)'
  BY <1>21 DEF PullNone, Return
<1>22. ASSUME NEW s \in Streams, PullPanics(s) PROVE DropPart(t)'
  BY <1>22 DEF PullPanics, Return
<1>23. ASSUME NEW s \in Streams, PullHangs(s) PROVE DropPart(t)'
  BY <1>23 DEF PullHangs
<1>24. ASSUME NEW s \in Streams, TryReserve(s) PROVE DropPart(t)'
  <2>1. CASE FreeSlot(s)
    <3>1. CASE t = s
      BY <1>24, <2>1, <3>1 DEF TryReserve, FreeSlot
    <3>2. CASE t # s
      BY <1>24, <2>1, <3>2 DEF TryReserve
    <3> QED
      BY <3>1, <3>2
  <2>2. CASE ~FreeSlot(s)
    <3>1. CASE t = s
      BY <1>24, <2>2, <3>1 DEF TryReserve
    <3>2. CASE t # s
      BY <1>24, <2>2, <3>2 DEF TryReserve
    <3> QED
      BY <3>1, <3>2
  <2> QED
    BY <2>1, <2>2
<1>25. ASSUME NEW s \in Streams, ContinueOnDemand(s) PROVE DropPart(t)'
  <2>1. co[s] \notin Looping \cup {"spawned"} /\ done[s] = "none"
    BY <1>25, Busy DEF ContinueOnDemand, Enter
  <2>2. CASE t # s
    BY <1>25, <2>1, <2>2 DEF ContinueOnDemand, Enter
  <2>3. CASE t = s /\ stream[s] = "live"
    BY <1>25, <2>1, <2>3 DEF ContinueOnDemand, Enter
  <2>4. CASE t = s /\ stream[s] # "live"
    BY <1>25, <2>1, <2>4 DEF ContinueOnDemand, Enter
  <2> QED
    BY <2>2, <2>3, <2>4
<1>26. ASSUME NEW s \in Streams, ContinueSpeculatively(s) PROVE DropPart(t)'
  <2>1. co[s] \notin Looping \cup {"spawned"} /\ done[s] = "none"
    BY <1>26, Busy DEF ContinueSpeculatively, TrySpeculate, Enter
  <2>2. CASE t # s
    BY <1>26, <2>1, <2>2 DEF ContinueSpeculatively, TrySpeculate, Enter
  <2>3. CASE t = s /\ stream[s] = "live"
    BY <1>26, <2>1, <2>3 DEF ContinueSpeculatively, TrySpeculate, Enter
  <2>4. CASE t = s /\ stream[s] # "live"
    BY <1>26, <2>1, <2>4 DEF ContinueSpeculatively, TrySpeculate, Enter
  <2> QED
    BY <2>2, <2>3, <2>4
<1>27. ASSUME NEW s \in Streams, OutOfCredit(s) PROVE DropPart(t)'
  BY <1>27 DEF OutOfCredit, CanSpeculate
<1>28. ASSUME NEW s \in Streams, ReportAffine(s) PROVE DropPart(t)'
  BY <1>28 DEF ReportAffine, ReleaseCredit, Publish
<1>29. ASSUME NEW s \in Streams, ReportPool(s) PROVE DropPart(t)'
  BY <1>29 DEF ReportPool, ReleaseCredit, Publish
<1>30. ASSUME NEW s \in Streams, CancelQueued(s) PROVE DropPart(t)'
  BY <1>30 DEF CancelQueued, ReleaseCredit
<1>31. ASSUME NEW s \in Streams, AffineExit(s) PROVE DropPart(t)'
  BY <1>31 DEF AffineExit
<1>32. CASE Shutdown
  BY <1>32 DEF Shutdown
<1>33. CASE UNCHANGED vars
  BY <1>33 DEF vars
<1> QED
  BY <1>1, <1>2, <1>3, <1>4, <1>5, <1>6, <1>7, <1>8, <1>9, <1>10,
     <1>11, <1>12, <1>13, <1>14, <1>15, <1>16, <1>17, <1>18, <1>19, <1>20, <1>21,
     <1>22, <1>23, <1>24, <1>25, <1>26, <1>27, <1>28, <1>29, <1>30, <1>31, <1>32, <1>33
     DEF Next, Consumer, Answer, Coordinator, Worker

DemandPartInv == \A t \in Streams : DemandPart(t)

(* Every step keeps DemandPart.                                              *)
LEMMA DemandPartNext ==
  ASSUME TypeOK, ControlInv, DemandPartInv, [Next]_vars
  PROVE  \A t \in Streams : DemandPart(t)'
<1> TAKE t \in Streams
<1> USE DEF DemandPartInv, DemandPart, ControlInv, Control, Looping, Asked, Buffered, CanSpeculate, TypeOK, AwaitPoints, Gone, InRound, Destroyed, Update, consumerVars, wireVars, creditVars, workVars
<1>1. ASSUME NEW s \in Streams, PollRequest(s) PROVE DemandPart(t)'
  BY <1>1 DEF PollRequest, Polling
<1>2. ASSUME NEW s \in Streams, PollBatch(s) PROVE DemandPart(t)'
  <2>1. CASE t = s
    BY <1>2, <2>1 DEF PollBatch, Polling
  <2>2. CASE t # s
    BY <1>2, <2>2 DEF PollBatch, Polling
  <2> QED
    BY <2>1, <2>2
<1>3. ASSUME NEW s \in Streams, PollEnd(s) PROVE DemandPart(t)'
  BY <1>3 DEF PollEnd, Polling
<1>4. ASSUME NEW s \in Streams, PollRaise(s) PROVE DemandPart(t)'
  BY <1>4 DEF PollRaise, Polling
<1>5. ASSUME NEW s \in Streams, DropStream(s) PROVE DemandPart(t)'
  BY <1>5 DEF DropStream
<1>6. ASSUME NEW s \in Streams, StartAffine(s) PROVE DemandPart(t)'
  BY <1>6 DEF StartAffine
<1>7. ASSUME NEW s \in Streams, StartPool(s) PROVE DemandPart(t)'
  BY <1>7 DEF StartPool
<1>8. ASSUME NEW s \in Streams, TakeDemand(s) PROVE DemandPart(t)'
  BY <1>8, SMTT(60) DEF TakeDemand
<1>9. ASSUME NEW s \in Streams, Speculate(s) PROVE DemandPart(t)'
  BY <1>9 DEF Speculate, TrySpeculate
<1>10. ASSUME NEW s \in Streams, Park(s) PROVE DemandPart(t)'
  BY <1>10 DEF Park, CanSpeculate
<1>11. ASSUME NEW s \in Streams, Reserve(s) PROVE DemandPart(t)'
  BY <1>11 DEF Reserve, FreeSlot
<1>12. ASSUME NEW s \in Streams, ReserveClosed(s) PROVE DemandPart(t)'
  <2>1. /\ co[s] = "reserve" /\ stream[s] = "dropped"
        /\ co' = Update(co, s, "ended")
        /\ ReleaseCredit(s)
        /\ UNCHANGED <<consumerVars, wireVars, host, affineFree, workVars, done, rt>>
    BY <1>12, ReserveClosedEffect
  <2>2. PICK place \in Place :
          /\ reader' = Update(reader, s, place)
          /\ reader[s] \in Destroyed \cup {"host"} => place = reader[s]
          /\ reader[s] \in {"future", "guard", "output"} => place \in {"pool", "worker"}
    BY <1>12, ReserveClosedEffect
  <2> QED
    BY <2>1, <2>2 DEF ReleaseCredit, Place
<1>13. ASSUME NEW s \in Streams, DispatchAffine(s) PROVE DemandPart(t)'
  <2>1. CASE thr[s] = "idle"
    <3>1. CASE t = s
      BY <1>13, <2>1, <3>1 DEF DispatchAffine
    <3>2. CASE t # s
      BY <1>13, <2>1, <3>2 DEF DispatchAffine
    <3> QED
      BY <3>1, <3>2
  <2>2. CASE thr[s] # "idle"
    <3>1. /\ co[s] = "dispatch" /\ host[s] = "affine"
          /\ co' = Update(co, s, "ended")
          /\ slot' = Update(slot, s, FALSE)
          /\ ReleaseCredit(s)
          /\ UNCHANGED <<consumerVars, demand, chan, host, affineFree, done, reader,
                         thr, pulls, last, late, rt>>
      BY <1>13, <2>2 DEF DispatchAffine
    <3> QED
      BY <2>2, <3>1 DEF ReleaseCredit
  <2> QED
    BY <2>1, <2>2
<1>14. ASSUME NEW s \in Streams, DispatchPool(s) PROVE DemandPart(t)'
  BY <1>14 DEF DispatchPool
<1>15. ASSUME NEW s \in Streams, DispatchRefused(s) PROVE DemandPart(t)'
  BY <1>15 DEF DispatchRefused, ReleaseCredit
<1>16. ASSUME NEW s \in Streams, RoundDone(s) PROVE DemandPart(t)'
  <2>1. /\ co[s] = "round"
        /\ done[s] \in {"more", "over", "panic", "cancelled"}
        /\ done' = Update(done, s, "none")
        /\ UNCHANGED <<consumerVars, wireVars, host, affineFree, creditVars, workVars, rt>>
    BY <1>16, RoundDoneEffect
  <2>2. PICK state \in Gone \cup {"credit"}, place \in Place :
          /\ co' = Update(co, s, state)
          /\ reader' = Update(reader, s, place)
          /\ done[s] = "more" <=> state = "credit"
          /\ done[s] = "over" <=> state = "ended"
          /\ done[s] = "panic" <=> state = "panicked"
          /\ done[s] = "cancelled" <=> state = "failed"
          /\ reader[s] \in Destroyed \cup {"host"} => place = reader[s]
          /\ state = "credit" /\ reader[s] = "output" => place = "guard"
          /\ state # "credit" /\ reader[s] \notin Destroyed \cup {"host"}
                => place \in {"pool", "worker"}
    BY <1>16, RoundDoneEffect
  <2> QED
    BY <2>1, <2>2 DEF Place
<1>17. ASSUME NEW s \in Streams, Abort(s) PROVE DemandPart(t)'
  <2>1. /\ co[s] \in AwaitPoints
        /\ stream[s] = "dropped" \/ rt = "down"
        /\ co' = Update(co, s, "aborted")
        /\ done' = Update(done, s, "none")
        /\ co[s] = "reserve" => ReleaseCredit(s)
        /\ co[s] # "reserve" => UNCHANGED creditVars
        /\ UNCHANGED <<consumerVars, wireVars, host, affineFree, workVars, rt>>
    BY <1>17, AbortEffect
  <2>2. PICK place \in Place :
          /\ reader' = Update(reader, s, place)
          /\ reader[s] \in Destroyed \cup {"host"} => place = reader[s]
          /\ reader[s] \in {"future", "guard", "output"} => place \in {"pool", "worker"}
    BY <1>17, AbortEffect
  <2>3. CASE co[s] = "reserve"
    BY <2>1, <2>2, <2>3 DEF ReleaseCredit, Place
  <2>4. CASE co[s] # "reserve"
    BY <2>1, <2>2, <2>4 DEF Place
  <2> QED
    BY <2>3, <2>4
<1>18. ASSUME NEW s \in Streams, BeginRound(s) PROVE DemandPart(t)'
  <2>1. co[s] \notin Looping \cup {"spawned"} /\ done[s] = "none"
    BY <1>18, Busy DEF BeginRound, Enter
  <2>2. CASE t # s
    BY <1>18, <2>1, <2>2 DEF BeginRound, Enter
  <2>3. CASE t = s
    BY <1>18, <2>1, <2>3 DEF BeginRound, Enter
  <2> QED
    BY <2>2, <2>3
<1>19. ASSUME NEW s \in Streams, PullBatch(s) PROVE DemandPart(t)'
  BY <1>19 DEF PullBatch, Return, Send
<1>20. ASSUME NEW s \in Streams, PullFails(s) PROVE DemandPart(t)'
  BY <1>20 DEF PullFails, Return, Send, Error
<1>21. ASSUME NEW s \in Streams, PullNone(s) PROVE DemandPart(t)'
  BY <1>21 DEF PullNone, Return
<1>22. ASSUME NEW s \in Streams, PullPanics(s) PROVE DemandPart(t)'
  BY <1>22 DEF PullPanics, Return
<1>23. ASSUME NEW s \in Streams, PullHangs(s) PROVE DemandPart(t)'
  BY <1>23 DEF PullHangs
<1>24. ASSUME NEW s \in Streams, TryReserve(s) PROVE DemandPart(t)'
  <2>1. CASE FreeSlot(s)
    BY <1>24, <2>1 DEF TryReserve
  <2>2. CASE ~FreeSlot(s)
    BY <1>24, <2>2 DEF TryReserve
  <2> QED
    BY <2>1, <2>2
<1>25. ASSUME NEW s \in Streams, ContinueOnDemand(s) PROVE DemandPart(t)'
  <2>1. CASE t = s
    BY <1>25, <2>1 DEF ContinueOnDemand, Enter
  <2>2. CASE t # s
    BY <1>25, <2>2 DEF ContinueOnDemand, Enter
  <2> QED
    BY <2>1, <2>2
<1>26. ASSUME NEW s \in Streams, ContinueSpeculatively(s) PROVE DemandPart(t)'
  BY <1>26 DEF ContinueSpeculatively, TrySpeculate, Enter
<1>27. ASSUME NEW s \in Streams, OutOfCredit(s) PROVE DemandPart(t)'
  BY <1>27 DEF OutOfCredit, CanSpeculate
<1>28. ASSUME NEW s \in Streams, ReportAffine(s) PROVE DemandPart(t)'
  BY <1>28 DEF ReportAffine, ReleaseCredit, Publish
<1>29. ASSUME NEW s \in Streams, ReportPool(s) PROVE DemandPart(t)'
  BY <1>29 DEF ReportPool, ReleaseCredit, Publish
<1>30. ASSUME NEW s \in Streams, CancelQueued(s) PROVE DemandPart(t)'
  BY <1>30 DEF CancelQueued, ReleaseCredit
<1>31. ASSUME NEW s \in Streams, AffineExit(s) PROVE DemandPart(t)'
  BY <1>31 DEF AffineExit
<1>32. CASE Shutdown
  BY <1>32 DEF Shutdown
<1>33. CASE UNCHANGED vars
  BY <1>33 DEF vars
<1> QED
  BY <1>1, <1>2, <1>3, <1>4, <1>5, <1>6, <1>7, <1>8, <1>9, <1>10,
     <1>11, <1>12, <1>13, <1>14, <1>15, <1>16, <1>17, <1>18, <1>19, <1>20, <1>21,
     <1>22, <1>23, <1>24, <1>25, <1>26, <1>27, <1>28, <1>29, <1>30, <1>31, <1>32, <1>33
     DEF Next, Consumer, Answer, Coordinator, Worker

-----------------------------------------------------------------------------
(* The speculation budget.                                                  *)

(* The permits, one at a time: each is free or held, and by one holder.     *)
Partition ==
    /\ \A p \in SpecPermits : p \in specFree \/ \E s \in Streams : p \in spec[s]
    /\ \A p \in SpecPermits, s \in Streams :
         p \in spec[s] => /\ p \notin specFree
                          /\ \A t \in Streams : p \in spec[t] => t = s

(* A stream holds permits only for a pull that is being arranged or made.   *)
Paying(s) ==
    spec[s] # {} => co[s] \in {"reserve", "dispatch"} \/ thr[s] \in InRound \cup {"queued"}

LEMMA PartitionRelease ==
  ASSUME TypeOK, Partition, NEW s \in Streams, ReleaseCredit(s)
  PROVE  Partition'
<1>1. /\ specFree' = specFree \cup spec[s]
      /\ \A t \in Streams : spec'[t] = IF t = s THEN {} ELSE spec[t]
  BY DEF ReleaseCredit, Update, TypeOK
<1>2. \A p \in SpecPermits : p \in specFree' \/ \E u \in Streams : p \in spec'[u]
  BY <1>1 DEF Partition
<1>3. ASSUME NEW p \in SpecPermits, NEW u \in Streams, p \in spec'[u]
      PROVE  p \notin specFree' /\ \A t \in Streams : p \in spec'[t] => t = u
  BY <1>1, <1>3 DEF Partition
<1> QED
  BY <1>2, <1>3 DEF Partition

LEMMA PartitionSpeculate ==
  ASSUME TypeOK, Partition, NEW s \in Streams, TrySpeculate(s)
  PROVE  Partition'
<1>1. PICK q \in specFree : /\ spec' = Update(spec, s, spec[s] \cup {q})
                            /\ specFree' = specFree \ {q}
  BY DEF TrySpeculate
<1>2. \A t \in Streams : spec'[t] = IF t = s THEN spec[s] \cup {q} ELSE spec[t]
  BY <1>1 DEF Update, TypeOK
<1>3. \A p \in SpecPermits : p \in specFree' \/ \E u \in Streams : p \in spec'[u]
  BY <1>1, <1>2 DEF Partition
<1>4. ASSUME NEW p \in SpecPermits, NEW u \in Streams, p \in spec'[u]
      PROVE  p \notin specFree' /\ \A t \in Streams : p \in spec'[t] => t = u
  BY <1>1, <1>2, <1>4 DEF Partition
<1> QED
  BY <1>3, <1>4 DEF Partition

LEMMA PartitionNext ==
  ASSUME TypeOK, Partition, [Next]_vars
  PROVE  Partition'
<1>1. CASE UNCHANGED creditVars
  BY <1>1 DEF creditVars, Partition
<1>2. ASSUME NEW s \in Streams, ReleaseCredit(s) PROVE Partition'
  BY <1>2, PartitionRelease
<1>3. ASSUME NEW s \in Streams, TrySpeculate(s) PROVE Partition'
  BY <1>3, PartitionSpeculate
<1>4. \/ UNCHANGED creditVars
      \/ \E s \in Streams : ReleaseCredit(s) \/ TrySpeculate(s)
  <2>1. ASSUME NEW s \in Streams, Consumer(s) PROVE UNCHANGED creditVars
    BY <2>1 DEF Consumer, Answer, PollRequest, PollBatch, PollEnd, PollRaise, DropStream
  <2>2. ASSUME NEW s \in Streams, Coordinator(s)
        PROVE  UNCHANGED creditVars \/ ReleaseCredit(s) \/ TrySpeculate(s)
    BY <2>2 DEF Coordinator, StartAffine, StartPool, TakeDemand, Speculate, Park, Reserve,
                ReserveClosed, DispatchAffine, DispatchPool, DispatchRefused, RoundDone, Abort
  <2>3. ASSUME NEW s \in Streams, Worker(s)
        PROVE  UNCHANGED creditVars \/ ReleaseCredit(s) \/ TrySpeculate(s)
    BY <2>3 DEF Worker, BeginRound, PullBatch, PullFails, PullNone, PullPanics, PullHangs,
                Return, TryReserve, ContinueOnDemand, ContinueSpeculatively, OutOfCredit,
                ReportAffine, ReportPool, CancelQueued, AffineExit
  <2> QED
    BY <2>1, <2>2, <2>3 DEF Next, Shutdown, vars, creditVars
<1> QED
  BY <1>1, <1>2, <1>3, <1>4

PayingInv == \A t \in Streams : Paying(t)

(* Every step keeps Paying.                                                 *)
LEMMA PayingNext ==
  ASSUME TypeOK, ControlInv, PayingInv, [Next]_vars
  PROVE  \A t \in Streams : Paying(t)'
<1> TAKE t \in Streams
<1> USE DEF PayingInv, Paying, ControlInv, Control, Looping, TypeOK, AwaitPoints, Gone, InRound, Destroyed, Update, consumerVars, wireVars, creditVars, workVars
<1>1. ASSUME NEW s \in Streams, PollRequest(s) PROVE Paying(t)'
  BY <1>1 DEF PollRequest, Polling
<1>2. ASSUME NEW s \in Streams, PollBatch(s) PROVE Paying(t)'
  BY <1>2 DEF PollBatch, Polling
<1>3. ASSUME NEW s \in Streams, PollEnd(s) PROVE Paying(t)'
  BY <1>3 DEF PollEnd, Polling
<1>4. ASSUME NEW s \in Streams, PollRaise(s) PROVE Paying(t)'
  BY <1>4 DEF PollRaise, Polling
<1>5. ASSUME NEW s \in Streams, DropStream(s) PROVE Paying(t)'
  BY <1>5 DEF DropStream
<1>6. ASSUME NEW s \in Streams, StartAffine(s) PROVE Paying(t)'
  BY <1>6 DEF StartAffine
<1>7. ASSUME NEW s \in Streams, StartPool(s) PROVE Paying(t)'
  BY <1>7 DEF StartPool
<1>8. ASSUME NEW s \in Streams, TakeDemand(s) PROVE Paying(t)'
  BY <1>8 DEF TakeDemand
<1>9. ASSUME NEW s \in Streams, Speculate(s) PROVE Paying(t)'
  BY <1>9 DEF Speculate, TrySpeculate
<1>10. ASSUME NEW s \in Streams, Park(s) PROVE Paying(t)'
  BY <1>10 DEF Park, CanSpeculate
<1>11. ASSUME NEW s \in Streams, Reserve(s) PROVE Paying(t)'
  BY <1>11 DEF Reserve, FreeSlot
<1>12. ASSUME NEW s \in Streams, ReserveClosed(s) PROVE Paying(t)'
  <2>1. /\ co[s] = "reserve" /\ stream[s] = "dropped"
        /\ co' = Update(co, s, "ended")
        /\ ReleaseCredit(s)
        /\ UNCHANGED <<consumerVars, wireVars, host, affineFree, workVars, done, rt>>
    BY <1>12, ReserveClosedEffect
  <2>2. PICK place \in Place :
          /\ reader' = Update(reader, s, place)
          /\ reader[s] \in Destroyed \cup {"host"} => place = reader[s]
          /\ reader[s] \in {"future", "guard", "output"} => place \in {"pool", "worker"}
    BY <1>12, ReserveClosedEffect
  <2> QED
    BY <2>1, <2>2 DEF ReleaseCredit, Place
<1>13. ASSUME NEW s \in Streams, DispatchAffine(s) PROVE Paying(t)'
  <2>1. CASE thr[s] = "idle"
    <3>1. CASE t = s
      BY <1>13, <2>1, <3>1 DEF DispatchAffine
    <3>2. CASE t # s
      BY <1>13, <2>1, <3>2 DEF DispatchAffine
    <3> QED
      BY <3>1, <3>2
  <2>2. CASE thr[s] # "idle"
    <3>1. /\ co[s] = "dispatch" /\ host[s] = "affine"
          /\ co' = Update(co, s, "ended")
          /\ slot' = Update(slot, s, FALSE)
          /\ ReleaseCredit(s)
          /\ UNCHANGED <<consumerVars, demand, chan, host, affineFree, done, reader,
                         thr, pulls, last, late, rt>>
      BY <1>13, <2>2 DEF DispatchAffine
    <3> QED
      BY <2>2, <3>1 DEF ReleaseCredit
  <2> QED
    BY <2>1, <2>2
<1>14. ASSUME NEW s \in Streams, DispatchPool(s) PROVE Paying(t)'
  BY <1>14 DEF DispatchPool
<1>15. ASSUME NEW s \in Streams, DispatchRefused(s) PROVE Paying(t)'
  BY <1>15 DEF DispatchRefused, ReleaseCredit
<1>16. ASSUME NEW s \in Streams, RoundDone(s) PROVE Paying(t)'
  <2>1. /\ co[s] = "round"
        /\ done[s] \in {"more", "over", "panic", "cancelled"}
        /\ done' = Update(done, s, "none")
        /\ UNCHANGED <<consumerVars, wireVars, host, affineFree, creditVars, workVars, rt>>
    BY <1>16, RoundDoneEffect
  <2>2. PICK state \in Gone \cup {"credit"}, place \in Place :
          /\ co' = Update(co, s, state)
          /\ reader' = Update(reader, s, place)
          /\ done[s] = "more" <=> state = "credit"
          /\ done[s] = "over" <=> state = "ended"
          /\ done[s] = "panic" <=> state = "panicked"
          /\ done[s] = "cancelled" <=> state = "failed"
          /\ reader[s] \in Destroyed \cup {"host"} => place = reader[s]
          /\ state = "credit" /\ reader[s] = "output" => place = "guard"
          /\ state # "credit" /\ reader[s] \notin Destroyed \cup {"host"}
                => place \in {"pool", "worker"}
    BY <1>16, RoundDoneEffect
  <2> QED
    BY <2>1, <2>2 DEF Place
<1>17. ASSUME NEW s \in Streams, Abort(s) PROVE Paying(t)'
  <2>1. /\ co[s] \in AwaitPoints
        /\ stream[s] = "dropped" \/ rt = "down"
        /\ co' = Update(co, s, "aborted")
        /\ done' = Update(done, s, "none")
        /\ co[s] = "reserve" => ReleaseCredit(s)
        /\ co[s] # "reserve" => UNCHANGED creditVars
        /\ UNCHANGED <<consumerVars, wireVars, host, affineFree, workVars, rt>>
    BY <1>17, AbortEffect
  <2>2. PICK place \in Place :
          /\ reader' = Update(reader, s, place)
          /\ reader[s] \in Destroyed \cup {"host"} => place = reader[s]
          /\ reader[s] \in {"future", "guard", "output"} => place \in {"pool", "worker"}
    BY <1>17, AbortEffect
  <2>3. CASE co[s] = "reserve"
    BY <2>1, <2>2, <2>3 DEF ReleaseCredit, Place
  <2>4. CASE co[s] # "reserve"
    BY <2>1, <2>2, <2>4 DEF Place
  <2> QED
    BY <2>3, <2>4
<1>18. ASSUME NEW s \in Streams, BeginRound(s) PROVE Paying(t)'
  BY <1>18 DEF BeginRound, Enter
<1>19. ASSUME NEW s \in Streams, PullBatch(s) PROVE Paying(t)'
  BY <1>19 DEF PullBatch, Return, Send
<1>20. ASSUME NEW s \in Streams, PullFails(s) PROVE Paying(t)'
  BY <1>20 DEF PullFails, Return, Send, Error
<1>21. ASSUME NEW s \in Streams, PullNone(s) PROVE Paying(t)'
  BY <1>21 DEF PullNone, Return
<1>22. ASSUME NEW s \in Streams, PullPanics(s) PROVE Paying(t)'
  BY <1>22 DEF PullPanics, Return
<1>23. ASSUME NEW s \in Streams, PullHangs(s) PROVE Paying(t)'
  BY <1>23 DEF PullHangs
<1>24. ASSUME NEW s \in Streams, TryReserve(s) PROVE Paying(t)'
  <2>1. CASE FreeSlot(s)
    <3>1. CASE t = s
      BY <1>24, <2>1, <3>1 DEF TryReserve
    <3>2. CASE t # s
      BY <1>24, <2>1, <3>2 DEF TryReserve
    <3> QED
      BY <3>1, <3>2
  <2>2. CASE ~FreeSlot(s)
    <3>1. CASE t = s
      BY <1>24, <2>2, <3>1 DEF TryReserve
    <3>2. CASE t # s
      BY <1>24, <2>2, <3>2 DEF TryReserve
    <3> QED
      BY <3>1, <3>2
  <2> QED
    BY <2>1, <2>2
<1>25. ASSUME NEW s \in Streams, ContinueOnDemand(s) PROVE Paying(t)'
  BY <1>25 DEF ContinueOnDemand, Enter
<1>26. ASSUME NEW s \in Streams, ContinueSpeculatively(s) PROVE Paying(t)'
  BY <1>26 DEF ContinueSpeculatively, TrySpeculate, Enter
<1>27. ASSUME NEW s \in Streams, OutOfCredit(s) PROVE Paying(t)'
  BY <1>27 DEF OutOfCredit, CanSpeculate
<1>28. ASSUME NEW s \in Streams, ReportAffine(s) PROVE Paying(t)'
  BY <1>28 DEF ReportAffine, ReleaseCredit, Publish
<1>29. ASSUME NEW s \in Streams, ReportPool(s) PROVE Paying(t)'
  BY <1>29 DEF ReportPool, ReleaseCredit, Publish
<1>30. ASSUME NEW s \in Streams, CancelQueued(s) PROVE Paying(t)'
  BY <1>30 DEF CancelQueued, ReleaseCredit
<1>31. ASSUME NEW s \in Streams, AffineExit(s) PROVE Paying(t)'
  BY <1>31 DEF AffineExit
<1>32. CASE Shutdown
  BY <1>32 DEF Shutdown
<1>33. CASE UNCHANGED vars
  BY <1>33 DEF vars
<1> QED
  BY <1>1, <1>2, <1>3, <1>4, <1>5, <1>6, <1>7, <1>8, <1>9, <1>10,
     <1>11, <1>12, <1>13, <1>14, <1>15, <1>16, <1>17, <1>18, <1>19, <1>20, <1>21,
     <1>22, <1>23, <1>24, <1>25, <1>26, <1>27, <1>28, <1>29, <1>30, <1>31, <1>32, <1>33
     DEF Next, Consumer, Answer, Coordinator, Worker

-----------------------------------------------------------------------------
(* The budget of dedicated threads.                                         *)

Threads == {s \in Streams : HoldsThread(s)}

LEMMA ThreadsFinite == IsFiniteSet(Threads) /\ IsFiniteSet(Threads')
<1>1. Threads \subseteq Streams /\ Threads' \subseteq Streams
  BY DEF Threads
<1> QED
  BY <1>1, StreamsAssumption, FS_Subset

(* A step starts one thread, ends one thread, or leaves threads and permits *)
(* as they are.                                                             *)
LEMMA ThreadsStep ==
  ASSUME TypeOK, ControlInv, [Next]_vars
  PROVE  \/ affineFree' = affineFree /\ Threads' = Threads
         \/ \E s \in Streams \ Threads : /\ affineFree > 0
                                         /\ affineFree' = affineFree - 1
                                         /\ Threads' = Threads \cup {s}
         \/ \E s \in Threads : /\ affineFree' = affineFree + 1
                               /\ Threads' = Threads \ {s}
<1> USE DEF Threads, HoldsThread
<1> DEFINE Same == affineFree' = affineFree /\ \A t \in Streams : HoldsThread(t)' <=> HoldsThread(t)
<1>1. ASSUME Same PROVE affineFree' = affineFree /\ Threads' = Threads
  BY <1>1
<1>2. CASE UNCHANGED <<affineFree, host, thr>>
  BY <1>2
<1>3. ASSUME NEW s \in Streams, StartAffine(s)
      PROVE  /\ s \notin Threads /\ affineFree > 0 /\ affineFree' = affineFree - 1
             /\ Threads' = Threads \cup {s}
  BY <1>3 DEF StartAffine, TypeOK, ControlInv, Control, Update
<1>4. ASSUME NEW s \in Streams, AffineExit(s)
      PROVE  s \in Threads /\ affineFree' = affineFree + 1 /\ Threads' = Threads \ {s}
  BY <1>4 DEF AffineExit, TypeOK, ControlInv, Control, Update
<1>5. ASSUME NEW s \in Streams, StartPool(s) PROVE Same
  BY <1>5 DEF StartPool, TypeOK, ControlInv, Control, Update, workVars
<1>6. ASSUME NEW s \in Streams, NEW new, new # "exited",
             thr[s] # "exited" \/ host[s] # "affine",
             thr' = Update(thr, s, new), host' = host, affineFree' = affineFree
      PROVE  Same
  BY <1>6 DEF TypeOK, Update
<1>7. ASSUME NEW s \in Streams, Coordinator(s), ~StartAffine(s), ~StartPool(s)
      PROVE  affineFree' = affineFree /\ Threads' = Threads
  <2>1. CASE DispatchAffine(s)
    <3>1. thr[s] = "idle" /\ thr' = Update(thr, s, "queued")
      BY <2>1 DEF DispatchAffine, TypeOK, ControlInv, Control, Looping
    <3> QED
      BY <1>1, <1>6, <2>1, <3>1 DEF DispatchAffine
  <2>2. CASE DispatchPool(s)
    BY <1>1, <1>6, <2>2 DEF DispatchPool
  <2>3. CASE ~DispatchAffine(s) /\ ~DispatchPool(s)
    BY <1>7, <2>3 DEF Coordinator, TakeDemand, Speculate, Park, Reserve, ReserveClosed,
                      DispatchRefused, RoundDone, Abort, workVars
  <2> QED
    BY <2>1, <2>2, <2>3
<1>8. ASSUME NEW s \in Streams, Worker(s), ~AffineExit(s)
      PROVE  affineFree' = affineFree /\ Threads' = Threads
  <2>1. /\ thr[s] \in InRound \cup {"queued"}
        /\ host' = host /\ affineFree' = affineFree
        /\ \E new \in InRound \cup {"none", "idle", "exiting"} : thr' = Update(thr, s, new)
    BY <1>8 DEF Worker, BeginRound, Enter, PullBatch, PullFails, PullNone, PullPanics,
                PullHangs, Return, TryReserve, ContinueOnDemand, ContinueSpeculatively,
                OutOfCredit, ReportAffine, ReportPool, CancelQueued, InRound
  <2> QED
    BY <1>1, <1>6, <2>1 DEF InRound
<1> QED
  BY <1>1, <1>2, <1>3, <1>4, <1>5, <1>7, <1>8, ZenonT(60)
     DEF Next, Shutdown, Consumer, Answer, PollRequest, PollBatch, PollEnd, PollRaise,
         DropStream, Coordinator, Worker, vars, workVars

LEMMA AffineNext ==
  ASSUME TypeOK, ControlInv, AffineConserved, [Next]_vars
  PROVE  AffineConserved'
<1>1. affineFree + Cardinality(Threads) = AffineBudget
  BY DEF AffineConserved, Threads
<1>2. Cardinality(Threads) \in Nat
  BY ThreadsFinite, FS_CardinalityType
<1>3. affineFree' + Cardinality(Threads') = AffineBudget
  <2>1. CASE affineFree' = affineFree /\ Threads' = Threads
    BY <1>1, <2>1
  <2>2. ASSUME NEW s \in Streams \ Threads, affineFree > 0,
               affineFree' = affineFree - 1, Threads' = Threads \cup {s}
        PROVE  affineFree' + Cardinality(Threads') = AffineBudget
    <3>1. Cardinality(Threads \cup {s}) = Cardinality(Threads) + 1
      BY ThreadsFinite, FS_AddElement
    <3> QED
      BY <1>1, <1>2, <2>2, <3>1 DEF TypeOK
  <2>3. ASSUME NEW s \in Threads, affineFree' = affineFree + 1, Threads' = Threads \ {s}
        PROVE  affineFree' + Cardinality(Threads') = AffineBudget
    <3>1. Cardinality(Threads \ {s}) = Cardinality(Threads) - 1
      BY ThreadsFinite, FS_RemoveElement
    <3> QED
      BY <1>1, <1>2, <2>3, <3>1 DEF TypeOK
  <2> QED
    BY <2>1, <2>2, <2>3, ThreadsStep
<1> QED
  BY <1>3 DEF AffineConserved, Threads

-----------------------------------------------------------------------------
(* The invariant and what follows from it.                                  *)

IInv == /\ TypeOK /\ ControlInv /\ SlottedInv /\ ResultsInv /\ OwnedInv
        /\ DropPartInv /\ DemandPartInv
        /\ Partition /\ PayingInv /\ AffineConserved

LEMMA IInvInit == Init => IInv
<1> SUFFICES ASSUME Init PROVE IInv
  OBVIOUS
<1>1. TypeOK
  BY BoundsAssumption DEF Init, TypeOK, AwaitPoints, Gone, InRound, Destroyed
<1>2. ControlInv /\ SlottedInv /\ ResultsInv /\ OwnedInv /\ DropPartInv
  BY DEF Init, ControlInv, Control, SlottedInv, Slotted, ResultsInv, Results, OwnedInv,
         Owned, DropPartInv, DropPart, Looping, InRound
<1>3. DemandPartInv
  BY StreamsAssumption DEF Init, DemandPartInv, DemandPart, Asked
<1>4. Partition /\ PayingInv
  BY DEF Init, Partition, PayingInv, Paying
<1>5. AffineConserved
  <2>1. {s \in Streams : HoldsThread(s)} = {}
    BY DEF Init, HoldsThread
  <2>2. Cardinality({s \in Streams : HoldsThread(s)}) = 0
    BY <2>1, FS_EmptySet
  <2>3. affineFree = AffineBudget
    BY DEF Init
  <2> QED
    BY <2>2, <2>3, BoundsAssumption DEF AffineConserved
<1> QED
  BY <1>1, <1>2, <1>3, <1>4, <1>5 DEF IInv

LEMMA IInvNext == IInv /\ [Next]_vars => IInv'
<1> SUFFICES ASSUME IInv, [Next]_vars PROVE IInv'
  OBVIOUS
<1> USE DEF IInv
<1>1. TypeOK'
  BY TypeOKNext
<1>2. ControlInv' /\ SlottedInv' /\ ResultsInv' /\ OwnedInv'
  BY ControlNext, SlottedNext, ResultsNext, OwnedNext
     DEF ControlInv, SlottedInv, ResultsInv, OwnedInv
<1>3. DropPartInv' /\ DemandPartInv'
  BY DropPartNext, DemandPartNext DEF DropPartInv, DemandPartInv
<1>4. Partition' /\ PayingInv' /\ AffineConserved'
  BY PartitionNext, PayingNext, AffineNext DEF PayingInv
<1> QED
  BY <1>1, <1>2, <1>3, <1>4

(* The invariant holds of every reachable state.                            *)
THEOREM Invariance == Spec => []IInv
BY IInvInit, IInvNext, PTL DEF Spec

(* No speculation permit leaks or is returned twice, whatever is aborted,   *)
(* cancelled or panics.                                                     *)
THEOREM SpeculationSafe == Spec => []SpeculationConserved
<1>1. IInv => SpeculationConserved
  <2> SUFFICES ASSUME IInv PROVE SpeculationConserved
    OBVIOUS
  <2>1. specFree \cup UNION {spec[s] : s \in Streams} = SpecPermits
    BY DEF IInv, TypeOK, Partition
  <2>2. ASSUME NEW s \in Streams
        PROVE  /\ spec[s] \cap specFree = {}
               /\ \A t \in Streams \ {s} : spec[s] \cap spec[t] = {}
    BY DEF IInv, TypeOK, Partition
  <2>3. ASSUME NEW s \in Streams, spec[s] # {}
        PROVE  co[s] \in {"reserve", "dispatch"} \/ thr[s] \in InRound \cup {"queued"}
    BY <2>3 DEF IInv, PayingInv, Paying
  <2> QED
    BY <2>1, <2>2, <2>3 DEF SpeculationConserved
<1> QED
  BY <1>1, Invariance, PTL

(* The affine budget counts exactly the live pull threads.                  *)
THEOREM AffineSafe == Spec => []AffineConserved
<1>1. IInv => AffineConserved
  BY DEF IInv
<1> QED
  BY <1>1, Invariance, PTL

(* A dropped stream enters its reader at most once more.                    *)
THEOREM DropSafe == Spec => []AtMostOnePullAfterDrop
<1>1. IInv => AtMostOnePullAfterDrop
  BY DEF IInv, DropPartInv, DropPart, AtMostOnePullAfterDrop
<1> QED
  BY <1>1, Invariance, PTL

(* An OnDemand reader is entered only for batches the consumer polled for.  *)
THEOREM OnDemandSafe == Spec => []OnDemandExact
<1>1. IInv => OnDemandExact
  <2> SUFFICES ASSUME IInv, NEW s \in OnDemand PROVE pulls[s] <= Asked(s)
    BY DEF OnDemandExact
  <2>1. s \in Streams
    BY StreamsAssumption
  <2>2. pulls[s] \in Nat /\ demand[s] \in Nat /\ Len(delivered[s]) \in Nat
    BY <2>1 DEF IInv, TypeOK
  <2>3. Asked(s) \in Nat
    <3>1. CASE requested[s]
      BY <2>2, <3>1 DEF Asked
    <3>2. CASE ~requested[s]
      BY <2>2, <3>2 DEF Asked
    <3> QED
      BY <3>1, <3>2
  <2>4. \E c \in {0, 1} : pulls[s] + demand[s] + c <= Asked(s)
    BY <2>1 DEF IInv, DemandPartInv, DemandPart
  <2> QED
    BY <2>2, <2>3, <2>4
<1> QED
  BY <1>1, Invariance, PTL

(* A reader with its own thread lives and dies there.                       *)
THEOREM ReaderSafe == Spec => []ReaderStaysOnItsThread
<1>1. IInv => ReaderStaysOnItsThread
  BY DEF IInv, OwnedInv, Owned, ReaderStaysOnItsThread, Destroyed
<1> QED
  BY <1>1, Invariance, PTL

(* The reader is called only after Some(Ok(_)) and only by its owner.       *)
THEOREM PullSafe == Spec => PullContract
<1>1. IInv /\ [Next]_vars =>
        [\A s \in Streams : pulls'[s] # pulls[s] =>
            last[s] \in {"unread", "ok"} /\ reader[s] = "host"]_vars
  <2> SUFFICES ASSUME IInv, [Next]_vars, NEW t \in Streams, pulls'[t] # pulls[t]
               PROVE  last[t] \in {"unread", "ok"} /\ reader[t] = "host"
    OBVIOUS
  <2>1. \E s \in Streams : thr[s] \in {"queued", "slot"} /\ pulls' = Update(pulls, s, pulls[s] + 1)
    <3>1. ASSUME NEW s \in Streams, Consumer(s) PROVE UNCHANGED pulls
      BY <3>1 DEF Consumer, Answer, PollRequest, PollBatch, PollEnd, PollRaise, DropStream,
                  workVars
    <3>2. ASSUME NEW s \in Streams, Coordinator(s) PROVE UNCHANGED pulls
      BY <3>2 DEF Coordinator, StartAffine, StartPool, TakeDemand, Speculate, Park, Reserve,
                  ReserveClosed, DispatchAffine, DispatchPool, DispatchRefused, RoundDone,
                  Abort, workVars
    <3>3. ASSUME NEW s \in Streams, Worker(s)
          PROVE  \/ UNCHANGED pulls
                 \/ thr[s] \in {"queued", "slot"} /\ pulls' = Update(pulls, s, pulls[s] + 1)
      BY <3>3 DEF Worker, BeginRound, Enter, PullBatch, PullFails, PullNone, PullPanics,
                  PullHangs, Return, TryReserve, ContinueOnDemand, ContinueSpeculatively,
                  OutOfCredit, ReportAffine, ReportPool, CancelQueued, AffineExit
    <3> QED
      BY <3>1, <3>2, <3>3 DEF Next, Shutdown, vars, workVars
  <2>2. thr[t] \in {"queued", "slot"}
    BY <2>1 DEF Update, IInv, TypeOK
  <2> QED
    BY <2>2 DEF IInv, TypeOK, ResultsInv, Results, OwnedInv, Owned, InRound
<1> QED
  BY <1>1, Invariance, PTL DEF Spec, PullContract

-----------------------------------------------------------------------------
(* The last call of pull() has put nothing in the channel: it has not       *)
(* returned, or returned no item.                                           *)
Barren(s) == thr[s] \in {"pulling", "stuck"} \/ last[s] \in {"none", "panic"}

(* While the stream lives every other call of pull() put one item in the    *)
(* channel, and the channel has room for the call under way.                *)
FlowPart(s) ==
    /\ Len(chan[s]) <= Capacity
    /\ slot[s] => Len(chan[s]) + 1 <= Capacity
    /\ stream[s] = "live" /\ Barren(s) =>
         /\ pulls[s] = Len(delivered[s]) + Len(chan[s]) + 1
         /\ Len(chan[s]) + 1 <= Capacity
    /\ stream[s] = "live" /\ ~Barren(s) => pulls[s] = Len(delivered[s]) + Len(chan[s])
    /\ stream[s] = "dropped" => chan[s] = <<>>

(* dl received and c queued are in order: item i is batch i, but for an     *)
(* error, which is last and is there only if the reader failed.             *)
Ordered(dl, c, failed) ==
    /\ \A i \in 1..Len(dl) : \/ dl[i] = i
                             \/ dl[i] = Error /\ i = Len(dl) /\ c = <<>> /\ failed
    /\ \A i \in 1..Len(c) : \/ c[i] = Len(dl) + i
                            \/ c[i] = Error /\ i = Len(c) /\ failed

(* The last item to arrive is the error.                                    *)
ErrorLast(dl, c) ==
    \/ c # <<>> /\ c[Len(c)] = Error
    \/ c = <<>> /\ dl # <<>> /\ dl[Len(dl)] = Error

(* What arrived is in order; while the stream lives, a reader that failed   *)
(* left its error as the last item.                                         *)
OrderPart(s) ==
    /\ Ordered(delivered[s], chan[s], last[s] = "err")
    /\ stream[s] = "live" /\ last[s] = "err" => ErrorLast(delivered[s], chan[s])

(* The consumer was told the end: nothing is under way any more.            *)
EndPart(s) ==
    outcome[s] = "end" => /\ co[s] = "ended"
                          /\ chan[s] = <<>>
                          /\ \/ last[s] = "none" /\ Len(delivered[s]) + 1 = pulls[s]
                             \/ last[s] = "err" /\ delivered[s] # <<>>
                                                /\ delivered[s][Len(delivered[s])] = Error

FlowPartInv == \A t \in Streams : FlowPart(t)

OrderPartInv == \A t \in Streams : OrderPart(t)

-----------------------------------------------------------------------------
(* The order of two sequences under the steps that extend them.             *)

(* Sending the next batch, or an error, keeps the order.                    *)
LEMMA OrderedSend ==
  ASSUME NEW dl \in Seq(Nat), NEW c \in Seq(Nat), Ordered(dl, c, FALSE)
  PROVE  /\ Ordered(dl, Append(c, Len(dl) + Len(c) + 1), FALSE)
         /\ Ordered(dl, Append(c, Error), TRUE)
         /\ ErrorLast(dl, Append(c, Error))
<1>1. ASSUME NEW item \in Nat
      PROVE  /\ Len(Append(c, item)) = Len(c) + 1
             /\ \A i \in 1..Len(c) : Append(c, item)[i] = c[i]
             /\ Append(c, item)[Len(c) + 1] = item
             /\ Append(c, item) # <<>>
  OBVIOUS
<1>2. Len(dl) \in Nat /\ Len(c) \in Nat
  OBVIOUS
<1>3. \A i \in 1..(Len(c) + 1) : i \in 1..Len(c) \/ i = Len(c) + 1
  BY <1>2
<1>4. \A i \in 1..Len(dl) : dl[i] = i
  BY DEF Ordered
<1>5. \A i \in 1..Len(c) : c[i] = Len(dl) + i
  BY DEF Ordered
<1>6. Ordered(dl, Append(c, Len(dl) + Len(c) + 1), FALSE)
  <2> DEFINE item == Len(dl) + Len(c) + 1
  <2>1. item \in Nat /\ item = Len(dl) + (Len(c) + 1)
    BY <1>2
  <2> HIDE DEF item
  <2>2. \A i \in 1..Len(Append(c, item)) : Append(c, item)[i] = Len(dl) + i
    BY <1>1, <1>3, <1>5, <2>1, SMTT(60)
  <2> QED
    BY <1>4, <2>2 DEF Ordered, item
<1>7. Ordered(dl, Append(c, Error), TRUE) /\ ErrorLast(dl, Append(c, Error))
  <2>1. Error \in Nat
    BY DEF Error
  <2>2. \A i \in 1..Len(Append(c, Error)) :
          \/ Append(c, Error)[i] = Len(dl) + i
          \/ Append(c, Error)[i] = Error /\ i = Len(Append(c, Error))
    BY <1>1, <1>3, <1>5, <2>1
  <2>3. ErrorLast(dl, Append(c, Error))
    BY <1>1, <2>1 DEF ErrorLast
  <2> QED
    BY <1>4, <2>2, <2>3 DEF Ordered
<1> QED
  BY <1>6, <1>7

(* Receiving the head of the queue keeps the order.                         *)
LEMMA OrderedMove ==
  ASSUME NEW dl \in Seq(Nat), NEW c \in Seq(Nat), c # <<>>, NEW failed \in BOOLEAN,
         Ordered(dl, c, failed), failed => ErrorLast(dl, c)
  PROVE  /\ Ordered(Append(dl, Head(c)), Tail(c), failed)
         /\ failed => ErrorLast(Append(dl, Head(c)), Tail(c))
<1> DEFINE e == Append(dl, Head(c))
           r == Tail(c)
           n == Len(c)
           d == Len(dl)
<1>1. n \in Nat /\ n >= 1 /\ d \in Nat /\ Head(c) = c[1] /\ Head(c) \in Nat
  OBVIOUS
<1>2. /\ r \in Seq(Nat) /\ Len(r) = n - 1
      /\ \A i \in 1..(n - 1) : r[i] = c[i + 1]
  OBVIOUS
<1>3. r = <<>> <=> n = 1
  <2> HIDE DEF r, n
  <2>1. r = <<>> <=> Len(r) = 0
    BY <1>2, EmptySeq
  <2> QED
    BY <1>1, <1>2, <2>1
<1>4. /\ Len(e) = d + 1 /\ e # <<>>
      /\ \A i \in 1..d : e[i] = dl[i]
      /\ e[d + 1] = c[1]
  BY <1>1
<1>5. \A i \in 1..d : dl[i] = i
  BY DEF Ordered
<1>6. \A i \in 1..n : c[i] = d + i \/ (c[i] = Error /\ i = n /\ failed)
  BY DEF Ordered
<1>7. failed => c[n] = Error
  BY DEF ErrorLast
<1> HIDE DEF e, r, n, d
<1>8. c[1] = d + 1 \/ (c[1] = Error /\ n = 1 /\ failed)
  <2>1. 1 \in 1..n
    BY <1>1
  <2> QED
    BY <1>6, <2>1
<1>9. \A i \in 1..Len(e) : e[i] = i \/ (e[i] = Error /\ i = Len(e) /\ r = <<>> /\ failed)
  <2>1. \A i \in 1..Len(e) : i \in 1..d \/ i = d + 1
    BY <1>1, <1>4
  <2> QED
    BY <1>3, <1>4, <1>5, <1>8, <2>1
<1>10. ASSUME NEW i \in 1..Len(r)
       PROVE  r[i] = Len(e) + i \/ (r[i] = Error /\ i = Len(r) /\ failed)
  <2>1. i \in 1..(n - 1) /\ i + 1 \in 1..n /\ i \in Nat
    BY <1>1, <1>2
  <2>2. c[i + 1] = d + (i + 1) \/ (c[i + 1] = Error /\ i + 1 = n /\ failed)
    BY <1>6, <2>1
  <2>3. r[i] = c[i + 1]
    BY <1>2, <2>1
  <2>4. d + (i + 1) = Len(e) + i /\ (i + 1 = n => i = Len(r))
    BY <1>1, <1>2, <1>4, <2>1
  <2> QED
    BY <2>2, <2>3, <2>4
<1>11. failed => ErrorLast(e, r)
  <2>1. CASE n = 1
    BY <1>3, <1>4, <1>7, <2>1 DEF ErrorLast
  <2>2. CASE n # 1
    <3>1. n - 1 \in 1..(n - 1) /\ (n - 1) + 1 = n
      BY <1>1, <2>2
    <3>2. r[n - 1] = c[n]
      BY <1>2, <3>1
    <3> QED
      BY <1>2, <1>3, <1>7, <2>2, <3>2 DEF ErrorLast
  <2> QED
    BY <2>1, <2>2
<1>12. Ordered(e, r, failed)
  BY <1>9, <1>10 DEF Ordered
<1> QED
  BY <1>11, <1>12 DEF e, r
-----------------------------------------------------------------------------
(* What the steps that move items do to the two sequences.                  *)

(* Sending through a permit appends to a live channel.                      *)
LEMMA SendEffect ==
  ASSUME TypeOK, NEW s \in Streams, NEW item \in Nat, Send(s, item)
  PROVE  /\ ~slot'[s]
         /\ stream[s] = "dropped" => chan'[s] = chan[s]
         /\ stream[s] = "live" => /\ chan'[s] = Append(chan[s], item)
                                  /\ Len(chan'[s]) = Len(chan[s]) + 1
         /\ \A t \in Streams : t # s => chan'[t] = chan[t] /\ slot'[t] = slot[t]
<1>1. /\ chan[s] \in Seq(Nat)
      /\ slot \in [Streams -> BOOLEAN]
      /\ chan \in [Streams -> Seq(Nat)]
  BY DEF TypeOK
<1>2. /\ slot' = Update(slot, s, FALSE)
      /\ stream[s] = "dropped" => chan' = chan
      /\ stream[s] = "live" => chan' = Update(chan, s, Append(chan[s], item))
  BY DEF Send, TypeOK
<1>3. \A t \in Streams : t # s => chan'[t] = chan[t] /\ slot'[t] = slot[t]
  <2>1. CASE stream[s] = "live"
    BY <1>1, <1>2, <2>1 DEF Update
  <2>2. CASE stream[s] = "dropped"
    BY <1>1, <1>2, <2>2 DEF Update
  <2> QED
    BY <2>1, <2>2 DEF TypeOK
<1>4. stream[s] = "live" => chan'[s] = Append(chan[s], item)
  BY <1>1, <1>2 DEF Update
<1>5. Len(Append(chan[s], item)) = Len(chan[s]) + 1
  BY <1>1
<1>6. ~slot'[s]
  BY <1>1, <1>2 DEF Update
<1> QED
  BY <1>2, <1>3, <1>4, <1>5, <1>6

(* A delivery moves the head of the channel to the end of what was          *)
(* delivered.                                                               *)
LEMMA DeliveryEffect ==
  ASSUME TypeOK, NEW s \in Streams, PollBatch(s)
  PROVE  /\ chan[s] \in Seq(Nat) /\ chan[s] # <<>> /\ delivered[s] \in Seq(Nat)
         /\ delivered'[s] = Append(delivered[s], Head(chan[s]))
         /\ chan'[s] = Tail(chan[s])
         /\ Len(chan[s]) \in Nat \ {0} /\ Len(chan'[s]) = Len(chan[s]) - 1
         /\ Len(delivered[s]) \in Nat /\ Len(delivered'[s]) = Len(delivered[s]) + 1
         /\ \A t \in Streams : t # s => chan'[t] = chan[t] /\ delivered'[t] = delivered[t]
<1>1. chan[s] \in Seq(Nat) /\ delivered[s] \in Seq(Nat) /\ chan[s] # <<>>
  BY DEF TypeOK, PollBatch
<1>2. /\ delivered'[s] = Append(delivered[s], Head(chan[s]))
      /\ chan'[s] = Tail(chan[s])
      /\ \A t \in Streams : t # s => chan'[t] = chan[t] /\ delivered'[t] = delivered[t]
  BY DEF PollBatch, TypeOK, Update
<1>3. Len(chan[s]) \in Nat \ {0} /\ Head(chan[s]) \in Nat
  BY <1>1
<1>4. Len(Tail(chan[s])) = Len(chan[s]) - 1
  BY <1>1
<1>5. /\ Len(delivered[s]) \in Nat
      /\ Len(Append(delivered[s], Head(chan[s]))) = Len(delivered[s]) + 1
  BY <1>1, <1>3
<1> QED
  BY <1>1, <1>2, <1>3, <1>4, <1>5

(* A step that leaves the variables of a stream alone keeps its parts.      *)
LEMMA Untouched ==
  ASSUME NEW t \in Streams,
         stream'[t] = stream[t], delivered'[t] = delivered[t], chan'[t] = chan[t],
         slot'[t] = slot[t], pulls'[t] = pulls[t], thr'[t] = thr[t], last'[t] = last[t]
  PROVE  (FlowPart(t) => FlowPart(t)') /\ (OrderPart(t) => OrderPart(t)')
BY DEF FlowPart, Barren, OrderPart

-----------------------------------------------------------------------------
(* The steps that move items, one stream at a time.                         *)

(* Entering pull() uses the slot in hand and puts nothing in the channel    *)
(* yet.                                                                     *)
LEMMA FlowEnter ==
  ASSUME IInv, FlowPartInv, NEW s \in Streams, NEW t \in Streams,
         BeginRound(s) \/ ContinueOnDemand(s) \/ ContinueSpeculatively(s)
  PROVE  FlowPart(t)'
<1>1. TypeOK
  BY DEF IInv
<1> /\ thr[s] \in {"queued", "slot"} /\ Enter(s)
    /\ UNCHANGED <<stream, delivered, chan, slot>>
  BY DEF BeginRound, ContinueOnDemand, ContinueSpeculatively, consumerVars, wireVars
<1>2. CASE t # s
  BY <1>1, <1>2, Untouched DEF Enter, Update, TypeOK, FlowPartInv
<1>3. CASE t = s
  <2>1. slot[s] /\ last[s] \notin {"err", "none", "panic"}
    BY DEF IInv, SlottedInv, Slotted, ResultsInv, Results
  <2>2. thr'[s] = "pulling" /\ pulls'[s] = pulls[s] + 1 /\ last'[s] = last[s]
    BY <1>1 DEF Enter, Update, TypeOK
  <2>3. FlowPart(s) /\ ~Barren(s)
    BY <2>1 DEF FlowPartInv, Barren
  <2>4. pulls[s] \in Nat /\ Len(chan[s]) \in Nat /\ Len(delivered[s]) \in Nat
    BY <1>1 DEF TypeOK
  <2> QED
    BY <1>3, <2>1, <2>2, <2>3, <2>4 DEF FlowPart, Barren
<1> QED
  BY <1>2, <1>3

(* A pull that returned an item, batch or error, fills its slot.            *)
LEMMA FlowSend ==
  ASSUME IInv, FlowPartInv, NEW s \in Streams, NEW t \in Streams,
         PullBatch(s) \/ PullFails(s)
  PROVE  FlowPart(t)'
<1>1. TypeOK
  BY DEF IInv
<1> PICK item \in Nat, result \in {"ok", "err"}, next \in {"sent", "over"} :
      Return(s, result, next) /\ Send(s, item)
  BY <1>1 DEF PullBatch, PullFails, TypeOK, Error
<1>2. CASE t # s
  <2>1. chan'[t] = chan[t] /\ slot'[t] = slot[t]
    BY <1>1, <1>2, SendEffect
  <2>2. thr'[t] = thr[t] /\ last'[t] = last[t]
    BY <1>1, <1>2 DEF Return, Update, TypeOK
  <2>3. UNCHANGED <<stream, delivered, pulls>>
    BY DEF Return, consumerVars
  <2> QED
    BY <2>1, <2>2, <2>3, Untouched DEF FlowPartInv
<1>3. CASE t = s
  <2>1. slot[s] /\ thr[s] = "pulling"
    BY DEF IInv, SlottedInv, Slotted, Return
  <2>2. /\ thr'[s] = next /\ pulls'[s] = pulls[s] /\ last'[s] = result
        /\ stream'[s] = stream[s] /\ delivered'[s] = delivered[s]
    BY <1>1 DEF Return, Update, TypeOK, consumerVars
  <2>3. FlowPart(s) /\ Barren(s) /\ ~Barren(s)'
    BY <2>1, <2>2 DEF FlowPartInv, Barren
  <2>4. /\ pulls[s] \in Nat /\ Len(chan[s]) \in Nat /\ Len(delivered[s]) \in Nat
        /\ stream[s] \in {"live", "dropped"}
    BY <1>1 DEF TypeOK
  <2>5. /\ ~slot'[s]
        /\ stream[s] = "dropped" => chan'[s] = chan[s]
        /\ stream[s] = "live" => Len(chan'[s]) = Len(chan[s]) + 1
    BY <1>1, SendEffect
  <2> SUFFICES FlowPart(s)'
    BY <1>3
  <2>6. CASE stream[s] = "live"
    <3>1. /\ pulls[s] = Len(delivered[s]) + Len(chan[s]) + 1
          /\ Len(chan[s]) + 1 <= Capacity
      BY <2>3, <2>6 DEF FlowPart
    <3>2. Len(chan'[s]) = Len(chan[s]) + 1
      BY <2>5, <2>6
    <3>3. pulls[s] = Len(delivered[s]) + (Len(chan[s]) + 1)
      <4>1. \A c, d \in Nat : d + c + 1 = d + (c + 1)
        OBVIOUS
      <4> QED
        BY <2>4, <3>1, <4>1
    <3>4. /\ pulls[s] = Len(delivered[s]) + Len(chan'[s])
          /\ Len(chan'[s]) <= Capacity
      BY <3>1, <3>2, <3>3
    <3> QED
      BY <2>2, <2>3, <2>5, <2>6, <3>4 DEF FlowPart
  <2>7. CASE stream[s] = "dropped"
    BY <2>2, <2>3, <2>5, <2>7 DEF FlowPart
  <2> QED
    BY <2>4, <2>6, <2>7
<1> QED
  BY <1>2, <1>3

(* Taking a slot, for the next pull of a round or for the next round.       *)
LEMMA FlowReserve ==
  ASSUME IInv, FlowPartInv, NEW s \in Streams, NEW t \in Streams,
         Reserve(s) \/ (TryReserve(s) /\ FreeSlot(s))
  PROVE  FlowPart(t)'
<1>1. TypeOK
  BY DEF IInv
<1>2. /\ FreeSlot(s) /\ slot' = Update(slot, s, TRUE)
      /\ UNCHANGED <<stream, delivered, chan, pulls, last>>
      /\ thr' = thr \/ (thr[s] = "sent" /\ thr' = Update(thr, s, "slot"))
  BY DEF Reserve, TryReserve, consumerVars, workVars
<1>3. CASE t # s
  <2>1. slot'[t] = slot[t] /\ thr'[t] = thr[t]
    BY <1>1, <1>2, <1>3 DEF Update, TypeOK
  <2> QED
    BY <1>2, <2>1, Untouched DEF FlowPartInv
<1>4. CASE t = s
  <2>1. Len(chan[s]) \in Nat /\ Capacity \in Nat
    BY <1>1, BoundsAssumption DEF TypeOK
  <2>2. Len(chan[s]) + 1 <= Capacity
    <3>1. CASE slot[s]
      BY <1>2, <2>1, <3>1 DEF FreeSlot, SlotsUsed
    <3>2. CASE ~slot[s]
      BY <1>2, <2>1, <3>2 DEF FreeSlot, SlotsUsed
    <3> QED
      BY <3>1, <3>2
  <2>3. Barren(s)' <=> Barren(s)
    BY <1>1, <1>2 DEF Barren, Update, TypeOK
  <2>4. FlowPart(s)
    BY DEF FlowPartInv
  <2> QED
    BY <1>2, <1>4, <2>2, <2>3, <2>4 DEF FlowPart
<1> QED
  BY <1>3, <1>4

(* Handing a round over, or ending it, moves no item.                       *)
LEMMA FlowDispatch ==
  ASSUME IInv, FlowPartInv, NEW s \in Streams, NEW t \in Streams, DispatchAffine(s)
  PROVE  FlowPart(t)'
<1>1. TypeOK
  BY DEF IInv
<1>2. thr[s] = "idle"
  BY DEF DispatchAffine, IInv, ControlInv, Control, Looping
<1>3. thr' = Update(thr, s, "queued") /\ UNCHANGED <<stream, delivered, chan, slot, pulls, last>>
  BY <1>2 DEF DispatchAffine, consumerVars
<1>4. Barren(t)' <=> Barren(t)
  BY <1>1, <1>2, <1>3 DEF Barren, Update, TypeOK
<1> QED
  BY <1>3, <1>4 DEF FlowPart, FlowPartInv

(* A delivery empties one place of the channel.                             *)
LEMMA FlowDelivery ==
  ASSUME IInv, FlowPartInv, NEW s \in Streams, NEW t \in Streams, PollBatch(s)
  PROVE  FlowPart(t)'
<1>1. TypeOK
  BY DEF IInv
<1>2. UNCHANGED <<stream, slot, pulls, thr, last>>
  BY DEF PollBatch, workVars
<1>3. CASE t # s
  BY <1>1, <1>2, <1>3, DeliveryEffect, Untouched DEF FlowPartInv
<1>4. CASE t = s
  <2>1. /\ Len(chan[s]) \in Nat \ {0} /\ Len(chan'[s]) = Len(chan[s]) - 1
        /\ Len(delivered'[s]) = Len(delivered[s]) + 1
    BY <1>1, DeliveryEffect
  <2>2. /\ FlowPart(s) /\ (Barren(s)' <=> Barren(s)) /\ stream[s] = "live"
    BY <1>2 DEF FlowPartInv, Barren, PollBatch, Polling
  <2>3. pulls[s] \in Nat /\ Len(delivered[s]) \in Nat /\ Capacity \in Nat
    BY <1>1, BoundsAssumption DEF TypeOK
  <2> SUFFICES FlowPart(s)'
    BY <1>4
  <2>4. stream'[s] = "live" /\ pulls'[s] = pulls[s] /\ (slot'[s] <=> slot[s])
    BY <1>2, <2>2
  <2>5. /\ Len(chan'[s]) <= Capacity
        /\ slot[s] => Len(chan'[s]) + 1 <= Capacity
    BY <2>1, <2>2, <2>3 DEF FlowPart
  <2>6. /\ Barren(s) => pulls[s] = Len(delivered[s]) + Len(chan[s]) + 1
        /\ Barren(s) => Len(chan[s]) + 1 <= Capacity
        /\ ~Barren(s) => pulls[s] = Len(delivered[s]) + Len(chan[s])
    BY <2>2 DEF FlowPart
  <2>7. /\ Barren(s) => pulls[s] = Len(delivered'[s]) + Len(chan'[s]) + 1
        /\ Barren(s) => Len(chan'[s]) + 1 <= Capacity
        /\ ~Barren(s) => pulls[s] = Len(delivered'[s]) + Len(chan'[s])
    <3> DEFINE c == Len(chan[s])
               d == Len(delivered[s])
    <3>1. c \in Nat \ {0} /\ d \in Nat
      BY <2>1, <2>3
    <3>2. Len(chan'[s]) = c - 1 /\ Len(delivered'[s]) = d + 1
      BY <2>1
    <3> HIDE DEF c, d
    <3>3. (d + 1) + (c - 1) = d + c /\ (c + 1 <= Capacity => (c - 1) + 1 <= Capacity)
      BY <2>3, <3>1
    <3> QED
      BY <2>6, <3>2, <3>3 DEF c, d
  <2> QED
    BY <2>2, <2>4, <2>5, <2>7 DEF FlowPart
<1> QED
  BY <1>3, <1>4

(* A batch sent is the one after all that arrived before it.                *)
LEMMA OrderSend ==
  ASSUME IInv, FlowPartInv, OrderPartInv, NEW s \in Streams, NEW t \in Streams,
         PullBatch(s) \/ PullFails(s)
  PROVE  OrderPart(t)'
<1>1. TypeOK
  BY DEF IInv
<1>2. PICK item \in Nat, result \in {"ok", "err"}, next \in {"sent", "over"} :
        /\ Return(s, result, next) /\ Send(s, item)
        /\ \/ result = "ok" /\ item = pulls[s]
           \/ result = "err" /\ item = Error
  BY <1>1 DEF PullBatch, PullFails, TypeOK, Error
<1>3. CASE t # s
  <2>1. chan'[t] = chan[t] /\ slot'[t] = slot[t]
    BY <1>1, <1>2, <1>3, SendEffect
  <2>2. thr'[t] = thr[t] /\ last'[t] = last[t]
    BY <1>1, <1>2, <1>3 DEF Return, Update, TypeOK
  <2>3. UNCHANGED <<stream, delivered, pulls>>
    BY <1>2 DEF Return, consumerVars
  <2> QED
    BY <2>1, <2>2, <2>3, Untouched DEF OrderPartInv
<1>4. CASE t = s
  <2> SUFFICES OrderPart(s)'
    BY <1>4
  <2>1. thr[s] = "pulling" /\ last[s] # "err"
    BY <1>2 DEF IInv, ResultsInv, Results, Return
  <2>2. last'[s] = result /\ stream'[s] = stream[s] /\ delivered'[s] = delivered[s]
    BY <1>1, <1>2 DEF Return, Update, TypeOK, consumerVars
  <2>3. /\ chan[s] \in Seq(Nat) /\ delivered[s] \in Seq(Nat)
        /\ stream[s] \in {"live", "dropped"}
    BY <1>1 DEF TypeOK
  <2>4. Ordered(delivered[s], chan[s], FALSE)
    <3>1. (last[s] = "err") = FALSE
      BY <2>1
    <3> QED
      BY <3>1 DEF OrderPartInv, OrderPart, Ordered
  <2>5. CASE stream[s] = "live"
    <3>1. chan'[s] = Append(chan[s], item)
      BY <1>1, <1>2, <2>5, SendEffect
    <3>2. pulls[s] = Len(delivered[s]) + Len(chan[s]) + 1
      BY <2>1, <2>5 DEF FlowPartInv, FlowPart, Barren
    <3>3. CASE result = "ok"
      <4>1. Ordered(delivered'[s], chan'[s], FALSE)
        BY <1>2, <2>2, <2>3, <2>4, <3>1, <3>2, <3>3, OrderedSend
      <4> QED
        BY <2>2, <3>3, <4>1 DEF OrderPart, Ordered
    <3>4. CASE result = "err"
      <4>1. Ordered(delivered'[s], chan'[s], TRUE) /\ ErrorLast(delivered'[s], chan'[s])
        BY <1>2, <2>2, <2>3, <2>4, <3>1, <3>4, OrderedSend
      <4> QED
        BY <2>2, <3>4, <4>1 DEF OrderPart, Ordered
    <3> QED
      BY <3>3, <3>4
  <2>6. CASE stream[s] = "dropped"
    <3>1. chan'[s] = chan[s]
      BY <1>1, <1>2, <2>6, SendEffect
    <3> QED
      BY <2>2, <2>4, <2>6, <3>1 DEF OrderPart, Ordered
  <2> QED
    BY <2>3, <2>5, <2>6
<1> QED
  BY <1>3, <1>4

(* A delivery moves an item to its own position.                            *)
LEMMA OrderDelivery ==
  ASSUME IInv, OrderPartInv, NEW s \in Streams, NEW t \in Streams, PollBatch(s)
  PROVE  OrderPart(t)'
<1>1. TypeOK
  BY DEF IInv
<1>2. UNCHANGED <<stream, slot, pulls, thr, last>>
  BY DEF PollBatch, workVars
<1>3. CASE t # s
  BY <1>1, <1>2, <1>3, DeliveryEffect, Untouched DEF OrderPartInv
<1>4. CASE t = s
  <2> DEFINE failed == last[s] = "err"
  <2>1. /\ Ordered(delivered[s], chan[s], failed)
        /\ failed => ErrorLast(delivered[s], chan[s])
    BY DEF OrderPartInv, OrderPart, PollBatch, Polling
  <2>2. failed \in BOOLEAN
    OBVIOUS
  <2> HIDE DEF failed
  <2>3. /\ Ordered(delivered'[s], chan'[s], failed)
        /\ failed => ErrorLast(delivered'[s], chan'[s])
    BY <1>1, <2>1, <2>2, DeliveryEffect, OrderedMove
  <2> QED
    BY <1>2, <1>4, <2>3 DEF OrderPart, failed
<1> QED
  BY <1>3, <1>4

(* Every step keeps FlowPart.                                                *)
LEMMA FlowPartNext ==
  ASSUME IInv, FlowPartInv, [Next]_vars
  PROVE  \A t \in Streams : FlowPart(t)'
<1> TAKE t \in Streams
<1> USE DEF FlowPartInv, FlowPart, Barren, IInv, ControlInv, Control, SlottedInv, Slotted, ResultsInv, Results, Looping, TypeOK, AwaitPoints, Gone, InRound, Destroyed, Update, consumerVars, wireVars, creditVars, workVars
<1>1. ASSUME NEW s \in Streams, PollRequest(s) PROVE FlowPart(t)'
  BY <1>1 DEF PollRequest, Polling
<1>2. ASSUME NEW s \in Streams, PollBatch(s) PROVE FlowPart(t)'
  BY <1>2, FlowDelivery, ZenonT(60)
<1>3. ASSUME NEW s \in Streams, PollEnd(s) PROVE FlowPart(t)'
  BY <1>3 DEF PollEnd, Polling
<1>4. ASSUME NEW s \in Streams, PollRaise(s) PROVE FlowPart(t)'
  BY <1>4 DEF PollRaise, Polling
<1>5. ASSUME NEW s \in Streams, DropStream(s) PROVE FlowPart(t)'
  BY <1>5, BoundsAssumption DEF DropStream
<1>6. ASSUME NEW s \in Streams, StartAffine(s) PROVE FlowPart(t)'
  BY <1>6 DEF StartAffine
<1>7. ASSUME NEW s \in Streams, StartPool(s) PROVE FlowPart(t)'
  BY <1>7 DEF StartPool
<1>8. ASSUME NEW s \in Streams, TakeDemand(s) PROVE FlowPart(t)'
  BY <1>8 DEF TakeDemand
<1>9. ASSUME NEW s \in Streams, Speculate(s) PROVE FlowPart(t)'
  BY <1>9 DEF Speculate, TrySpeculate
<1>10. ASSUME NEW s \in Streams, Park(s) PROVE FlowPart(t)'
  BY <1>10 DEF Park, CanSpeculate
<1>11. ASSUME NEW s \in Streams, Reserve(s) PROVE FlowPart(t)'
  BY <1>11, FlowReserve, ZenonT(60)
<1>12. ASSUME NEW s \in Streams, ReserveClosed(s) PROVE FlowPart(t)'
  <2>1. /\ co[s] = "reserve" /\ stream[s] = "dropped"
        /\ co' = Update(co, s, "ended")
        /\ ReleaseCredit(s)
        /\ UNCHANGED <<consumerVars, wireVars, host, affineFree, workVars, done, rt>>
    BY <1>12, ReserveClosedEffect
  <2>2. PICK place \in Place :
          /\ reader' = Update(reader, s, place)
          /\ reader[s] \in Destroyed \cup {"host"} => place = reader[s]
          /\ reader[s] \in {"future", "guard", "output"} => place \in {"pool", "worker"}
    BY <1>12, ReserveClosedEffect
  <2> QED
    BY <2>1, <2>2 DEF ReleaseCredit, Place
<1>13. ASSUME NEW s \in Streams, DispatchAffine(s) PROVE FlowPart(t)'
  BY <1>13, FlowDispatch, ZenonT(60)
<1>14. ASSUME NEW s \in Streams, DispatchPool(s) PROVE FlowPart(t)'
  BY <1>14 DEF DispatchPool
<1>15. ASSUME NEW s \in Streams, DispatchRefused(s) PROVE FlowPart(t)'
  BY <1>15 DEF DispatchRefused, ReleaseCredit
<1>16. ASSUME NEW s \in Streams, RoundDone(s) PROVE FlowPart(t)'
  <2>1. /\ co[s] = "round"
        /\ done[s] \in {"more", "over", "panic", "cancelled"}
        /\ done' = Update(done, s, "none")
        /\ UNCHANGED <<consumerVars, wireVars, host, affineFree, creditVars, workVars, rt>>
    BY <1>16, RoundDoneEffect
  <2>2. PICK state \in Gone \cup {"credit"}, place \in Place :
          /\ co' = Update(co, s, state)
          /\ reader' = Update(reader, s, place)
          /\ done[s] = "more" <=> state = "credit"
          /\ done[s] = "over" <=> state = "ended"
          /\ done[s] = "panic" <=> state = "panicked"
          /\ done[s] = "cancelled" <=> state = "failed"
          /\ reader[s] \in Destroyed \cup {"host"} => place = reader[s]
          /\ state = "credit" /\ reader[s] = "output" => place = "guard"
          /\ state # "credit" /\ reader[s] \notin Destroyed \cup {"host"}
                => place \in {"pool", "worker"}
    BY <1>16, RoundDoneEffect
  <2> QED
    BY <2>1, <2>2 DEF Place
<1>17. ASSUME NEW s \in Streams, Abort(s) PROVE FlowPart(t)'
  <2>1. /\ co[s] \in AwaitPoints
        /\ stream[s] = "dropped" \/ rt = "down"
        /\ co' = Update(co, s, "aborted")
        /\ done' = Update(done, s, "none")
        /\ co[s] = "reserve" => ReleaseCredit(s)
        /\ co[s] # "reserve" => UNCHANGED creditVars
        /\ UNCHANGED <<consumerVars, wireVars, host, affineFree, workVars, rt>>
    BY <1>17, AbortEffect
  <2>2. PICK place \in Place :
          /\ reader' = Update(reader, s, place)
          /\ reader[s] \in Destroyed \cup {"host"} => place = reader[s]
          /\ reader[s] \in {"future", "guard", "output"} => place \in {"pool", "worker"}
    BY <1>17, AbortEffect
  <2>3. CASE co[s] = "reserve"
    BY <2>1, <2>2, <2>3 DEF ReleaseCredit, Place
  <2>4. CASE co[s] # "reserve"
    BY <2>1, <2>2, <2>4 DEF Place
  <2> QED
    BY <2>3, <2>4
<1>18. ASSUME NEW s \in Streams, BeginRound(s) PROVE FlowPart(t)'
  BY <1>18, FlowEnter, ZenonT(60)
<1>19. ASSUME NEW s \in Streams, PullBatch(s) PROVE FlowPart(t)'
  BY <1>19, FlowSend, ZenonT(60)
<1>20. ASSUME NEW s \in Streams, PullFails(s) PROVE FlowPart(t)'
  BY <1>20, FlowSend, ZenonT(60)
<1>21. ASSUME NEW s \in Streams, PullNone(s) PROVE FlowPart(t)'
  BY <1>21 DEF PullNone, Return
<1>22. ASSUME NEW s \in Streams, PullPanics(s) PROVE FlowPart(t)'
  BY <1>22 DEF PullPanics, Return
<1>23. ASSUME NEW s \in Streams, PullHangs(s) PROVE FlowPart(t)'
  BY <1>23 DEF PullHangs
<1>24. ASSUME NEW s \in Streams, TryReserve(s) PROVE FlowPart(t)'
  <2>1. CASE FreeSlot(s)
    BY <1>24, <2>1, FlowReserve, ZenonT(60)
  <2>2. CASE ~FreeSlot(s)
    BY <1>24, <2>2, SMTT(60) DEF TryReserve
  <2> QED
    BY <2>1, <2>2
<1>25. ASSUME NEW s \in Streams, ContinueOnDemand(s) PROVE FlowPart(t)'
  BY <1>25, FlowEnter, ZenonT(60)
<1>26. ASSUME NEW s \in Streams, ContinueSpeculatively(s) PROVE FlowPart(t)'
  BY <1>26, FlowEnter, ZenonT(60)
<1>27. ASSUME NEW s \in Streams, OutOfCredit(s) PROVE FlowPart(t)'
  BY <1>27 DEF OutOfCredit, CanSpeculate
<1>28. ASSUME NEW s \in Streams, ReportAffine(s) PROVE FlowPart(t)'
  BY <1>28 DEF ReportAffine, ReleaseCredit, Publish
<1>29. ASSUME NEW s \in Streams, ReportPool(s) PROVE FlowPart(t)'
  BY <1>29, SMTT(60) DEF ReportPool, ReleaseCredit, Publish
<1>30. ASSUME NEW s \in Streams, CancelQueued(s) PROVE FlowPart(t)'
  BY <1>30, SMTT(60) DEF CancelQueued, ReleaseCredit
<1>31. ASSUME NEW s \in Streams, AffineExit(s) PROVE FlowPart(t)'
  BY <1>31 DEF AffineExit
<1>32. CASE Shutdown
  BY <1>32 DEF Shutdown
<1>33. CASE UNCHANGED vars
  BY <1>33 DEF vars
<1> QED
  BY <1>1, <1>2, <1>3, <1>4, <1>5, <1>6, <1>7, <1>8, <1>9, <1>10,
     <1>11, <1>12, <1>13, <1>14, <1>15, <1>16, <1>17, <1>18, <1>19, <1>20, <1>21,
     <1>22, <1>23, <1>24, <1>25, <1>26, <1>27, <1>28, <1>29, <1>30, <1>31, <1>32, <1>33
     DEF Next, Consumer, Answer, Coordinator, Worker

(* Every step keeps OrderPart.                                               *)
LEMMA OrderPartNext ==
  ASSUME IInv, FlowPartInv, OrderPartInv, [Next]_vars
  PROVE  \A t \in Streams : OrderPart(t)'
<1> TAKE t \in Streams
<1> USE DEF OrderPartInv, OrderPart, Ordered, ErrorLast, IInv, ControlInv, Control, SlottedInv, Slotted, ResultsInv, Results, Looping, TypeOK, AwaitPoints, Gone, InRound, Destroyed, Update, consumerVars, wireVars, creditVars, workVars
<1>1. ASSUME NEW s \in Streams, PollRequest(s) PROVE OrderPart(t)'
  BY <1>1 DEF PollRequest, Polling
<1>2. ASSUME NEW s \in Streams, PollBatch(s) PROVE OrderPart(t)'
  BY <1>2, OrderDelivery
<1>3. ASSUME NEW s \in Streams, PollEnd(s) PROVE OrderPart(t)'
  BY <1>3 DEF PollEnd, Polling
<1>4. ASSUME NEW s \in Streams, PollRaise(s) PROVE OrderPart(t)'
  BY <1>4 DEF PollRaise, Polling
<1>5. ASSUME NEW s \in Streams, DropStream(s) PROVE OrderPart(t)'
  BY <1>5 DEF DropStream
<1>6. ASSUME NEW s \in Streams, StartAffine(s) PROVE OrderPart(t)'
  BY <1>6 DEF StartAffine
<1>7. ASSUME NEW s \in Streams, StartPool(s) PROVE OrderPart(t)'
  BY <1>7 DEF StartPool
<1>8. ASSUME NEW s \in Streams, TakeDemand(s) PROVE OrderPart(t)'
  BY <1>8 DEF TakeDemand
<1>9. ASSUME NEW s \in Streams, Speculate(s) PROVE OrderPart(t)'
  BY <1>9 DEF Speculate, TrySpeculate
<1>10. ASSUME NEW s \in Streams, Park(s) PROVE OrderPart(t)'
  BY <1>10 DEF Park, CanSpeculate
<1>11. ASSUME NEW s \in Streams, Reserve(s) PROVE OrderPart(t)'
  BY <1>11 DEF Reserve, FreeSlot
<1>12. ASSUME NEW s \in Streams, ReserveClosed(s) PROVE OrderPart(t)'
  <2>1. /\ co[s] = "reserve" /\ stream[s] = "dropped"
        /\ co' = Update(co, s, "ended")
        /\ ReleaseCredit(s)
        /\ UNCHANGED <<consumerVars, wireVars, host, affineFree, workVars, done, rt>>
    BY <1>12, ReserveClosedEffect
  <2>2. PICK place \in Place :
          /\ reader' = Update(reader, s, place)
          /\ reader[s] \in Destroyed \cup {"host"} => place = reader[s]
          /\ reader[s] \in {"future", "guard", "output"} => place \in {"pool", "worker"}
    BY <1>12, ReserveClosedEffect
  <2> QED
    BY <2>1, <2>2 DEF ReleaseCredit, Place
<1>13. ASSUME NEW s \in Streams, DispatchAffine(s) PROVE OrderPart(t)'
  <2>1. CASE thr[s] = "idle"
    <3>1. CASE t = s
      BY <1>13, <2>1, <3>1 DEF DispatchAffine
    <3>2. CASE t # s
      BY <1>13, <2>1, <3>2 DEF DispatchAffine
    <3> QED
      BY <3>1, <3>2
  <2>2. CASE thr[s] # "idle"
    <3>1. /\ co[s] = "dispatch" /\ host[s] = "affine"
          /\ co' = Update(co, s, "ended")
          /\ slot' = Update(slot, s, FALSE)
          /\ ReleaseCredit(s)
          /\ UNCHANGED <<consumerVars, demand, chan, host, affineFree, done, reader,
                         thr, pulls, last, late, rt>>
      BY <1>13, <2>2 DEF DispatchAffine
    <3> QED
      BY <2>2, <3>1 DEF ReleaseCredit
  <2> QED
    BY <2>1, <2>2
<1>14. ASSUME NEW s \in Streams, DispatchPool(s) PROVE OrderPart(t)'
  BY <1>14 DEF DispatchPool
<1>15. ASSUME NEW s \in Streams, DispatchRefused(s) PROVE OrderPart(t)'
  BY <1>15 DEF DispatchRefused, ReleaseCredit
<1>16. ASSUME NEW s \in Streams, RoundDone(s) PROVE OrderPart(t)'
  <2>1. /\ co[s] = "round"
        /\ done[s] \in {"more", "over", "panic", "cancelled"}
        /\ done' = Update(done, s, "none")
        /\ UNCHANGED <<consumerVars, wireVars, host, affineFree, creditVars, workVars, rt>>
    BY <1>16, RoundDoneEffect
  <2>2. PICK state \in Gone \cup {"credit"}, place \in Place :
          /\ co' = Update(co, s, state)
          /\ reader' = Update(reader, s, place)
          /\ done[s] = "more" <=> state = "credit"
          /\ done[s] = "over" <=> state = "ended"
          /\ done[s] = "panic" <=> state = "panicked"
          /\ done[s] = "cancelled" <=> state = "failed"
          /\ reader[s] \in Destroyed \cup {"host"} => place = reader[s]
          /\ state = "credit" /\ reader[s] = "output" => place = "guard"
          /\ state # "credit" /\ reader[s] \notin Destroyed \cup {"host"}
                => place \in {"pool", "worker"}
    BY <1>16, RoundDoneEffect
  <2> QED
    BY <2>1, <2>2 DEF Place
<1>17. ASSUME NEW s \in Streams, Abort(s) PROVE OrderPart(t)'
  <2>1. /\ co[s] \in AwaitPoints
        /\ stream[s] = "dropped" \/ rt = "down"
        /\ co' = Update(co, s, "aborted")
        /\ done' = Update(done, s, "none")
        /\ co[s] = "reserve" => ReleaseCredit(s)
        /\ co[s] # "reserve" => UNCHANGED creditVars
        /\ UNCHANGED <<consumerVars, wireVars, host, affineFree, workVars, rt>>
    BY <1>17, AbortEffect
  <2>2. PICK place \in Place :
          /\ reader' = Update(reader, s, place)
          /\ reader[s] \in Destroyed \cup {"host"} => place = reader[s]
          /\ reader[s] \in {"future", "guard", "output"} => place \in {"pool", "worker"}
    BY <1>17, AbortEffect
  <2>3. CASE co[s] = "reserve"
    BY <2>1, <2>2, <2>3 DEF ReleaseCredit, Place
  <2>4. CASE co[s] # "reserve"
    BY <2>1, <2>2, <2>4 DEF Place
  <2> QED
    BY <2>3, <2>4
<1>18. ASSUME NEW s \in Streams, BeginRound(s) PROVE OrderPart(t)'
  BY <1>18 DEF BeginRound, Enter
<1>19. ASSUME NEW s \in Streams, PullBatch(s) PROVE OrderPart(t)'
  BY <1>19, OrderSend
<1>20. ASSUME NEW s \in Streams, PullFails(s) PROVE OrderPart(t)'
  BY <1>20, OrderSend
<1>21. ASSUME NEW s \in Streams, PullNone(s) PROVE OrderPart(t)'
  BY <1>21 DEF PullNone, Return
<1>22. ASSUME NEW s \in Streams, PullPanics(s) PROVE OrderPart(t)'
  BY <1>22 DEF PullPanics, Return
<1>23. ASSUME NEW s \in Streams, PullHangs(s) PROVE OrderPart(t)'
  BY <1>23 DEF PullHangs
<1>24. ASSUME NEW s \in Streams, TryReserve(s) PROVE OrderPart(t)'
  <2>1. CASE FreeSlot(s)
    BY <1>24, <2>1 DEF TryReserve
  <2>2. CASE ~FreeSlot(s)
    BY <1>24, <2>2 DEF TryReserve
  <2> QED
    BY <2>1, <2>2
<1>25. ASSUME NEW s \in Streams, ContinueOnDemand(s) PROVE OrderPart(t)'
  BY <1>25 DEF ContinueOnDemand, Enter
<1>26. ASSUME NEW s \in Streams, ContinueSpeculatively(s) PROVE OrderPart(t)'
  BY <1>26 DEF ContinueSpeculatively, TrySpeculate, Enter
<1>27. ASSUME NEW s \in Streams, OutOfCredit(s) PROVE OrderPart(t)'
  BY <1>27 DEF OutOfCredit, CanSpeculate
<1>28. ASSUME NEW s \in Streams, ReportAffine(s) PROVE OrderPart(t)'
  BY <1>28 DEF ReportAffine, ReleaseCredit, Publish
<1>29. ASSUME NEW s \in Streams, ReportPool(s) PROVE OrderPart(t)'
  BY <1>29 DEF ReportPool, ReleaseCredit, Publish
<1>30. ASSUME NEW s \in Streams, CancelQueued(s) PROVE OrderPart(t)'
  BY <1>30 DEF CancelQueued, ReleaseCredit
<1>31. ASSUME NEW s \in Streams, AffineExit(s) PROVE OrderPart(t)'
  BY <1>31 DEF AffineExit
<1>32. CASE Shutdown
  BY <1>32 DEF Shutdown
<1>33. CASE UNCHANGED vars
  BY <1>33 DEF vars
<1> QED
  BY <1>1, <1>2, <1>3, <1>4, <1>5, <1>6, <1>7, <1>8, <1>9, <1>10,
     <1>11, <1>12, <1>13, <1>14, <1>15, <1>16, <1>17, <1>18, <1>19, <1>20, <1>21,
     <1>22, <1>23, <1>24, <1>25, <1>26, <1>27, <1>28, <1>29, <1>30, <1>31, <1>32, <1>33
     DEF Next, Consumer, Answer, Coordinator, Worker

EndPartInv == \A t \in Streams : EndPart(t)

(* Every step keeps EndPart.                                                 *)
LEMMA EndPartNext ==
  ASSUME IInv, FlowPartInv, OrderPartInv, EndPartInv, [Next]_vars
  PROVE  \A t \in Streams : EndPart(t)'
<1> TAKE t \in Streams
<1> USE DEF EndPartInv, EndPart, FlowPartInv, FlowPart, Barren, OrderPartInv, OrderPart, ErrorLast, IInv, ControlInv, Control, SlottedInv, Slotted, ResultsInv, Results, Looping, TypeOK, AwaitPoints, Gone, InRound, Destroyed, Update, consumerVars, wireVars, creditVars, workVars
<1>1. ASSUME NEW s \in Streams, PollRequest(s) PROVE EndPart(t)'
  BY <1>1 DEF PollRequest, Polling
<1>2. ASSUME NEW s \in Streams, PollBatch(s) PROVE EndPart(t)'
  BY <1>2, SMTT(60) DEF PollBatch, Polling
<1>3. ASSUME NEW s \in Streams, PollEnd(s) PROVE EndPart(t)'
  BY <1>3 DEF PollEnd, Polling
<1>4. ASSUME NEW s \in Streams, PollRaise(s) PROVE EndPart(t)'
  BY <1>4 DEF PollRaise, Polling
<1>5. ASSUME NEW s \in Streams, DropStream(s) PROVE EndPart(t)'
  BY <1>5 DEF DropStream
<1>6. ASSUME NEW s \in Streams, StartAffine(s) PROVE EndPart(t)'
  BY <1>6 DEF StartAffine
<1>7. ASSUME NEW s \in Streams, StartPool(s) PROVE EndPart(t)'
  BY <1>7 DEF StartPool
<1>8. ASSUME NEW s \in Streams, TakeDemand(s) PROVE EndPart(t)'
  BY <1>8 DEF TakeDemand
<1>9. ASSUME NEW s \in Streams, Speculate(s) PROVE EndPart(t)'
  BY <1>9 DEF Speculate, TrySpeculate
<1>10. ASSUME NEW s \in Streams, Park(s) PROVE EndPart(t)'
  BY <1>10 DEF Park, CanSpeculate
<1>11. ASSUME NEW s \in Streams, Reserve(s) PROVE EndPart(t)'
  BY <1>11 DEF Reserve, FreeSlot
<1>12. ASSUME NEW s \in Streams, ReserveClosed(s) PROVE EndPart(t)'
  <2>1. /\ co[s] = "reserve" /\ stream[s] = "dropped"
        /\ co' = Update(co, s, "ended")
        /\ ReleaseCredit(s)
        /\ UNCHANGED <<consumerVars, wireVars, host, affineFree, workVars, done, rt>>
    BY <1>12, ReserveClosedEffect
  <2>2. PICK place \in Place :
          /\ reader' = Update(reader, s, place)
          /\ reader[s] \in Destroyed \cup {"host"} => place = reader[s]
          /\ reader[s] \in {"future", "guard", "output"} => place \in {"pool", "worker"}
    BY <1>12, ReserveClosedEffect
  <2> QED
    BY <2>1, <2>2 DEF ReleaseCredit, Place
<1>13. ASSUME NEW s \in Streams, DispatchAffine(s) PROVE EndPart(t)'
  <2>1. CASE thr[s] = "idle"
    <3>1. CASE t = s
      BY <1>13, <2>1, <3>1 DEF DispatchAffine
    <3>2. CASE t # s
      BY <1>13, <2>1, <3>2 DEF DispatchAffine
    <3> QED
      BY <3>1, <3>2
  <2>2. CASE thr[s] # "idle"
    <3>1. /\ co[s] = "dispatch" /\ host[s] = "affine"
          /\ co' = Update(co, s, "ended")
          /\ slot' = Update(slot, s, FALSE)
          /\ ReleaseCredit(s)
          /\ UNCHANGED <<consumerVars, demand, chan, host, affineFree, done, reader,
                         thr, pulls, last, late, rt>>
      BY <1>13, <2>2 DEF DispatchAffine
    <3> QED
      BY <2>2, <3>1 DEF ReleaseCredit
  <2> QED
    BY <2>1, <2>2
<1>14. ASSUME NEW s \in Streams, DispatchPool(s) PROVE EndPart(t)'
  BY <1>14 DEF DispatchPool
<1>15. ASSUME NEW s \in Streams, DispatchRefused(s) PROVE EndPart(t)'
  BY <1>15 DEF DispatchRefused, ReleaseCredit
<1>16. ASSUME NEW s \in Streams, RoundDone(s) PROVE EndPart(t)'
  <2>1. /\ co[s] = "round"
        /\ done[s] \in {"more", "over", "panic", "cancelled"}
        /\ done' = Update(done, s, "none")
        /\ UNCHANGED <<consumerVars, wireVars, host, affineFree, creditVars, workVars, rt>>
    BY <1>16, RoundDoneEffect
  <2>2. PICK state \in Gone \cup {"credit"}, place \in Place :
          /\ co' = Update(co, s, state)
          /\ reader' = Update(reader, s, place)
          /\ done[s] = "more" <=> state = "credit"
          /\ done[s] = "over" <=> state = "ended"
          /\ done[s] = "panic" <=> state = "panicked"
          /\ done[s] = "cancelled" <=> state = "failed"
          /\ reader[s] \in Destroyed \cup {"host"} => place = reader[s]
          /\ state = "credit" /\ reader[s] = "output" => place = "guard"
          /\ state # "credit" /\ reader[s] \notin Destroyed \cup {"host"}
                => place \in {"pool", "worker"}
    BY <1>16, RoundDoneEffect
  <2> QED
    BY <2>1, <2>2 DEF Place
<1>17. ASSUME NEW s \in Streams, Abort(s) PROVE EndPart(t)'
  <2>1. /\ co[s] \in AwaitPoints
        /\ stream[s] = "dropped" \/ rt = "down"
        /\ co' = Update(co, s, "aborted")
        /\ done' = Update(done, s, "none")
        /\ co[s] = "reserve" => ReleaseCredit(s)
        /\ co[s] # "reserve" => UNCHANGED creditVars
        /\ UNCHANGED <<consumerVars, wireVars, host, affineFree, workVars, rt>>
    BY <1>17, AbortEffect
  <2>2. PICK place \in Place :
          /\ reader' = Update(reader, s, place)
          /\ reader[s] \in Destroyed \cup {"host"} => place = reader[s]
          /\ reader[s] \in {"future", "guard", "output"} => place \in {"pool", "worker"}
    BY <1>17, AbortEffect
  <2>3. CASE co[s] = "reserve"
    BY <2>1, <2>2, <2>3 DEF ReleaseCredit, Place
  <2>4. CASE co[s] # "reserve"
    BY <2>1, <2>2, <2>4 DEF Place
  <2> QED
    BY <2>3, <2>4
<1>18. ASSUME NEW s \in Streams, BeginRound(s) PROVE EndPart(t)'
  BY <1>18 DEF BeginRound, Enter
<1>19. ASSUME NEW s \in Streams, PullBatch(s) PROVE EndPart(t)'
  BY <1>19, SMTT(60) DEF PullBatch, Return, Send
<1>20. ASSUME NEW s \in Streams, PullFails(s) PROVE EndPart(t)'
  BY <1>20 DEF PullFails, Return, Send, Error
<1>21. ASSUME NEW s \in Streams, PullNone(s) PROVE EndPart(t)'
  BY <1>21 DEF PullNone, Return
<1>22. ASSUME NEW s \in Streams, PullPanics(s) PROVE EndPart(t)'
  BY <1>22 DEF PullPanics, Return
<1>23. ASSUME NEW s \in Streams, PullHangs(s) PROVE EndPart(t)'
  BY <1>23 DEF PullHangs
<1>24. ASSUME NEW s \in Streams, TryReserve(s) PROVE EndPart(t)'
  <2>1. CASE FreeSlot(s)
    BY <1>24, <2>1 DEF TryReserve
  <2>2. CASE ~FreeSlot(s)
    BY <1>24, <2>2 DEF TryReserve
  <2> QED
    BY <2>1, <2>2
<1>25. ASSUME NEW s \in Streams, ContinueOnDemand(s) PROVE EndPart(t)'
  BY <1>25 DEF ContinueOnDemand, Enter
<1>26. ASSUME NEW s \in Streams, ContinueSpeculatively(s) PROVE EndPart(t)'
  BY <1>26 DEF ContinueSpeculatively, TrySpeculate, Enter
<1>27. ASSUME NEW s \in Streams, OutOfCredit(s) PROVE EndPart(t)'
  BY <1>27 DEF OutOfCredit, CanSpeculate
<1>28. ASSUME NEW s \in Streams, ReportAffine(s) PROVE EndPart(t)'
  BY <1>28 DEF ReportAffine, ReleaseCredit, Publish
<1>29. ASSUME NEW s \in Streams, ReportPool(s) PROVE EndPart(t)'
  BY <1>29 DEF ReportPool, ReleaseCredit, Publish
<1>30. ASSUME NEW s \in Streams, CancelQueued(s) PROVE EndPart(t)'
  BY <1>30 DEF CancelQueued, ReleaseCredit
<1>31. ASSUME NEW s \in Streams, AffineExit(s) PROVE EndPart(t)'
  BY <1>31 DEF AffineExit
<1>32. CASE Shutdown
  BY <1>32 DEF Shutdown
<1>33. CASE UNCHANGED vars
  BY <1>33 DEF vars
<1> QED
  BY <1>1, <1>2, <1>3, <1>4, <1>5, <1>6, <1>7, <1>8, <1>9, <1>10,
     <1>11, <1>12, <1>13, <1>14, <1>15, <1>16, <1>17, <1>18, <1>19, <1>20, <1>21,
     <1>22, <1>23, <1>24, <1>25, <1>26, <1>27, <1>28, <1>29, <1>30, <1>31, <1>32, <1>33
     DEF Next, Consumer, Answer, Coordinator, Worker

-----------------------------------------------------------------------------
(* The theorems.                                                            *)

DInv == IInv /\ FlowPartInv /\ OrderPartInv /\ EndPartInv

LEMMA DInvInit == Init => DInv
<1> SUFFICES ASSUME Init PROVE DInv
  OBVIOUS
<1>1. \A t \in Streams : /\ stream[t] = "live" /\ outcome[t] = "open" /\ last[t] = "unread"
                         /\ delivered[t] = <<>> /\ chan[t] = <<>> /\ ~slot[t]
                         /\ pulls[t] = 0 /\ thr[t] = "none"
  BY DEF Init
<1>2. FlowPartInv
  <2>1. \A t \in Streams : Len(delivered[t]) = 0 /\ Len(chan[t]) = 0 /\ ~Barren(t)
    BY <1>1, EmptySeq DEF Barren
  <2>2. 0 <= Capacity /\ 0 = 0 + 0
    BY BoundsAssumption
  <2> QED
    BY <1>1, <2>1, <2>2 DEF FlowPartInv, FlowPart
<1>3. OrderPartInv /\ EndPartInv
  BY <1>1 DEF OrderPartInv, OrderPart, Ordered, EndPartInv, EndPart
<1> QED
  BY <1>2, <1>3, IInvInit DEF DInv

LEMMA DInvNext == DInv /\ [Next]_vars => DInv'
<1> SUFFICES ASSUME DInv, [Next]_vars PROVE DInv'
  OBVIOUS
<1>1. IInv'
  BY IInvNext DEF DInv
<1>2. FlowPartInv'
  BY FlowPartNext DEF DInv, FlowPartInv
<1>3. OrderPartInv'
  BY OrderPartNext DEF DInv, OrderPartInv
<1>4. EndPartInv'
  BY EndPartNext DEF DInv, EndPartInv
<1> QED
  BY <1>1, <1>2, <1>3, <1>4 DEF DInv

(* The invariant with its delivery parts holds of every reachable state.    *)
THEOREM DeliveryInvariance == Spec => []DInv
BY DInvInit, DInvNext, PTL DEF Spec

(* The consumer sees the reader's batches in order, none lost, none twice.  *)
THEOREM OrderSafe == Spec => []InOrder
<1>1. DInv => InOrder
  <2> SUFFICES ASSUME DInv, NEW s \in Streams, NEW i \in 1..Len(Arrived(s))
               PROVE  \/ Arrived(s)[i] = i
                      \/ Arrived(s)[i] = Error /\ i = Len(Arrived(s)) /\ last[s] = "err"
    BY DEF InOrder
  <2> DEFINE dl == delivered[s]
             c == chan[s]
  <2>1. dl \in Seq(Nat) /\ c \in Seq(Nat)
    BY DEF DInv, IInv, TypeOK
  <2>2. Ordered(dl, c, last[s] = "err")
    BY DEF DInv, OrderPartInv, OrderPart
  <2>3. Arrived(s) = dl \o c
    BY DEF Arrived
  <2> HIDE DEF dl, c
  <2>4. /\ Len(dl) \in Nat /\ Len(c) \in Nat /\ Len(dl \o c) = Len(dl) + Len(c)
        /\ \A j \in 1..Len(dl) : (dl \o c)[j] = dl[j]
        /\ \A j \in 1..Len(c) : (dl \o c)[Len(dl) + j] = c[j]
        /\ c = <<>> => Len(c) = 0
    BY <2>1
  <2>5. CASE i \in 1..Len(dl)
    <3>1. dl[i] = i \/ (dl[i] = Error /\ i = Len(dl) /\ c = <<>> /\ last[s] = "err")
      BY <2>2, <2>5 DEF Ordered
    <3> QED
      BY <2>3, <2>4, <2>5, <3>1
  <2>6. CASE i \notin 1..Len(dl)
    <3>1. PICK j \in 1..Len(c) : i = Len(dl) + j
      <4>1. i - Len(dl) \in 1..Len(c) /\ i = Len(dl) + (i - Len(dl))
        BY <2>3, <2>4, <2>6
      <4> QED
        BY <4>1
    <3>2. c[j] = Len(dl) + j \/ (c[j] = Error /\ j = Len(c) /\ last[s] = "err")
      BY <2>2 DEF Ordered
    <3> QED
      BY <2>3, <2>4, <3>1, <3>2
  <2> QED
    BY <2>5, <2>6
<1> QED
  BY <1>1, DeliveryInvariance, PTL

(* The batches pulled and not consumed fit in the channel.                  *)
THEOREM ReadAheadSafe == Spec => []BoundedReadAhead
<1>1. DInv => BoundedReadAhead
  <2> SUFFICES ASSUME DInv, NEW s \in Streams
               PROVE  /\ SlotsUsed(s) <= Capacity
                      /\ stream[s] = "live" => pulls[s] <= Len(delivered[s]) + Capacity
    BY DEF BoundedReadAhead
  <2>1. /\ Len(chan[s]) \in Nat /\ Len(delivered[s]) \in Nat /\ Capacity \in Nat
        /\ pulls[s] \in Nat
    BY BoundsAssumption DEF DInv, IInv, TypeOK
  <2>2. FlowPart(s)
    BY DEF DInv, FlowPartInv
  <2>3. SlotsUsed(s) <= Capacity
    <3>1. CASE slot[s]
      BY <2>1, <2>2, <3>1 DEF SlotsUsed, FlowPart
    <3>2. CASE ~slot[s]
      BY <2>1, <2>2, <3>2 DEF SlotsUsed, FlowPart
    <3> QED
      BY <3>1, <3>2
  <2>4. \A d, c \in Nat : /\ c + 1 <= Capacity => d + c + 1 <= d + Capacity
                          /\ c <= Capacity => d + c <= d + Capacity
    BY <2>1
  <2>5. CASE Barren(s)
    BY <2>1, <2>2, <2>3, <2>4, <2>5 DEF FlowPart
  <2>6. CASE ~Barren(s)
    BY <2>1, <2>2, <2>3, <2>4, <2>6 DEF FlowPart
  <2> QED
    BY <2>5, <2>6
<1> QED
  BY <1>1, DeliveryInvariance, PTL

(* A normal end is reported only for a stream delivered in full.            *)
THEOREM TruncationSafe == Spec => []NoSilentTruncation
<1>1. DInv => NoSilentTruncation
  <2> SUFFICES ASSUME DInv, NEW s \in Streams, outcome[s] = "end"
               PROVE  \/ last[s] = "none" /\ Len(delivered[s]) = Yielded(s)
                      \/ last[s] = "err" /\ delivered[s] # <<>>
                                         /\ delivered[s][Len(delivered[s])] = Error
    BY DEF NoSilentTruncation
  <2>1. \/ last[s] = "none" /\ Len(delivered[s]) + 1 = pulls[s]
        \/ last[s] = "err" /\ delivered[s] # <<>> /\ delivered[s][Len(delivered[s])] = Error
    BY DEF DInv, EndPartInv, EndPart
  <2>2. Len(delivered[s]) \in Nat
    BY DEF DInv, IInv, TypeOK
  <2>3. last[s] = "none" => Yielded(s) = pulls[s] - 1
    BY DEF Yielded
  <2>4. \A d \in Nat : (d + 1) - 1 = d
    OBVIOUS
  <2> QED
    BY <2>1, <2>2, <2>3, <2>4
<1> QED
  BY <1>1, DeliveryInvariance, PTL

-----------------------------------------------------------------------------
(* The bridge implements BatchStream.  The mapping takes from the bridge    *)
(* what the reader has handed over, how it finished, and what the consumer  *)
(* sees; each of its steps is one abstract step or none.                    *)

(* A step that neither enters nor leaves a pull, and that the consumer does *)
(* not see, is a stutter of the abstract stream.                            *)
LEMMA Unseen ==
  ASSUME UNCHANGED <<stream, delivered, outcome, last, rt>>,
         \A t \in Streams : Yielded(t)' = Yielded(t)
  PROVE  UNCHANGED Abstract!vars
<1>1. [t \in Streams |-> Yielded(t)]' = [t \in Streams |-> Yielded(t)]
  OBVIOUS
<1>2. [t \in Streams |-> IF last[t] \in {"unread", "ok"} THEN "open" ELSE last[t]]'
       = [t \in Streams |-> IF last[t] \in {"unread", "ok"} THEN "open" ELSE last[t]]
  OBVIOUS
<1> QED
  BY <1>1, <1>2 DEF Abstract!vars

(* A worker that is in pull() stays there, and one that is not stays out.   *)
LEMMA Quiet ==
  ASSUME UNCHANGED <<stream, delivered, outcome, last, pulls, rt>>,
         \A t \in Streams : thr'[t] \in {"pulling", "stuck"} <=> thr[t] \in {"pulling", "stuck"}
  PROVE  UNCHANGED Abstract!vars
<1>1. \A t \in Streams : Yielded(t)' = Yielded(t)
  BY DEF Yielded
<1> QED
  BY <1>1, Unseen

(* The initial states of the bridge are initial states of the stream.       *)
LEMMA RefineInit == Init => Abstract!Init
<1> SUFFICES ASSUME Init PROVE Abstract!Init
  OBVIOUS
<1>1. \A t \in Streams : Yielded(t) = 0
  BY DEF Init, Yielded
<1>2. [t \in Streams |-> Yielded(t)] = [t \in Streams |-> 0]
  BY <1>1
<1>3. [t \in Streams |-> IF last[t] \in {"unread", "ok"} THEN "open" ELSE last[t]]
        = [t \in Streams |-> "open"]
  BY DEF Init
<1> QED
  BY <1>2, <1>3 DEF Init, Abstract!Init





(* The reader hands over a batch.                                           *)
LEMMA RefineYield ==
  ASSUME DInv, NEW s \in Streams, PullBatch(s)
  PROVE  Abstract!Yield(s)
<1> USE DEF DInv, IInv, TypeOK, ResultsInv, Results, consumerVars, Update
<1>1. /\ thr[s] = "pulling" /\ last[s] \in {"unread", "ok"}
      /\ last' = [last EXCEPT ![s] = "ok"] /\ thr' = [thr EXCEPT ![s] = "sent"]
      /\ UNCHANGED <<stream, delivered, outcome, pulls, rt>>
  BY DEF PullBatch, Return
<1>2. Yielded(s) = pulls[s] - 1 /\ Yielded(s)' = pulls[s] /\ pulls[s] \in Nat
  BY <1>1 DEF Yielded
<1>3. \A t \in Streams : t # s => Yielded(t)' = Yielded(t)
  BY <1>1 DEF Yielded
<1>4. Yielded(s)' = Yielded(s) + 1
  BY <1>2
<1>5. [t \in Streams |-> Yielded(t)]' = [[t \in Streams |-> Yielded(t)] EXCEPT ![s] = @ + 1]
  BY <1>3, <1>4
<1>6. [t \in Streams |-> IF last[t] \in {"unread", "ok"} THEN "open" ELSE last[t]]'
        = [t \in Streams |-> IF last[t] \in {"unread", "ok"} THEN "open" ELSE last[t]]
  BY <1>1
<1> QED
  BY <1>1, <1>5, <1>6 DEF Abstract!Yield

(* The reader fails, ends or panics: nothing more was handed over.          *)
LEMMA RefineFinish ==
  ASSUME DInv, NEW s \in Streams, PullFails(s) \/ PullNone(s) \/ PullPanics(s)
  PROVE  Abstract!Finish(s)
<1> USE DEF DInv, IInv, TypeOK, ResultsInv, Results, consumerVars, Update
<1>1. PICK f \in {"none", "err", "panic"}, next \in {"over", "panic"} :
        /\ thr[s] = "pulling" /\ last[s] \in {"unread", "ok"}
        /\ last' = [last EXCEPT ![s] = f] /\ thr' = [thr EXCEPT ![s] = next]
        /\ UNCHANGED <<stream, delivered, outcome, pulls, rt>>
  BY DEF PullFails, PullNone, PullPanics, Return
<1>2. \A t \in Streams : Yielded(t)' = Yielded(t)
  BY <1>1 DEF Yielded
<1>3. [t \in Streams |-> Yielded(t)]' = [t \in Streams |-> Yielded(t)]
  BY <1>2
<1>4. [t \in Streams |-> IF last[t] \in {"unread", "ok"} THEN "open" ELSE last[t]]'
        = [[t \in Streams |-> IF last[t] \in {"unread", "ok"} THEN "open" ELSE last[t]]
             EXCEPT ![s] = f]
  BY <1>1
<1> QED
  BY <1>1, <1>3, <1>4 DEF Abstract!Finish

(* Entering pull() hands nothing over: the call counted is under way.       *)
LEMMA RefineEnter ==
  ASSUME DInv, NEW s \in Streams,
         BeginRound(s) \/ ContinueOnDemand(s) \/ ContinueSpeculatively(s)
  PROVE  UNCHANGED Abstract!vars
<1> USE DEF DInv, IInv, TypeOK, ResultsInv, Results, consumerVars, Update
<1>1. /\ thr[s] \in {"queued", "slot"} /\ Enter(s)
      /\ UNCHANGED <<stream, delivered, outcome, rt>>
  BY DEF BeginRound, ContinueOnDemand, ContinueSpeculatively
<1>2. last[s] \in {"unread", "ok"} /\ pulls[s] \in Nat
  BY <1>1
<1>3. /\ thr' = [thr EXCEPT ![s] = "pulling"] /\ pulls' = [pulls EXCEPT ![s] = pulls[s] + 1]
      /\ last' = last
  BY <1>1 DEF Enter
<1>4. \A t \in Streams : t # s => Yielded(t)' = Yielded(t)
  BY <1>3 DEF Yielded
<1>5. Yielded(s) = pulls[s] /\ Yielded(s)' = (pulls[s] + 1) - 1
  BY <1>1, <1>2, <1>3 DEF Yielded
<1>6. (pulls[s] + 1) - 1 = pulls[s]
  BY <1>2
<1> QED
  BY <1>1, <1>3, <1>4, <1>5, <1>6, Unseen

(* What is received of a queue in order: the next batch, or the error, if   *)
(* it is all that is left.                                                  *)
LEMMA HeadInOrder ==
  ASSUME NEW dl \in Seq(Nat), NEW c \in Seq(Nat), c # <<>>, NEW failed \in BOOLEAN,
         Ordered(dl, c, failed), failed => ErrorLast(dl, c)
  PROVE  /\ dl # <<>> => dl[Len(dl)] # Error
         /\ Head(c) = Error => failed /\ Len(c) = 1
         /\ Head(c) # Error => Head(c) = Len(dl) + 1 /\ (failed => Len(c) # 1)
<1>1. Len(c) \in Nat \ {0} /\ Len(dl) \in Nat /\ Head(c) = c[1]
  OBVIOUS
<1>2. /\ \A i \in 1..Len(dl) : dl[i] = i
      /\ \A i \in 1..Len(c) : c[i] = Len(dl) + i \/ (c[i] = Error /\ i = Len(c) /\ failed)
      /\ failed => c[Len(c)] = Error
  BY DEF Ordered, ErrorLast
<1>3. dl # <<>> => dl[Len(dl)] # Error
  <2> SUFFICES ASSUME dl # <<>> PROVE dl[Len(dl)] # Error
    OBVIOUS
  <2>1. Len(dl) # 0
    BY EmptySeq
  <2>2. Len(dl) \in 1..Len(dl)
    BY <1>1, <2>1
  <2> QED
    BY <1>2, <2>1, <2>2 DEF Error
<1>4. c[1] = Len(dl) + 1 \/ (c[1] = Error /\ 1 = Len(c) /\ failed)
  <2>1. 1 \in 1..Len(c)
    BY <1>1
  <2> QED
    BY <1>2, <2>1
<1>5. Len(dl) + 1 # Error
  BY <1>1 DEF Error
<1> QED
  BY <1>1, <1>2, <1>3, <1>4, <1>5

(* How much the reader has handed over while a batch is queued.             *)
LEMMA QueuedYield ==
  ASSUME DInv, NEW s \in Streams, stream[s] = "live"
  PROVE  /\ Len(delivered[s]) \in Nat /\ Len(chan[s]) \in Nat
         /\ last[s] = "err" => Yielded(s) = (Len(delivered[s]) + Len(chan[s])) - 1
         /\ last[s] # "err" => Yielded(s) = Len(delivered[s]) + Len(chan[s])
<1>1. FlowPart(s) /\ Results(s) /\ TypeOK
  BY DEF DInv, IInv, FlowPartInv, ResultsInv
<1>2. Len(delivered[s]) \in Nat /\ Len(chan[s]) \in Nat
  BY <1>1 DEF TypeOK
<1>3. last[s] = "err" => thr[s] \notin {"pulling", "stuck"}
  BY <1>1 DEF Results
<1>4. /\ Barren(s) => pulls[s] = Len(delivered[s]) + Len(chan[s]) + 1
      /\ ~Barren(s) => pulls[s] = Len(delivered[s]) + Len(chan[s])
  BY <1>1 DEF FlowPart
<1>5. \A d, n \in Nat : (d + n + 1) - 1 = d + n
  OBVIOUS
<1>6. CASE last[s] = "err"
  <2>1. ~Barren(s) /\ Yielded(s) = pulls[s] - 1
    BY <1>3, <1>6 DEF Yielded, Barren
  <2> QED
    BY <1>2, <1>4, <1>6, <2>1
<1>7. CASE last[s] # "err" /\ Barren(s)
  <2>1. Yielded(s) = pulls[s] - 1
    BY <1>7 DEF Yielded, Barren
  <2>2. Yielded(s) = (Len(delivered[s]) + Len(chan[s]) + 1) - 1
    BY <1>4, <1>7, <2>1
  <2>3. Yielded(s) = Len(delivered[s]) + Len(chan[s])
    BY <1>2, <1>5, <2>2
  <2> QED
    BY <1>2, <1>7, <2>3
<1>8. CASE last[s] # "err" /\ ~Barren(s)
  BY <1>2, <1>4, <1>8 DEF Yielded, Barren
<1> QED
  BY <1>6, <1>7, <1>8

(* A delivery is the next batch in order, or the reader's error after every *)
(* batch.                                                                   *)
LEMMA RefineDelivery ==
  ASSUME DInv, NEW s \in Streams, PollBatch(s)
  PROVE  Abstract!Deliver(s) \/ Abstract!DeliverError(s)
<1>1. TypeOK /\ OrderPart(s)
  BY DEF DInv, IInv, OrderPartInv
<1>2. /\ stream[s] = "live" /\ outcome[s] = "open" /\ chan[s] # <<>>
      /\ delivered' = [delivered EXCEPT ![s] = Append(delivered[s], Head(chan[s]))]
      /\ UNCHANGED <<stream, outcome, thr, pulls, last, rt>>
  BY DEF PollBatch, Polling, Update, workVars
<1>3. /\ chan[s] \in Seq(Nat) /\ delivered[s] \in Seq(Nat) /\ Len(chan[s]) # 0
  BY <1>1, <1>2, EmptySeq DEF TypeOK
<1>4. /\ delivered[s] # <<>> => delivered[s][Len(delivered[s])] # Error
      /\ Head(chan[s]) = Error => last[s] = "err" /\ Len(chan[s]) = 1
      /\ Head(chan[s]) # Error => /\ Head(chan[s]) = Len(delivered[s]) + 1
                                  /\ last[s] = "err" => Len(chan[s]) # 1
  BY <1>1, <1>2, <1>3, HeadInOrder DEF OrderPart
<1>5. ~Abstract!Failed(s)
  BY <1>4 DEF Abstract!Failed
<1>6. Abstract!Receive(s, Head(chan[s]))
  <2>1. \A t \in Streams : Yielded(t)' = Yielded(t)
    BY <1>2 DEF Yielded
  <2>2. [t \in Streams |-> Yielded(t)]' = [t \in Streams |-> Yielded(t)]
    BY <2>1
  <2>3. [t \in Streams |-> IF last[t] \in {"unread", "ok"} THEN "open" ELSE last[t]]'
          = [t \in Streams |-> IF last[t] \in {"unread", "ok"} THEN "open" ELSE last[t]]
    BY <1>2
  <2> QED
    BY <1>2, <2>2, <2>3 DEF Abstract!Receive
<1>7. \A d \in Nat, n \in Nat \ {0} : /\ (d + 1) - 1 = d
                                      /\ d < d + n
                                      /\ n # 1 => d < (d + n) - 1
  OBVIOUS
<1>8. CASE Head(chan[s]) = Error
  <2>1. Yielded(s) = (Len(delivered[s]) + 1) - 1
    BY <1>2, <1>4, <1>8, QueuedYield
  <2>2. Len(delivered[s]) = Yielded(s)
    BY <1>2, <1>7, <2>1, QueuedYield
  <2> QED
    BY <1>4, <1>5, <1>6, <1>8, <2>2 DEF Abstract!DeliverError
<1>9. CASE Head(chan[s]) # Error
  <2>1. Len(delivered[s]) < Yielded(s)
    BY <1>2, <1>3, <1>4, <1>7, <1>9, QueuedYield
  <2> QED
    BY <1>4, <1>5, <1>6, <1>9, <2>1 DEF Abstract!Deliver
<1> QED
  BY <1>8, <1>9

(* The end is told only of a stream received in full, an exception only of  *)
(* a panic or a shutdown.                                                   *)
LEMMA RefineClose ==
  ASSUME DInv, DInv', NEW s \in Streams, PollEnd(s) \/ PollRaise(s)
  PROVE  Abstract!End(s) \/ Abstract!Raise(s)
<1>1. TypeOK /\ Results(s) /\ EndPart(s)' /\ pulls[s] \in Nat /\ delivered[s] \in Seq(Nat)
  BY DEF DInv, IInv, ResultsInv, EndPartInv, TypeOK
<1>2. PICK how \in {"end", "raised"} :
        /\ stream[s] = "live" /\ outcome[s] = "open"
        /\ outcome' = [outcome EXCEPT ![s] = how]
        /\ UNCHANGED <<stream, delivered, thr, pulls, last, rt>>
        /\ how = "end" => PollEnd(s)
        /\ how = "raised" => co[s] \in {"failed", "panicked", "aborted"}
  BY DEF PollEnd, PollRaise, Polling, Update, workVars
<1>3. Abstract!Close(s, how)
  <2>1. \A t \in Streams : Yielded(t)' = Yielded(t)
    BY <1>2 DEF Yielded
  <2>2. /\ [t \in Streams |-> Yielded(t)]' = [t \in Streams |-> Yielded(t)]
        /\ [t \in Streams |-> IF last[t] \in {"unread", "ok"} THEN "open" ELSE last[t]]'
            = [t \in Streams |-> IF last[t] \in {"unread", "ok"} THEN "open" ELSE last[t]]
    BY <1>2, <2>1
  <2> QED
    BY <1>2, <2>2 DEF Abstract!Close
<1>4. CASE how = "end"
  <2>1. outcome'[s] = "end"
    BY <1>1, <1>2, <1>4 DEF TypeOK
  <2>2. \/ last[s] = "none" /\ Len(delivered[s]) + 1 = pulls[s]
        \/ last[s] = "err" /\ delivered[s] # <<>> /\ delivered[s][Len(delivered[s])] = Error
    BY <1>1, <1>2, <2>1 DEF EndPart
  <2>3. last[s] = "none" => Yielded(s) = pulls[s] - 1
    BY DEF Yielded
  <2>4. \A n \in Nat : (n + 1) - 1 = n
    OBVIOUS
  <2>5. last[s] = "none" /\ Len(delivered[s]) + 1 = pulls[s] => Len(delivered[s]) = Yielded(s)
    BY <1>1, <2>3, <2>4
  <2> QED
    BY <1>3, <1>4, <2>2, <2>5 DEF Abstract!End, Abstract!Failed
<1>5. CASE how = "raised"
  BY <1>1, <1>2, <1>3, <1>5 DEF Results, Abstract!Raise
<1> QED
  BY <1>4, <1>5

(* Dropping the stream.                                                     *)
LEMMA RefineCancel ==
  ASSUME NEW s \in Streams, DropStream(s)
  PROVE  Abstract!Cancel(s)
<1>1. /\ stream[s] = "live" /\ stream' = [stream EXCEPT ![s] = "dropped"]
      /\ UNCHANGED <<delivered, outcome, thr, pulls, last, rt>>
  BY DEF DropStream, Update, workVars
<1>2. \A t \in Streams : Yielded(t)' = Yielded(t)
  BY <1>1 DEF Yielded
<1>3. /\ [t \in Streams |-> Yielded(t)]' = [t \in Streams |-> Yielded(t)]
      /\ [t \in Streams |-> IF last[t] \in {"unread", "ok"} THEN "open" ELSE last[t]]'
          = [t \in Streams |-> IF last[t] \in {"unread", "ok"} THEN "open" ELSE last[t]]
  BY <1>1, <1>2
<1> QED
  BY <1>1, <1>3 DEF Abstract!Cancel

(* The runtime goes down.                                                   *)
LEMMA RefineShutdown ==
  ASSUME Shutdown PROVE Abstract!Shutdown
<1>1. rt' = "down" /\ UNCHANGED <<stream, delivered, outcome, thr, pulls, last>>
  BY DEF Shutdown, consumerVars, workVars
<1>2. \A t \in Streams : Yielded(t)' = Yielded(t)
  BY <1>1 DEF Yielded
<1>3. /\ [t \in Streams |-> Yielded(t)]' = [t \in Streams |-> Yielded(t)]
      /\ [t \in Streams |-> IF last[t] \in {"unread", "ok"} THEN "open" ELSE last[t]]'
          = [t \in Streams |-> IF last[t] \in {"unread", "ok"} THEN "open" ELSE last[t]]
  BY <1>1, <1>2
<1> QED
  BY <1>1, <1>3 DEF Abstract!Shutdown

(* The coordinator's steps, and those by which a worker arranges or ends a  *)
(* round, are invisible to the consumer.                                    *)
LEMMA RefineInside ==
  ASSUME DInv, NEW s \in Streams,
         \/ PollRequest(s) \/ Coordinator(s) \/ PullHangs(s) \/ TryReserve(s)
         \/ OutOfCredit(s) \/ ReportAffine(s) \/ ReportPool(s) \/ CancelQueued(s)
         \/ AffineExit(s)
  PROVE  UNCHANGED Abstract!vars
<1>1. TypeOK /\ Control(s)
  BY DEF DInv, IInv, ControlInv
<1>2. UNCHANGED <<stream, delivered, outcome, last, pulls, rt>>
  BY DEF PollRequest, Coordinator, StartAffine, StartPool, TakeDemand, Speculate, Park, Reserve,
         ReserveClosed, DispatchAffine, DispatchPool, DispatchRefused, RoundDone, Abort, PullHangs,
         TryReserve, OutOfCredit, ReportAffine, ReportPool, CancelQueued, AffineExit,
         consumerVars, workVars
<1>3. \/ UNCHANGED thr
      \/ \E to \in {"idle", "queued", "slot", "more", "exiting", "none", "exited"} :
            thr' = [thr EXCEPT ![s] = to] /\ thr[s] \notin {"pulling", "stuck"}
      \/ thr' = [thr EXCEPT ![s] = "stuck"] /\ thr[s] = "pulling"
  <2>1. CASE Coordinator(s)
    BY <1>1, <2>1 DEF Coordinator, StartAffine, StartPool, TakeDemand, Speculate, Park, Reserve,
         ReserveClosed, DispatchAffine, DispatchPool, DispatchRefused, RoundDone, Abort,
         workVars, Update, Control, Looping
  <2>2. CASE ~Coordinator(s)
    BY <2>2 DEF PollRequest, PullHangs, TryReserve, OutOfCredit, ReportAffine, ReportPool,
         CancelQueued, AffineExit, workVars, Update
  <2> QED
    BY <2>1, <2>2
<1>4. \A t \in Streams : thr'[t] \in {"pulling", "stuck"} <=> thr[t] \in {"pulling", "stuck"}
  BY <1>1, <1>3 DEF TypeOK
<1> QED
  BY <1>2, <1>4, Quiet

(* Every step of the bridge is a step of the abstract stream or none.       *)
LEMMA RefineNext == DInv /\ DInv' /\ [Next]_vars => [Abstract!Next]_(Abstract!vars)
<1> SUFFICES ASSUME DInv, DInv', [Next]_vars
             PROVE  Abstract!Next \/ UNCHANGED Abstract!vars
  OBVIOUS
<1>1. CASE Shutdown
  BY <1>1, RefineShutdown DEF Abstract!Next
<1>2. ASSUME NEW s \in Streams, Consumer(s)
      PROVE  Abstract!Next \/ UNCHANGED Abstract!vars
  BY <1>2, RefineInside, RefineDelivery, RefineClose, RefineCancel
     DEF Consumer, Answer, Abstract!Next
<1>3. ASSUME NEW s \in Streams, Coordinator(s)
      PROVE  UNCHANGED Abstract!vars
  BY <1>3, RefineInside
<1>4. ASSUME NEW s \in Streams, Worker(s)
      PROVE  Abstract!Next \/ UNCHANGED Abstract!vars
  BY <1>4, RefineInside, RefineEnter, RefineYield, RefineFinish DEF Worker, Abstract!Next
<1>5. CASE UNCHANGED vars
  <2>1. UNCHANGED <<stream, delivered, outcome, last, pulls, rt, thr>>
    BY <1>5 DEF vars
  <2> QED
    BY <2>1, Quiet
<1> QED
  BY <1>1, <1>2, <1>3, <1>4, <1>5 DEF Next

(* The bridge implements the abstract stream: whatever the coordinator, the *)
(* credits, the demand, the hosts and the affine threads do, the consumer   *)
(* of spawn_channel_stream receives the reader's batches in order and once, *)
(* then its error if there is one, learns the end only when it has them     *)
(* all, and is cut short by nothing but a panic or the runtime's shutdown.  *)
THEOREM BridgeIsBatchStream == Spec => IsBatchStream
BY RefineInit, RefineNext, DeliveryInvariance, PTL DEF Spec, IsBatchStream, Abstract!Spec
=============================================================================
