---------------------------- MODULE ChannelStream ----------------------------
(***************************************************************************)
(* The bridge of src/src/utils.rs between a blocking Python reader and an   *)
(* asynchronous stream of record batches: spawn_channel_stream with its     *)
(* coordinator task, PullHost (a dedicated pull thread or blocking-pool     *)
(* rounds), drain_batches, DemandStream and the two process-wide budgets.   *)
(*                                                                         *)
(* Three actors run concurrently for every stream:                          *)
(*   - the consumer, which polls the DemandStream and may drop it;          *)
(*   - the coordinator, an async task that turns credit (a poll, or a       *)
(*     speculation permit) and a free channel slot into a drain round;      *)
(*   - the worker that runs the round: the stream's own thread or a         *)
(*     blocking-pool task.                                                  *)
(* A batch is represented by its position in the reader's output; Error is  *)
(* the one error item a stream can carry.                                   *)
(***************************************************************************)
EXTENDS Naturals, Sequences, FiniteSets

CONSTANTS
    Streams,        \* the streams of the process
    Capacity,       \* CHANNEL_CAPACITY
    SpecPermits,    \* the permits of speculation_budget()
    AffineBudget,   \* AFFINE_THREAD_BUDGET
    PoolThreads,    \* threads of tokio's blocking pool
    OnDemand,       \* the streams opened with ReadAhead::OnDemand
    MaxBatches,     \* bound: batches a reader yields before it ends or fails
    SpawnMayFail,   \* whether std::thread::Builder::spawn may fail
    MayShutdown     \* whether shutdown_runtime may be called

ASSUME StreamsAssumption == IsFiniteSet(Streams) /\ OnDemand \subseteq Streams
ASSUME BoundsAssumption == /\ Capacity \in Nat \ {0}
                           /\ AffineBudget \in Nat
                           /\ PoolThreads \in Nat \ {0}
                           /\ MaxBatches \in Nat
ASSUME SwitchAssumption == SpawnMayFail \in BOOLEAN /\ MayShutdown \in BOOLEAN

VARIABLES
    stream,     \* whether the consumer still holds the DemandStream
    requested,  \* DemandStream::requested
    delivered,  \* the items the consumer has received, in order
    outcome,    \* how the stream finished for the consumer, "open" until then
    demand,     \* permits of the demand semaphore
    chan,       \* the items queued in the mpsc channel
    slot,       \* whether an OwnedPermit for the channel is held
    co,         \* where the coordinator task is
    host,       \* which PullHost it chose
    affineFree, \* permits left in affine_thread_budget()
    spec,       \* speculation permits held by the stream's credits
    specFree,   \* permits left in speculation_budget()
    thr,        \* where the worker of the stream is
    done,       \* result of the round, reported and not yet awaited
    reader,     \* who owns the BatchPull closure, or where it was destroyed
    pulls,      \* calls of pull() begun
    last,       \* what the last pull() returned
    late,       \* calls of pull() begun after the stream was dropped
    rt          \* whether the runtime is up

consumerVars == <<stream, requested, delivered, outcome>>
wireVars     == <<demand, chan, slot>>
creditVars   == <<spec, specFree>>
workVars     == <<thr, pulls, last, late>>
vars == <<stream, requested, delivered, outcome, demand, chan, slot, co, host,
          affineFree, spec, specFree, thr, done, reader, pulls, last, late, rt>>

-----------------------------------------------------------------------------
(* The item that stands for Err(_) in the channel; batches are 1, 2, ...    *)
Error == 0

(* The coordinator's future has finished or been dropped, with its locals.  *)
Gone == {"ended", "failed", "panicked", "aborted"}

(* The points where the coordinator awaits, so where an abort can take it.  *)
AwaitPoints == {"spawned", "park", "reserve", "round"}

(* A worker in these states is executing a drain round on its thread.       *)
InRound == {"pulling", "stuck", "sent", "slot", "more", "over", "panic"}

(* Where a closure can be destroyed: its own pull thread, a blocking-pool   *)
(* thread, or an async worker.                                              *)
Destroyed == {"thread", "pool", "worker"}

Update(f, s, v) == [f EXCEPT ![s] = v]

Buffered(s) == s \notin OnDemand

SlotsUsed(s) == Len(chan[s]) + (IF slot[s] THEN 1 ELSE 0)

(* reserve_owned and try_reserve_owned: the channel is open and has room.   *)
(* Faulty variants: one slot too many; a closed channel that still grants.  *)
FreeSlotOffByOne(s) == stream[s] = "live" /\ SlotsUsed(s) <= Capacity
FreeSlotIgnoresClose(s) == SlotsUsed(s) < Capacity

FreeSlot(s) == stream[s] = "live" /\ SlotsUsed(s) < Capacity

(* Items the consumer has polled for: those it got and the one it awaits.   *)
Asked(s) == Len(delivered[s]) + (IF requested[s] THEN 1 ELSE 0)

(* A live affine thread holds one permit of the affine budget.              *)
HoldsThread(s) == host[s] = "affine" /\ thr[s] # "exited"

(* Blocking-pool threads occupied by rounds.                                *)
PoolBusy == {s \in Streams : host[s] = "pool" /\ thr[s] \in InRound}

-----------------------------------------------------------------------------
Init ==
    /\ stream     = [s \in Streams |-> "live"]
    /\ requested  = [s \in Streams |-> FALSE]
    /\ delivered  = [s \in Streams |-> <<>>]
    /\ outcome    = [s \in Streams |-> "open"]
    /\ demand     = [s \in Streams |-> 0]
    /\ chan       = [s \in Streams |-> <<>>]
    /\ slot       = [s \in Streams |-> FALSE]
    /\ co         = [s \in Streams |-> "spawned"]
    /\ host       = [s \in Streams |-> "none"]
    /\ affineFree = AffineBudget
    /\ spec       = [s \in Streams |-> {}]
    /\ specFree   = SpecPermits
    /\ thr        = [s \in Streams |-> "none"]
    /\ done       = [s \in Streams |-> "none"]
    /\ reader     = [s \in Streams |-> "future"]
    /\ pulls      = [s \in Streams |-> 0]
    /\ last       = [s \in Streams |-> "unread"]
    /\ late       = [s \in Streams |-> 0]
    /\ rt         = "up"

-----------------------------------------------------------------------------
(* The consumer: DemandStream::poll_next, and dropping the stream.          *)

Polling(s) == stream[s] = "live" /\ outcome[s] = "open"

(* Faulty variant: every poll of a pending stream adds demand.              *)
PollRequestEveryPoll(s) ==
    /\ Polling(s)
    /\ requested' = Update(requested, s, TRUE)
    /\ demand' = Update(demand, s, demand[s] + 1)
    /\ UNCHANGED <<stream, delivered, outcome, chan, slot, co, host,
                   affineFree, creditVars, workVars, done, reader, rt>>

(* The first poll for a batch adds one permit of demand; the polls that     *)
(* repeat it while it is pending add none.                                  *)
PollRequest(s) ==
    /\ Polling(s)
    /\ ~requested[s]
    /\ requested' = Update(requested, s, TRUE)
    /\ demand' = Update(demand, s, demand[s] + 1)
    /\ UNCHANGED <<stream, delivered, outcome, chan, slot, co, host,
                   affineFree, creditVars, workVars, done, reader, rt>>

(* The inner stream has an item: Poll::Ready(Some(_)).                      *)
PollBatch(s) ==
    /\ Polling(s)
    /\ requested[s]
    /\ chan[s] # <<>>
    /\ delivered' = Update(delivered, s, Append(delivered[s], Head(chan[s])))
    /\ chan' = Update(chan, s, Tail(chan[s]))
    /\ requested' = Update(requested, s, FALSE)
    /\ UNCHANGED <<stream, outcome, demand, slot, co, host, affineFree,
                   creditVars, workVars, done, reader, rt>>

(* Poll::Ready(None): every sender is gone, the queue is empty and the      *)
(* coordinator finished with Ok(()).                                        *)
PollEnd(s) ==
    /\ Polling(s)
    /\ requested[s]
    /\ chan[s] = <<>>
    /\ ~slot[s]
    /\ co[s] = "ended"
    /\ outcome' = Update(outcome, s, "end")
    /\ UNCHANGED <<stream, requested, delivered, wireVars, co, host,
                   affineFree, creditVars, workVars, done, reader, rt>>

(* The builder's join set found the coordinator panicked, failed or         *)
(* cancelled.  It is selected against the channel, so it may overtake items *)
(* still queued there.                                                      *)
PollRaise(s) ==
    /\ Polling(s)
    /\ requested[s]
    /\ co[s] \in {"failed", "panicked", "aborted"}
    /\ outcome' = Update(outcome, s, "raised")
    /\ UNCHANGED <<stream, requested, delivered, wireVars, co, host,
                   affineFree, creditVars, workVars, done, reader, rt>>

(* Dropping the stream closes the channel, discards what it holds and marks *)
(* the coordinator for abortion.                                            *)
DropStream(s) ==
    /\ stream[s] = "live"
    /\ stream' = Update(stream, s, "dropped")
    /\ chan' = Update(chan, s, <<>>)
    /\ UNCHANGED <<requested, delivered, outcome, demand, slot, co, host,
                   affineFree, creditVars, workVars, done, reader, rt>>

-----------------------------------------------------------------------------
(* Speculation permits: dropping a credit gives back what it drew.          *)

(* Faulty variant: the permit is forgotten instead of dropped.              *)
ReleaseCreditForgets(s) ==
    /\ specFree' = specFree
    /\ spec' = Update(spec, s, {})

ReleaseCredit(s) ==
    /\ specFree' = specFree \cup spec[s]
    /\ spec' = Update(spec, s, {})

(* try_speculate: only Buffered streams, only while the budget lasts.       *)
CanSpeculate(s) == Buffered(s) /\ specFree # {}

TrySpeculate(s) ==
    /\ CanSpeculate(s)
    /\ \E p \in specFree : /\ spec' = Update(spec, s, spec[s] \cup {p})
                           /\ specFree' = specFree \ {p}

(* Faulty variants: the closure dies with the coordinator wherever it is;   *)
(* the closure is leaked.                                                   *)
DroppedFromInPlace(owner) == {"worker"}
DroppedFromLeaks(owner) == {owner}

(* Where the closure can end up when its owner is dropped by an async       *)
(* worker.  PullGuard hands it to spawn_blocking, which after the runtime's *)
(* shutdown destroys it in the caller; an unpolled future and the unread    *)
(* output of a blocking task are destroyed in place.                        *)
DroppedFrom(owner) ==
    CASE owner = "guard" -> IF rt = "up" THEN {"pool"} ELSE {"pool", "worker"}
      [] owner \in {"future", "output"} -> {"worker"}
      [] OTHER -> {owner}

(* The coordinator leaves its loop or is dropped, with the host it owns.    *)
Leave(s, state, owner) ==
    /\ co' = Update(co, s, state)
    /\ \E place \in DroppedFrom(owner) : reader' = Update(reader, s, place)

-----------------------------------------------------------------------------
(* The coordinator: the task spawned by spawn_channel_stream.               *)

(* PullHost::new with a permit of the affine budget and a thread.           *)
StartAffine(s) ==
    /\ co[s] = "spawned"
    /\ affineFree > 0
    /\ affineFree' = affineFree - 1
    /\ host' = Update(host, s, "affine")
    /\ thr' = Update(thr, s, "idle")
    /\ reader' = Update(reader, s, "host")
    /\ co' = Update(co, s, "credit")
    /\ UNCHANGED <<consumerVars, wireVars, creditVars, done, pulls, last, late, rt>>

(* PullHost::new when the budget is spent or the thread cannot be spawned.  *)
StartPool(s) ==
    /\ co[s] = "spawned"
    /\ affineFree = 0 \/ SpawnMayFail
    /\ host' = Update(host, s, "pool")
    /\ reader' = Update(reader, s, "guard")
    /\ co' = Update(co, s, "credit")
    /\ UNCHANGED <<consumerVars, wireVars, affineFree, creditVars, workVars, done, rt>>

(* Credit::Demanded: demand already granted, or granted while parked.       *)
(* Faulty variant: a parked task is not woken.                              *)
TakeDemandNotWoken(s) ==
    /\ co[s] = "credit"
    /\ demand[s] > 0
    /\ demand' = Update(demand, s, demand[s] - 1)
    /\ co' = Update(co, s, "reserve")
    /\ UNCHANGED <<consumerVars, chan, slot, host, affineFree, creditVars,
                   workVars, done, reader, rt>>

TakeDemand(s) ==
    /\ co[s] \in {"credit", "park"}
    /\ demand[s] > 0
    /\ demand' = Update(demand, s, demand[s] - 1)
    /\ co' = Update(co, s, "reserve")
    /\ UNCHANGED <<consumerVars, chan, slot, host, affineFree, creditVars,
                   workVars, done, reader, rt>>

Speculate(s) ==
    /\ co[s] = "credit"
    /\ demand[s] = 0
    /\ TrySpeculate(s)
    /\ co' = Update(co, s, "reserve")
    /\ UNCHANGED <<consumerVars, wireVars, host, affineFree, workVars, done,
                   reader, rt>>

(* Neither demand nor a speculation permit: wait for demand.                *)
Park(s) ==
    /\ co[s] = "credit"
    /\ demand[s] = 0
    /\ ~CanSpeculate(s)
    /\ co' = Update(co, s, "park")
    /\ UNCHANGED <<consumerVars, wireVars, host, affineFree, creditVars,
                   workVars, done, reader, rt>>

(* reserve_owned() grants a slot once the channel has one.                  *)
Reserve(s) ==
    /\ co[s] = "reserve"
    /\ FreeSlot(s)
    /\ slot' = Update(slot, s, TRUE)
    /\ co' = Update(co, s, "dispatch")
    /\ UNCHANGED <<consumerVars, demand, chan, host, affineFree, creditVars,
                   workVars, done, reader, rt>>

(* reserve_owned() fails because the receiver was dropped.                  *)
ReserveClosed(s) ==
    /\ co[s] = "reserve"
    /\ stream[s] = "dropped"
    /\ Leave(s, "ended", reader[s])
    /\ ReleaseCredit(s)
    /\ UNCHANGED <<consumerVars, wireVars, host, affineFree, workVars, done, rt>>

(* PullHost::round up to its await, on the dedicated thread.  A send to a   *)
(* thread that is gone returns Ok(true).                                    *)
DispatchAffine(s) ==
    /\ co[s] = "dispatch"
    /\ host[s] = "affine"
    /\ IF thr[s] = "idle"
       THEN /\ thr' = Update(thr, s, "queued")
            /\ co' = Update(co, s, "round")
            /\ UNCHANGED <<slot, creditVars>>
       ELSE /\ co' = Update(co, s, "ended")
            /\ slot' = Update(slot, s, FALSE)
            /\ ReleaseCredit(s)
            /\ UNCHANGED thr
    /\ UNCHANGED <<consumerVars, demand, chan, host, affineFree, done, reader,
                   pulls, last, late, rt>>

(* PullHost::round up to its await, on the blocking pool: the guard's       *)
(* closure, the slot and the credit move into the task.                     *)
DispatchPool(s) ==
    /\ co[s] = "dispatch"
    /\ host[s] = "pool"
    /\ rt = "up"
    /\ thr' = Update(thr, s, "queued")
    /\ reader' = Update(reader, s, "host")
    /\ co' = Update(co, s, "round")
    /\ UNCHANGED <<consumerVars, wireVars, host, affineFree, creditVars, done,
                   pulls, last, late, rt>>

(* After shutdown spawn_blocking refuses the task and drops it in place.    *)
DispatchRefused(s) ==
    /\ co[s] = "dispatch"
    /\ host[s] = "pool"
    /\ rt = "down"
    /\ reader' = Update(reader, s, "worker")
    /\ slot' = Update(slot, s, FALSE)
    /\ ReleaseCredit(s)
    /\ done' = Update(done, s, "cancelled")
    /\ co' = Update(co, s, "round")
    /\ UNCHANGED <<consumerVars, demand, chan, host, affineFree, workVars, rt>>

(* How the coordinator finishes on the result of its last round.  Faulty    *)
(* variant: a panic is swallowed and reads as the end of the stream.        *)
FinalStateQuiet(result) == IF result = "cancelled" THEN "failed" ELSE "ended"

FinalState(result) ==
    CASE result = "over" -> "ended"
      [] result = "panic" -> "panicked"
      [] result = "cancelled" -> "failed"

(* PullHost::round after its await.  The closure of a finished pool round   *)
(* comes back to the guard, a panic is resumed in the coordinator, and a    *)
(* cancelled blocking task fails it.                                        *)
RoundDone(s) ==
    /\ co[s] = "round"
    /\ done[s] # "none"
    /\ done' = Update(done, s, "none")
    /\ LET owner == IF reader[s] = "output" THEN "guard" ELSE reader[s]
       IN IF done[s] = "more"
          THEN co' = Update(co, s, "credit") /\ reader' = Update(reader, s, owner)
          ELSE Leave(s, FinalState(done[s]), owner)
    /\ UNCHANGED <<consumerVars, wireVars, host, affineFree, creditVars, workVars, rt>>

(* The task is dropped at an await point, by the stream's drop or by the    *)
(* runtime's shutdown.  In "reserve" it drops its credit, and in "round"    *)
(* the handle of the round, with the output of one that has finished.       *)
Abort(s) ==
    /\ co[s] \in AwaitPoints
    /\ stream[s] = "dropped" \/ rt = "down"
    /\ Leave(s, "aborted", reader[s])
    /\ done' = Update(done, s, "none")
    /\ IF co[s] = "reserve" THEN ReleaseCredit(s) ELSE UNCHANGED creditVars
    /\ UNCHANGED <<consumerVars, wireVars, host, affineFree, workVars, rt>>

-----------------------------------------------------------------------------
(* The worker: drain_batches, under run_affine_pull or a blocking task.     *)

(* Send through the permit held: a closed channel discards the item.        *)
Send(s, item) ==
    /\ chan' = IF stream[s] = "live"
               THEN Update(chan, s, Append(chan[s], item)) ELSE chan
    /\ slot' = Update(slot, s, FALSE)

(* Enter pull().                                                            *)
Enter(s) ==
    /\ thr' = Update(thr, s, "pulling")
    /\ pulls' = Update(pulls, s, pulls[s] + 1)
    /\ late' = IF stream[s] = "dropped" THEN Update(late, s, late[s] + 1) ELSE late
    /\ UNCHANGED last

(* pull() returned.                                                         *)
Return(s, result, next) ==
    /\ thr[s] = "pulling"
    /\ last' = Update(last, s, result)
    /\ thr' = Update(thr, s, next)
    /\ UNCHANGED <<consumerVars, demand, co, host, affineFree, creditVars,
                   done, reader, pulls, late, rt>>

(* The thread receives its job, or the pool has a thread for the task.  A   *)
(* queued job is delivered even if the coordinator was aborted since.       *)
BeginRound(s) ==
    /\ thr[s] = "queued"
    /\ host[s] = "pool" => Cardinality(PoolBusy) < PoolThreads
    /\ Enter(s)
    /\ UNCHANGED <<consumerVars, wireVars, co, host, affineFree, creditVars,
                   done, reader, rt>>

(* Some(Ok(batch)) with the advertised schema.                              *)
PullBatch(s) ==
    /\ pulls[s] <= MaxBatches
    /\ Return(s, "ok", "sent")
    /\ Send(s, pulls[s])

(* Faulty variant: the round goes on after an error.                        *)
PullFailsRetries(s) ==
    /\ Return(s, "err", "sent")
    /\ Send(s, Error)

(* Some(Err(_)), or a batch check_batch_schema rejects.                     *)
PullFails(s) ==
    /\ Return(s, "err", "over")
    /\ Send(s, Error)

(* None: the unused slot is given back.                                     *)
PullNone(s) ==
    /\ Return(s, "none", "over")
    /\ slot' = Update(slot, s, FALSE)
    /\ UNCHANGED chan

(* The closure panics; unwinding gives the slot back.                       *)
PullPanics(s) ==
    /\ Return(s, "panic", "panic")
    /\ slot' = Update(slot, s, FALSE)
    /\ UNCHANGED chan

(* pull() blocks for ever.                                                  *)
PullHangs(s) ==
    /\ thr[s] = "pulling"
    /\ thr' = Update(thr, s, "stuck")
    /\ UNCHANGED <<consumerVars, wireVars, co, host, affineFree, creditVars,
                   done, reader, pulls, last, late, rt>>

(* try_reserve_owned(): a full or closed channel ends the round.            *)
TryReserve(s) ==
    /\ thr[s] = "sent"
    /\ IF FreeSlot(s)
       THEN slot' = Update(slot, s, TRUE) /\ thr' = Update(thr, s, "slot")
       ELSE thr' = Update(thr, s, "more") /\ UNCHANGED slot
    /\ UNCHANGED <<consumerVars, demand, chan, co, host, affineFree, creditVars,
                   done, reader, pulls, last, late, rt>>

(* The next credit of the round: granted demand, else speculation, else the *)
(* slot is given back and the round ends.                                   *)
ContinueOnDemand(s) ==
    /\ thr[s] = "slot"
    /\ demand[s] > 0
    /\ demand' = Update(demand, s, demand[s] - 1)
    /\ Enter(s)
    /\ UNCHANGED <<consumerVars, chan, slot, co, host, affineFree, creditVars,
                   done, reader, rt>>

ContinueSpeculatively(s) ==
    /\ thr[s] = "slot"
    /\ demand[s] = 0
    /\ TrySpeculate(s)
    /\ Enter(s)
    /\ UNCHANGED <<consumerVars, wireVars, co, host, affineFree, done, reader, rt>>

OutOfCredit(s) ==
    /\ thr[s] = "slot"
    /\ demand[s] = 0
    /\ ~CanSpeculate(s)
    /\ slot' = Update(slot, s, FALSE)
    /\ thr' = Update(thr, s, "more")
    /\ UNCHANGED <<consumerVars, demand, chan, co, host, affineFree, creditVars,
                   done, reader, pulls, last, late, rt>>

(* The round's result reaches the coordinator if it still awaits it.        *)
(* Faulty variant: only the result of the last round is sent.               *)
PublishAtTheEnd(s) ==
    done' = IF co[s] = "round" /\ thr[s] # "more" THEN Update(done, s, thr[s]) ELSE done

Publish(s) ==
    done' = IF co[s] = "round" THEN Update(done, s, thr[s]) ELSE done

(* run_affine_pull after drain_batches: the credits are dropped, the result *)
(* is sent, and the thread waits for the next job or leaves its loop.       *)
ReportAffine(s) ==
    /\ host[s] = "affine"
    /\ thr[s] \in {"more", "over", "panic"}
    /\ ReleaseCredit(s)
    /\ Publish(s)
    /\ thr' = Update(thr, s, IF thr[s] = "more" THEN "idle" ELSE "exiting")
    /\ UNCHANGED <<consumerVars, wireVars, co, host, affineFree, reader,
                   pulls, last, late, rt>>

(* The blocking task completes.  Its output carries the closure back unless *)
(* it unwound, or nobody holds the handle: then it is destroyed on the pool.*)
ReportPool(s) ==
    /\ host[s] = "pool"
    /\ thr[s] \in {"more", "over", "panic"}
    /\ ReleaseCredit(s)
    /\ Publish(s)
    /\ thr' = Update(thr, s, "none")
    /\ reader' = Update(reader, s,
                        IF co[s] = "round" /\ thr[s] # "panic" THEN "output" ELSE "pool")
    /\ UNCHANGED <<consumerVars, wireVars, co, host, affineFree,
                   pulls, last, late, rt>>

(* A pool task that had not begun is cancelled by the runtime's shutdown.   *)
CancelQueued(s) ==
    /\ host[s] = "pool"
    /\ thr[s] = "queued"
    /\ rt = "down"
    /\ thr' = Update(thr, s, "none")
    /\ done' = IF co[s] = "round" THEN Update(done, s, "cancelled") ELSE done
    /\ reader' = Update(reader, s, "pool")
    /\ slot' = Update(slot, s, FALSE)
    /\ ReleaseCredit(s)
    /\ UNCHANGED <<consumerVars, demand, chan, co, host, affineFree,
                   pulls, last, late, rt>>

(* Faulty variant: the budget permit is not returned.                       *)
AffineExitKeepsPermit(s) ==
    /\ thr[s] = "exiting" \/ (thr[s] = "idle" /\ co[s] \in Gone)
    /\ thr' = Update(thr, s, "exited")
    /\ reader' = Update(reader, s, "thread")
    /\ UNCHANGED <<consumerVars, wireVars, co, host, affineFree, creditVars,
                   done, pulls, last, late, rt>>

(* The pull thread ends, after its last round or because the sender of jobs *)
(* is gone: it destroys the closure and returns its budget permit.          *)
AffineExit(s) ==
    /\ thr[s] = "exiting" \/ (thr[s] = "idle" /\ co[s] \in Gone)
    /\ thr' = Update(thr, s, "exited")
    /\ reader' = Update(reader, s, "thread")
    /\ affineFree' = affineFree + 1
    /\ UNCHANGED <<consumerVars, wireVars, co, host, creditVars, done,
                   pulls, last, late, rt>>

-----------------------------------------------------------------------------
(* shutdown_runtime: the tasks are aborted at their await points, queued    *)
(* blocking tasks are cancelled; dedicated threads are not tokio's.         *)
Shutdown ==
    /\ MayShutdown
    /\ rt = "up"
    /\ rt' = "down"
    /\ UNCHANGED <<consumerVars, wireVars, co, host, affineFree, creditVars,
                   workVars, done, reader>>

Answer(s) == PollBatch(s) \/ PollEnd(s) \/ PollRaise(s)

Consumer(s) == PollRequest(s) \/ Answer(s) \/ DropStream(s)

Coordinator(s) ==
    \/ StartAffine(s) \/ StartPool(s)
    \/ TakeDemand(s) \/ Speculate(s) \/ Park(s)
    \/ Reserve(s) \/ ReserveClosed(s)
    \/ DispatchAffine(s) \/ DispatchPool(s) \/ DispatchRefused(s)
    \/ RoundDone(s) \/ Abort(s)

Worker(s) ==
    \/ BeginRound(s)
    \/ PullBatch(s) \/ PullFails(s) \/ PullNone(s) \/ PullPanics(s) \/ PullHangs(s)
    \/ TryReserve(s)
    \/ ContinueOnDemand(s) \/ ContinueSpeculatively(s) \/ OutOfCredit(s)
    \/ ReportAffine(s) \/ ReportPool(s) \/ CancelQueued(s) \/ AffineExit(s)

Next == Shutdown \/ \E s \in Streams : Consumer(s) \/ Coordinator(s) \/ Worker(s)

Spec == Init /\ [][Next]_vars

(* Tokio polls a woken task, a woken thread runs, and a consumer that has a *)
(* poll pending is woken and polls again.  Nothing obliges the consumer to  *)
(* ask for another batch or to drop the stream, nor anyone to shut down.    *)
Fairness == \A s \in Streams : /\ WF_vars(Answer(s))
                               /\ WF_vars(Coordinator(s))
                               /\ WF_vars(Worker(s))

FairSpec == Spec /\ Fairness
=============================================================================
