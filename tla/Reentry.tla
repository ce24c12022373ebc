------------------------------- MODULE Reentry -------------------------------
(***************************************************************************)
(* Calls into the process-wide tokio runtime.  A method of SessionContext, *)
(* DataFrame or RecordBatchStream that plans or executes fetches a handle  *)
(* of the runtime, releases the GIL and blocks its thread until a future   *)
(* is resolved (wait_for_future).  The query it waits for may run Python   *)
(* code, a scan(), a function or a reader: on the blocked thread itself,   *)
(* in a task on a worker, or in a pull on the blocking pool.  That code    *)
(* needs the GIL, and may call into the runtime again, to any depth; close *)
(* may take the runtime away at any time.                                  *)
(*                                                                         *)
(* External: tokio's scheduler, reduced to its cores and to the threads of *)
(* its blocking pool, and the GIL, which code keeps until it blocks or     *)
(* ends.  A pull is taken to run on the pool; pull threads of their own,   *)
(* which only relieve it, are the business of ChannelStream.               *)
(***************************************************************************)
EXTENDS Integers, FiniteSets

CONSTANTS
    MaxCalls,       \* bound: calls into the runtime
    Streams,        \* RecordBatchStream objects
    Workers,        \* cores of the runtime
    PoolThreads,    \* threads of its blocking pool
    None, Closer    \* no call; the thread in close

(* Calls, numbered as they are made, and with each the code of its query.   *)
Calls == 1..MaxCalls

ASSUME CallsAssumption == MaxCalls \in Nat /\ None \notin Nat /\ Closer \notin Nat
ASSUME NamesAssumption == None # Closer /\ None \notin Streams
ASSUME WorkersAssumption == Workers \in Nat \ {0}
ASSUME PoolAssumption == PoolThreads \in Nat \ {0}

(* Where the Python code of a query runs.  A query without any is a task.   *)
Sites == {"here", "worker", "pool", "plain"}

VARIABLES
    runtime,    \* "up" or "down"
    gil,        \* the call whose code holds it, Closer, or None
    pc,         \* per call: "out", "waiting", "ready", "returned", "raised"
    parent,     \* per call: the call whose code made it, or None
    site,       \* per call: where its code runs
    code,       \* per call: how far its code is
    core,       \* calls whose code is on a worker that has its core
    lent,       \* calls whose code is on a worker that gave its core away
    stream,     \* per call: the stream it reads, or None
    borrow,     \* per stream: the call that has it borrowed exclusively
    lock,       \* per stream: the call that holds its mutex
    async       \* calls of __anext__

vars == <<runtime, gil, pc, parent, site, code, core, lent, stream, borrow, lock, async>>
streamVars == <<stream, borrow, lock, async>>

Ended == {"done", "error"}
OnThread == {"attach", "python", "blocked"}
CodeStates == {"none", "lock", "task", "round"} \cup OnThread \cup Ended

PoolUsers == lent \cup {c \in Calls : site[c] = "pool" /\ code[c] \in OnThread}
CoreFree == runtime = "up" /\ Cardinality(core) < Workers
PoolFree == Cardinality(PoolUsers) < PoolThreads

Init ==
    /\ runtime = "up"
    /\ gil = None
    /\ pc = [c \in Calls |-> "out"]
    /\ parent = [c \in Calls |-> None]
    /\ site = [c \in Calls |-> "plain"]
    /\ code = [c \in Calls |-> "none"]
    /\ core = {} /\ lent = {}
    /\ stream = [c \in Calls |-> None]
    /\ borrow = [s \in Streams |-> None]
    /\ lock = [s \in Streams |-> None]
    /\ async = {}

-----------------------------------------------------------------------------
(* Python code that holds the GIL: a thread that has just taken it (p is    *)
(* None), or the code of the call p.                                        *)
Running(p) == gil = p /\ (p # None => code[p] = "python")

Blocks(p, c, first) ==
    [d \in Calls |-> IF d = c THEN first ELSE IF d = p THEN "blocked" ELSE code[d]]

(* get_tokio_handle panics once the runtime is gone.  The GIL is not        *)
(* released between the fetch of the handle, a spawn and the wait, so close *)
(* comes before or after all three.                                         *)
Refused(c) ==
    /\ pc' = [pc EXCEPT ![c] = "raised"]
    /\ UNCHANGED <<runtime, gil, parent, site, code, core, lent, streamVars>>

(* wait_for_future: the handle, and py.detach around the wait.  Faulty      *)
(* variant: the GIL is kept.                                                *)
WaitKeepsGil(c, p, s, first) ==
    /\ pc' = [pc EXCEPT ![c] = "waiting"]
    /\ parent' = [parent EXCEPT ![c] = p]
    /\ site' = [site EXCEPT ![c] = s]
    /\ code' = Blocks(p, c, first)
    /\ UNCHANGED <<runtime, gil, core, lent>>

Wait(c, p, s, first) ==
    /\ pc' = [pc EXCEPT ![c] = "waiting"]
    /\ parent' = [parent EXCEPT ![c] = p]
    /\ site' = [site EXCEPT ![c] = s]
    /\ code' = Blocks(p, c, first)
    /\ gil' = None
    /\ UNCHANGED <<runtime, core, lent>>

(* sql, table: the future is polled on the calling thread; its Python code, *)
(* if it comes to any, is the scan or schema of a provider.                 *)
Plan(c, p) ==
    /\ pc[c] = "out" /\ Running(p)
    /\ IF runtime = "down" THEN Refused(c)
       ELSE /\ \E first \in {"attach"} \cup Ended : Wait(c, p, "here", first)
            /\ UNCHANGED streamVars

(* collect, count, cache, show, write_csv and the like: polled on the       *)
(* calling thread too, with partitions in tasks and pulls in the pool.      *)
Collect(c, p) ==
    /\ pc[c] = "out" /\ Running(p)
    /\ IF runtime = "down" THEN Refused(c)
       ELSE /\ \/ Wait(c, p, "here", "attach")
               \/ \E s \in {"worker", "pool"} : Wait(c, p, s, "task")
            /\ UNCHANGED streamVars

(* execute_stream, execute_stream_partitioned: spawned, then waited for.    *)
ExecuteStream(c, p) ==
    /\ pc[c] = "out" /\ Running(p)
    /\ IF runtime = "down" THEN Refused(c)
       ELSE (\E s \in {"worker", "plain"} : Wait(c, p, s, "task")) /\ UNCHANGED streamVars

(* RecordBatchStream.next: &mut self is borrowed until it returns, and      *)
(* another call on the object meanwhile raises.  Faulty variant: &self,     *)
(* which leaves the other call to the mutex.                                *)
NextShared(c, p, s) ==
    /\ pc[c] = "out" /\ Running(p)
    /\ IF runtime = "down" THEN Refused(c)
       ELSE /\ \E w \in Sites : Wait(c, p, w, "lock")
            /\ stream' = [stream EXCEPT ![c] = s]
            /\ borrow' = [borrow EXCEPT ![s] = c]
            /\ UNCHANGED <<lock, async>>

Next_(c, p, s) ==
    /\ pc[c] = "out" /\ Running(p)
    /\ IF borrow[s] # None \/ runtime = "down" THEN Refused(c)
       ELSE /\ \E w \in Sites : Wait(c, p, w, "lock")
            /\ stream' = [stream EXCEPT ![c] = s]
            /\ borrow' = [borrow EXCEPT ![s] = c]
            /\ UNCHANGED <<lock, async>>

(* __anext__: &self is borrowed for no longer than it takes to hand the     *)
(* future to the runtime of the event loop, which close leaves alone.       *)
Anext(c, p, s) ==
    /\ pc[c] = "out" /\ Running(p)
    /\ IF borrow[s] # None THEN Refused(c)
       ELSE /\ pc' = [pc EXCEPT ![c] = "waiting"]
            /\ \E w \in Sites : site' = [site EXCEPT ![c] = w]
            /\ code' = [code EXCEPT ![c] = "lock"]
            /\ stream' = [stream EXCEPT ![c] = s]
            /\ async' = async \cup {c}
            /\ UNCHANGED <<runtime, gil, parent, core, lent, borrow, lock>>

(* next_stream: the mutex of the stream, then its next batch.               *)
NextStream(c) ==
    /\ code[c] = "lock" /\ lock[stream[c]] = None
    /\ lock' = [lock EXCEPT ![stream[c]] = c]
    /\ code' = [code EXCEPT ![c] = IF site[c] = "here" THEN "attach"
                                   ELSE IF site[c] = "plain" THEN "done" ELSE "task"]
    /\ UNCHANGED <<runtime, gil, pc, parent, site, core, lent, stream, borrow, async>>

-----------------------------------------------------------------------------
(* A worker takes a task: runs its code, hands a pull to the pool, or, if   *)
(* there is no Python in it, completes it.                                  *)
RunTask(c) ==
    /\ code[c] = "task" /\ CoreFree
    /\ code' = [code EXCEPT ![c] = IF site[c] = "worker" THEN "attach"
                                   ELSE IF site[c] = "pool" THEN "round" ELSE "done"]
    /\ core' = IF site[c] = "worker" THEN core \cup {c} ELSE core
    /\ UNCHANGED <<runtime, gil, pc, parent, site, lent, streamVars>>

RunPull(c) ==
    /\ code[c] = "round" /\ runtime = "up" /\ PoolFree
    /\ code' = [code EXCEPT ![c] = "attach"]
    /\ UNCHANGED <<runtime, gil, pc, parent, site, core, lent, streamVars>>

(* Python::attach.                                                          *)
Attach(c) ==
    /\ code[c] = "attach" /\ gil = None
    /\ gil' = c
    /\ code' = [code EXCEPT ![c] = "python"]
    /\ UNCHANGED <<runtime, pc, parent, site, core, lent, streamVars>>

(* block_in_place: a worker that waits in wait_for_future offers its core,  *)
(* and a thread of the pool takes it on.  Faulty variant: block_on alone.   *)
HandOffNever(c) == FALSE /\ UNCHANGED vars

HandOff(c) ==
    /\ c \in core /\ code[c] = "blocked"
    /\ runtime = "up" /\ PoolFree
    /\ core' = core \ {c}
    /\ lent' = lent \cup {c}
    /\ UNCHANGED <<runtime, gil, pc, parent, site, code, streamVars>>

(* The code returns or raises.  What a task or a pull returned may be lost  *)
(* with the task that awaits it, once the runtime is down: an error too.    *)
Leave(c) ==
    /\ code[c] = "python"
    /\ \E e \in Ended : code' = [code EXCEPT ![c] = e]
    /\ gil' = None
    /\ core' = core \ {c}
    /\ lent' = lent \ {c}
    /\ UNCHANGED <<runtime, pc, parent, site, streamVars>>

(* shutdown drops the tasks and pulls that have not begun.                  *)
Cancel(c) ==
    /\ runtime = "down" /\ code[c] \in {"task", "round"}
    /\ code' = [code EXCEPT ![c] = "error"]
    /\ UNCHANGED <<runtime, gil, pc, parent, site, core, lent, streamVars>>

(* The future is resolved, and the mutex released with it.                  *)
Unlocked(c) == [s \in Streams |-> IF lock[s] = c THEN None ELSE lock[s]]

Resolve(c) ==
    /\ pc[c] = "waiting" /\ code[c] \in Ended
    /\ pc' = [pc EXCEPT ![c] = "ready"]
    /\ lock' = Unlocked(c)
    /\ UNCHANGED <<runtime, gil, parent, site, code, core, lent, stream, borrow, async>>

(* The thread takes the GIL again and the method returns, with an error     *)
(* unless the query ended well: JoinError is an error too.                  *)
Forget(c) ==
    /\ borrow' = [s \in Streams |-> IF borrow[s] = c THEN None ELSE borrow[s]]
    /\ parent' = [parent EXCEPT ![c] = None]
    /\ site' = [site EXCEPT ![c] = "plain"]
    /\ stream' = [stream EXCEPT ![c] = None]
    /\ async' = async \ {c}
Resumed(c, how) ==
    [d \in Calls |-> IF d = parent[c] THEN "python"
                     ELSE IF d = c /\ how = "raised" THEN "none" ELSE code[d]]

Return(c) ==
    /\ pc[c] = "ready" /\ gil = None
    /\ LET how == IF code[c] = "done" THEN "returned" ELSE "raised"
       IN pc' = [pc EXCEPT ![c] = how] /\ code' = Resumed(c, how)
    /\ gil' = parent[c]
    /\ Forget(c)
    /\ UNCHANGED <<runtime, core, lent, lock>>

(* close: the runtime is taken out of its lock and shut down in the         *)
(* background, or with a timeout, for which the GIL is kept: code that      *)
(* needs it to end does not end before the timeout.                         *)
Close ==
    /\ runtime = "up" /\ gil = None
    /\ runtime' = "down"
    /\ gil' \in {None, Closer}
    /\ UNCHANGED <<pc, parent, site, code, core, lent, streamVars>>

TimeOut ==
    /\ gil = Closer
    /\ gil' = None
    /\ UNCHANGED <<runtime, pc, parent, site, code, core, lent, streamVars>>

Call(c) ==
    /\ \A d \in Calls : d < c => pc[d] # "out"
    /\ \E p \in Calls \cup {None} :
        \/ Plan(c, p) \/ Collect(c, p) \/ ExecuteStream(c, p)
        \/ \E s \in Streams : Next_(c, p, s) \/ Anext(c, p, s)
Step(c) ==
    \/ NextStream(c) \/ RunTask(c) \/ RunPull(c) \/ HandOff(c)
    \/ Leave(c) \/ Cancel(c) \/ Resolve(c)

Next ==
    \/ \E c \in Calls : Call(c) \/ Step(c) \/ Attach(c) \/ Return(c)
    \/ Close \/ TimeOut

Spec == Init /\ [][Next]_vars

(* tokio runs what can run, Python code ends or makes another call, and the *)
(* interpreter hands the GIL to every thread that waits for it.             *)
Fairness ==
    /\ \A c \in Calls : WF_vars(Step(c) \/ Attach(c) \/ Return(c))
    /\ WF_vars(TimeOut)
FairSpec == Spec /\ Fairness

-----------------------------------------------------------------------------
(* Types, and who is where: cores and lent threads carry the code of calls  *)
(* at site "worker" that has begun and not ended.                           *)
TypeOK ==
    /\ runtime \in {"up", "down"}
    /\ gil \in Calls \cup {None, Closer}
    /\ pc \in [Calls -> {"out", "waiting", "ready", "returned", "raised"}]
    /\ parent \in [Calls -> Calls \cup {None}]
    /\ site \in [Calls -> Sites]
    /\ code \in [Calls -> CodeStates]
    /\ core \subseteq {c \in Calls : site[c] = "worker" /\ code[c] \in OnThread}
    /\ lent \subseteq {c \in Calls : site[c] = "worker" /\ code[c] \in OnThread}
    /\ stream \in [Calls -> Streams \cup {None}]
    /\ borrow \in [Streams -> Calls \cup {None}]
    /\ lock \in [Streams -> Calls \cup {None}]
    /\ async \subseteq Calls

(* The GIL is with Python code that runs, never with a thread that waits in *)
(* wait_for_future: one such thread would stop every other.                 *)
GilWithRunningCode ==
    /\ \A c \in Calls : gil = c <=> code[c] = "python"
    /\ gil \in Calls => pc[gil] = "waiting"

(* What a call waits for: one that waits for the mutex of its stream, for   *)
(* the call that holds it; one whose code has called into the runtime, for   *)
(* that inner call.  The calls of a circle wait for one another for ever.   *)
Awaits(c, d) ==
    \/ code[c] = "lock" /\ lock[stream[c]] = d
    \/ code[c] = "blocked" /\ parent[d] = c
Waiting == {c \in Calls : code[c] \in {"lock", "blocked"}}
Circle(S) ==
    /\ S # {}
    /\ \A c \in S : (\E d \in S : Awaits(c, d)) /\ (\E d \in S : Awaits(d, c))

(* Calls that wait for one another for ever do so for the mutexes of        *)
(* __anext__ reads alone.  A next is never part of such a circle with the   *)
(* mutex it holds, whether its source reads that stream again or two        *)
(* sources read each other's: the exclusive borrow turns the read away.     *)
OnlyAsyncReadsLockUp ==
    \A S \in SUBSET Waiting : Circle(S) =>
        \A c \in S : code[c] = "lock" => lock[stream[c]] \in async

(* Every call comes back, with a result or an error, however calls nest,    *)
(* wherever their code runs, with a single worker and with the runtime      *)
(* closed under it, unless __anext__ reads have locked up: the source of    *)
(* one reads its own stream, or those of several read each other's.  There  *)
(* are MaxCalls calls: in the end none is waiting.                          *)
CallsReturn ==
    [](\A S \in SUBSET Waiting : ~Circle(S)) =>
        <>[](\A c \in Calls : pc[c] \notin {"waiting", "ready"})
=============================================================================
