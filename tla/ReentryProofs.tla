---------------------------- MODULE ReentryProofs ----------------------------
(***************************************************************************)
(* Theorems about Reentry, for any number of calls, streams, workers and   *)
(* pool threads.                                                           *)
(*                                                                         *)
(* The strengthening ties the four views of a call together: how far the   *)
(* method is (pc), how far the code of its query is (code), the call above *)
(* it (parent), which is blocked and blocked by no other, and the borrow   *)
(* and the mutex of the stream it reads.                                   *)
(***************************************************************************)
EXTENDS Reentry, TLAPS

Active == {"waiting", "ready"}

(* How far the code is, for each stage of the method.                       *)
Stages ==
    \A c \in Calls :
        /\ pc[c] = "out" => code[c] = "none"
        /\ pc[c] = "waiting" => code[c] # "none"
        /\ pc[c] = "ready" => code[c] \in Ended
        /\ pc[c] = "returned" => code[c] = "done"
        /\ pc[c] = "raised" => code[c] = "none"
        /\ pc[c] \notin Active => parent[c] = None /\ stream[c] = None /\ c \notin async

(* Calls are made in their order, each by code that it blocks.              *)
Nesting ==
    /\ \A c, d \in Calls : c < d /\ pc[c] = "out" => pc[d] = "out"
    /\ \A c \in Calls : parent[c] # None => parent[c] < c /\ code[parent[c]] = "blocked"
    /\ \A c, d \in Calls : parent[c] = parent[d] /\ parent[c] # None => c = d
    /\ \A c \in async : parent[c] = None

(* The borrow is that of a next, the mutex that of a call past "lock".      *)
Borrowing ==
    /\ \A s \in Streams : \A c \in Calls :
        /\ borrow[s] = c <=> stream[c] = s /\ c \notin async
        /\ lock[s] = c => stream[c] = s /\ pc[c] = "waiting" /\ code[c] # "lock"
    /\ \A c \in Calls : code[c] = "lock" => stream[c] \in Streams

Inv == TypeOK /\ GilWithRunningCode /\ Stages /\ Nesting /\ Borrowing

-----------------------------------------------------------------------------
(* What calls are, and None and Closer are not.                             *)
LEMMA CallsAre ==
    /\ \A c \in Calls : c \in Nat /\ c # None /\ c # Closer
    /\ \A c \in Calls : 1..c - 1 \subseteq Calls
    /\ None \notin Streams /\ None # Closer
    BY CallsAssumption, NamesAssumption DEF Calls

LEMMA InitInv == Init => Inv
<1> SUFFICES ASSUME Init PROVE Inv
    OBVIOUS
<1> USE CallsAre DEF Init
<1>1. TypeOK
    BY DEF TypeOK, Sites, CodeStates
<1>2. GilWithRunningCode
    BY DEF GilWithRunningCode
<1>3. Stages /\ Nesting
    BY DEF Stages, Nesting, Active
<1>4. Borrowing
    BY DEF Borrowing
<1> QED
    BY <1>1, <1>2, <1>3, <1>4 DEF Inv

LEMMA RefusedInv ==
    ASSUME Inv, NEW c \in Calls, pc[c] = "out", Refused(c),
           \A d \in Calls : d < c => pc[d] # "out"
    PROVE  Inv'
<1> USE CallsAre DEF Inv, Refused, streamVars
<1>1. TypeOK'
    BY DEF TypeOK, CodeStates, OnThread, Ended
<1>2. GilWithRunningCode'
    BY DEF TypeOK, GilWithRunningCode, Stages, Ended
<1>3. Stages'
    BY DEF TypeOK, Stages, Active, Ended
<1>4. Nesting'
    BY DEF TypeOK, Nesting
<1>5. Borrowing'
    BY DEF TypeOK, Borrowing, Stages, Ended
<1> QED
    BY <1>1, <1>2, <1>3, <1>4, <1>5 DEF Inv

LEMMA NextStreamInv ==
    ASSUME Inv, NEW c \in Calls, NextStream(c)
    PROVE  Inv'
<1> USE CallsAre DEF Inv, NextStream, streamVars
<1>1. TypeOK'
    BY DEF TypeOK, CodeStates, OnThread, Ended
<1>2. GilWithRunningCode'
    BY DEF TypeOK, GilWithRunningCode, Stages, Ended
<1>3. Stages'
    BY DEF TypeOK, Stages, Active, Ended
<1>4. Nesting'
    BY DEF TypeOK, Nesting
<1>5. Borrowing'
    BY DEF TypeOK, Borrowing, Stages, Ended
<1> QED
    BY <1>1, <1>2, <1>3, <1>4, <1>5 DEF Inv

LEMMA RunTaskInv ==
    ASSUME Inv, NEW c \in Calls, RunTask(c)
    PROVE  Inv'
<1> USE CallsAre DEF Inv, RunTask, streamVars
<1>1. TypeOK'
    BY DEF TypeOK, CodeStates, OnThread, Ended
<1>2. GilWithRunningCode'
    BY DEF TypeOK, GilWithRunningCode, Stages, Ended
<1>3. Stages'
    BY DEF TypeOK, Stages, Active, Ended
<1>4. Nesting'
    BY DEF TypeOK, Nesting
<1>5. Borrowing'
    BY DEF TypeOK, Borrowing, Stages, Ended
<1> QED
    BY <1>1, <1>2, <1>3, <1>4, <1>5 DEF Inv

LEMMA RunPullInv ==
    ASSUME Inv, NEW c \in Calls, RunPull(c)
    PROVE  Inv'
<1> USE CallsAre DEF Inv, RunPull, streamVars
<1>1. TypeOK'
    BY DEF TypeOK, CodeStates, OnThread, Ended
<1>2. GilWithRunningCode'
    BY DEF TypeOK, GilWithRunningCode, Stages, Ended
<1>3. Stages'
    BY DEF TypeOK, Stages, Active, Ended
<1>4. Nesting'
    BY DEF TypeOK, Nesting
<1>5. Borrowing'
    BY DEF TypeOK, Borrowing, Stages, Ended
<1> QED
    BY <1>1, <1>2, <1>3, <1>4, <1>5 DEF Inv

LEMMA AttachInv ==
    ASSUME Inv, NEW c \in Calls, Attach(c)
    PROVE  Inv'
<1> USE CallsAre DEF Inv, Attach, streamVars
<1>1. TypeOK'
    BY DEF TypeOK, CodeStates, OnThread, Ended
<1>2. GilWithRunningCode'
    BY DEF TypeOK, GilWithRunningCode, Stages, Ended
<1>3. Stages'
    BY DEF TypeOK, Stages, Active, Ended
<1>4. Nesting'
    BY DEF TypeOK, Nesting
<1>5. Borrowing'
    BY DEF TypeOK, Borrowing, Stages, Ended
<1> QED
    BY <1>1, <1>2, <1>3, <1>4, <1>5 DEF Inv

LEMMA HandOffInv ==
    ASSUME Inv, NEW c \in Calls, HandOff(c)
    PROVE  Inv'
<1> USE CallsAre DEF Inv, HandOff, streamVars
<1>1. TypeOK'
    BY DEF TypeOK, CodeStates, OnThread, Ended
<1>2. GilWithRunningCode'
    BY DEF TypeOK, GilWithRunningCode, Stages, Ended
<1>3. Stages'
    BY DEF TypeOK, Stages, Active, Ended
<1>4. Nesting'
    BY DEF TypeOK, Nesting
<1>5. Borrowing'
    BY DEF TypeOK, Borrowing, Stages, Ended
<1> QED
    BY <1>1, <1>2, <1>3, <1>4, <1>5 DEF Inv

LEMMA LeaveInv ==
    ASSUME Inv, NEW c \in Calls, Leave(c)
    PROVE  Inv'
<1> USE CallsAre DEF Inv, Leave, streamVars
<1>1. TypeOK'
    BY DEF TypeOK, CodeStates, OnThread, Ended
<1>2. GilWithRunningCode'
    BY DEF TypeOK, GilWithRunningCode, Stages, Ended
<1>3. Stages'
    BY DEF TypeOK, Stages, Active, Ended
<1>4. Nesting'
    BY DEF TypeOK, Nesting
<1>5. Borrowing'
    BY DEF TypeOK, Borrowing, Stages, Ended
<1> QED
    BY <1>1, <1>2, <1>3, <1>4, <1>5 DEF Inv

LEMMA CancelInv ==
    ASSUME Inv, NEW c \in Calls, Cancel(c)
    PROVE  Inv'
<1> USE CallsAre DEF Inv, Cancel, streamVars
<1>1. TypeOK'
    BY DEF TypeOK, CodeStates, OnThread, Ended
<1>2. GilWithRunningCode'
    BY DEF TypeOK, GilWithRunningCode, Stages, Ended
<1>3. Stages'
    BY DEF TypeOK, Stages, Active, Ended
<1>4. Nesting'
    BY DEF TypeOK, Nesting
<1>5. Borrowing'
    BY DEF TypeOK, Borrowing, Stages, Ended
<1> QED
    BY <1>1, <1>2, <1>3, <1>4, <1>5 DEF Inv

LEMMA ResolveInv ==
    ASSUME Inv, NEW c \in Calls, Resolve(c)
    PROVE  Inv'
<1> USE CallsAre DEF Inv, Unlocked, Resolve, streamVars
<1>1. TypeOK'
    BY DEF TypeOK, CodeStates, OnThread, Ended
<1>2. GilWithRunningCode'
    BY DEF TypeOK, GilWithRunningCode, Stages, Ended
<1>3. Stages'
    BY DEF TypeOK, Stages, Active, Ended
<1>4. Nesting'
    BY DEF TypeOK, Nesting
<1>5. Borrowing'
    BY DEF TypeOK, Borrowing, Stages, Ended
<1> QED
    BY <1>1, <1>2, <1>3, <1>4, <1>5 DEF Inv

-----------------------------------------------------------------------------
(* A call that is made: what wait_for_future does to the caller and to the  *)
(* call, apart from its stream.                                             *)
LEMMA WaitKeeps ==
    ASSUME Inv, NEW c \in Calls, NEW p \in Calls \cup {None}, NEW s \in Sites,
           NEW first \in {"attach", "task", "lock"} \cup Ended,
           pc[c] = "out", \A d \in Calls : d < c => pc[d] # "out",
           Running(p), Wait(c, p, s, first)
    PROVE  /\ pc' \in [Calls -> {"out", "waiting", "ready", "returned", "raised"}]
           /\ parent' \in [Calls -> Calls \cup {None}]
           /\ site' \in [Calls -> Sites] /\ code' \in [Calls -> CodeStates]
           /\ pc'[c] = "waiting" /\ code'[c] = first /\ parent'[c] = p
           /\ \A d \in Calls \ {c} : pc'[d] = pc[d] /\ parent'[d] = parent[d] /\ site'[d] = site[d]
           /\ \A d \in Calls \ {c} : code'[d] = IF d = p THEN "blocked" ELSE code[d]
           /\ p # c /\ (p # None => code[p] = "python" /\ pc[p] = "waiting" /\ p < c)
           /\ gil' = None /\ runtime' = runtime /\ core' = core /\ lent' = lent
<1> USE CallsAre
<1>1. p # None => code[p] = "python" /\ pc[p] = "waiting" /\ p < c /\ p # c
    BY DEF Inv, Running, GilWithRunningCode, Nesting, TypeOK, Stages, Calls
<1>2. "waiting" \in {"out", "waiting", "ready", "returned", "raised"}
      /\ first \in CodeStates /\ "blocked" \in CodeStates
    BY DEF CodeStates, OnThread, Ended
<1>3. /\ pc' = [pc EXCEPT ![c] = "waiting"] /\ parent' = [parent EXCEPT ![c] = p]
      /\ site' = [site EXCEPT ![c] = s]
      /\ code' = [d \in Calls |-> IF d = c THEN first ELSE IF d = p THEN "blocked" ELSE code[d]]
      /\ gil' = None /\ runtime' = runtime /\ core' = core /\ lent' = lent
    BY DEF Wait, Blocks
<1>4. TypeOK
    BY DEF Inv
<1> QED
    BY <1>1, <1>2, <1>3, <1>4 DEF TypeOK

(* The invariant after it, whatever stream the call is about to read.       *)
LEMMA CallInv ==
    ASSUME Inv, NEW c \in Calls, NEW p \in Calls \cup {None}, NEW s \in Sites,
           NEW first \in {"attach", "task", "lock"} \cup Ended,
           pc[c] = "out", \A d \in Calls : d < c => pc[d] # "out",
           Running(p), Wait(c, p, s, first),
           \/ first # "lock" /\ UNCHANGED streamVars
           \/ \E t \in Streams :
                /\ borrow[t] = None
                /\ stream' = [stream EXCEPT ![c] = t]
                /\ borrow' = [borrow EXCEPT ![t] = c]
                /\ lock' = lock /\ async' = async
    PROVE  Inv'
<1> USE CallsAre
<1>1. TypeOK /\ Stages /\ Nesting /\ Borrowing /\ GilWithRunningCode
    BY DEF Inv
<1>2. /\ pc' \in [Calls -> {"out", "waiting", "ready", "returned", "raised"}]
      /\ parent' \in [Calls -> Calls \cup {None}]
      /\ site' \in [Calls -> Sites] /\ code' \in [Calls -> CodeStates]
      /\ pc'[c] = "waiting" /\ code'[c] = first /\ parent'[c] = p
      /\ \A d \in Calls \ {c} : pc'[d] = pc[d] /\ parent'[d] = parent[d] /\ site'[d] = site[d]
      /\ \A d \in Calls \ {c} : code'[d] = IF d = p THEN "blocked" ELSE code[d]
      /\ p # c /\ (p # None => code[p] = "python" /\ pc[p] = "waiting" /\ p < c)
      /\ gil' = None /\ runtime' = runtime /\ core' = core /\ lent' = lent
    BY WaitKeeps
<1>3. /\ stream' \in [Calls -> Streams \cup {None}]
      /\ borrow' \in [Streams -> Calls \cup {None}]
      /\ lock' = lock /\ async' = async
      /\ \A d \in Calls \ {c} : stream'[d] = stream[d]
      /\ first = "lock" => stream'[c] \in Streams
      /\ c \notin async /\ stream[c] = None /\ code[c] = "none" /\ parent[c] = None
    BY <1>1 DEF TypeOK, Stages, streamVars, Active
<1>4. TypeOK'
    BY <1>1, <1>2, <1>3 DEF TypeOK, OnThread
<1>5. GilWithRunningCode'
  <2>1. gil \in Calls => gil = p
    BY DEF Running
  <2> QED
    BY <1>1, <1>2, <2>1 DEF GilWithRunningCode, Ended
<1>6. Stages'
    BY <1>1, <1>2, <1>3 DEF Stages, Active, Ended
<1>7. Nesting'
  <2>1. \A d, e \in Calls : d < e /\ pc'[d] = "out" => pc'[e] = "out"
    BY <1>1, <1>2 DEF Nesting
  <2>2. \A d \in Calls : parent'[d] # None => parent'[d] < d /\ code'[parent'[d]] = "blocked"
    BY <1>1, <1>2, <1>3 DEF Nesting, TypeOK
  <2>3. \A d \in Calls : parent[d] # None => parent[d] # p
    BY <1>1, <1>2 DEF Nesting
  <2>4. \A d, e \in Calls : parent'[d] = parent'[e] /\ parent'[d] # None => d = e
    BY <1>1, <1>2, <2>3 DEF Nesting
  <2>5. \A d \in async' : parent'[d] = None
    BY <1>1, <1>2, <1>3 DEF Nesting, TypeOK
  <2> QED
    BY <2>1, <2>2, <2>4, <2>5 DEF Nesting
<1>8. Borrowing'
  <2>1. \A t \in Streams : lock[t] # c /\ borrow[t] # c
    BY <1>1, <1>3 DEF Borrowing
  <2>2. \A t \in Streams : \A d \in Calls : borrow'[t] = d <=> stream'[d] = t /\ d \notin async'
    BY <1>1, <1>3, <2>1 DEF Borrowing, TypeOK, streamVars
  <2>3. \A t \in Streams : \A d \in Calls :
            lock'[t] = d => stream'[d] = t /\ pc'[d] = "waiting" /\ code'[d] # "lock"
    BY <1>1, <1>2, <1>3, <2>1 DEF Borrowing
  <2>4. \A d \in Calls : code'[d] = "lock" => stream'[d] \in Streams
    BY <1>1, <1>2, <1>3 DEF Borrowing
  <2> QED
    BY <2>2, <2>3, <2>4 DEF Borrowing
<1> QED
    BY <1>4, <1>5, <1>6, <1>7, <1>8 DEF Inv

LEMMA AnextInv ==
    ASSUME Inv, NEW c \in Calls, NEW p \in Calls \cup {None}, NEW s \in Streams,
           \A d \in Calls : d < c => pc[d] # "out",
           Anext(c, p, s)
    PROVE  Inv'
<1>1. CASE borrow[s] # None
    BY <1>1, RefusedInv DEF Anext
<1>2. CASE borrow[s] = None
  <2> USE CallsAre DEF Inv
  <2>1. /\ pc[c] = "out" /\ pc' = [pc EXCEPT ![c] = "waiting"]
        /\ \E w \in Sites : site' = [site EXCEPT ![c] = w]
        /\ code' = [code EXCEPT ![c] = "lock"]
        /\ stream' = [stream EXCEPT ![c] = s]
        /\ async' = async \cup {c}
        /\ UNCHANGED <<runtime, gil, parent, core, lent, borrow, lock>>
    BY <1>2 DEF Anext
  <2>2. code[c] = "none" /\ stream[c] = None /\ parent[c] = None
    BY <2>1 DEF Stages, Active
  <2>3. TypeOK'
    BY <2>1, <2>2 DEF TypeOK, CodeStates, OnThread
  <2>4. GilWithRunningCode'
    BY <2>1, <2>2 DEF GilWithRunningCode, TypeOK
  <2>5. Stages'
    BY <2>1 DEF Stages, Active, TypeOK, Ended
  <2>6. Nesting'
    BY <2>1, <2>2 DEF Nesting, TypeOK
  <2>7. Borrowing'
    BY <1>2, <2>1, <2>2 DEF Borrowing, TypeOK
  <2> QED
    BY <2>3, <2>4, <2>5, <2>6, <2>7 DEF Inv
<1> QED
    BY <1>1, <1>2

(* The call above goes on where it was blocked.                             *)
LEMMA ReturnInv ==
    ASSUME Inv, NEW c \in Calls, Return(c)
    PROVE  Inv'
<1> DEFINE how == IF code[c] = "done" THEN "returned" ELSE "raised"
           p == parent[c]
<1> USE CallsAre
<1>1. TypeOK /\ Stages /\ Nesting /\ Borrowing /\ GilWithRunningCode
    BY DEF Inv
<1>2. /\ pc[c] = "ready" /\ gil = None
      /\ pc' = [pc EXCEPT ![c] = how]
      /\ code' = [d \in Calls |-> IF d = p THEN "python"
                                  ELSE IF d = c /\ how = "raised" THEN "none" ELSE code[d]]
      /\ gil' = p
      /\ borrow' = [s \in Streams |-> IF borrow[s] = c THEN None ELSE borrow[s]]
      /\ parent' = [parent EXCEPT ![c] = None]
      /\ site' = [site EXCEPT ![c] = "plain"]
      /\ stream' = [stream EXCEPT ![c] = None]
      /\ async' = async \ {c}
      /\ UNCHANGED <<runtime, core, lent, lock>>
    BY DEF Return, Resumed, Forget
<1>3. /\ code[c] \in Ended /\ p \in Calls \cup {None} /\ p # c
      /\ p # None => code[p] = "blocked" /\ pc[p] = "waiting"
  <2>1. code[c] \in Ended /\ p \in Calls \cup {None}
    BY <1>1, <1>2 DEF Stages, TypeOK
  <2>2. p # None => p < c /\ code[p] = "blocked"
    BY <1>1 DEF Nesting
  <2>3. p # None => pc[p] = "waiting"
    BY <1>1, <2>1, <2>2 DEF Stages, TypeOK, Ended
  <2> QED
    BY <2>1, <2>2, <2>3
<1>4. \A d \in Calls : code[d] # "python"
    BY <1>1, <1>2 DEF GilWithRunningCode
<1>5. TypeOK'
    BY <1>1, <1>2, <1>3 DEF TypeOK, CodeStates, OnThread, Ended, Sites
<1>6. GilWithRunningCode'
    BY <1>1, <1>2, <1>3, <1>4 DEF GilWithRunningCode, TypeOK
<1>7. Stages'
  <2>1. \A d \in Calls \ {c} : d # p =>
            pc'[d] = pc[d] /\ code'[d] = code[d] /\ parent'[d] = parent[d] /\ stream'[d] = stream[d]
    BY <1>1, <1>2 DEF TypeOK
  <2>2. p # None => pc'[p] = "waiting" /\ code'[p] = "python"
    BY <1>1, <1>2, <1>3 DEF TypeOK
  <2>3. /\ pc'[c] = how /\ parent'[c] = None /\ stream'[c] = None /\ c \notin async'
        /\ code'[c] = IF how = "raised" THEN "none" ELSE "done"
    BY <1>1, <1>2, <1>3 DEF TypeOK, Ended
  <2> QED
    BY <1>1, <1>2, <2>1, <2>2, <2>3 DEF Stages, Active, Ended
<1>8. Nesting'
  <2>1. \A d, e \in Calls : d < e /\ pc'[d] = "out" => pc'[e] = "out"
    BY <1>1, <1>2 DEF Nesting, TypeOK
  <2>2. \A d \in Calls : parent'[d] # None =>
            d # c /\ parent'[d] = parent[d] /\ parent[d] # p /\ parent[d] # c
    BY <1>1, <1>2, <1>3 DEF Nesting, TypeOK, Ended
  <2>3. \A d \in Calls : parent'[d] # None => parent'[d] < d /\ code'[parent'[d]] = "blocked"
    BY <1>1, <1>2, <2>2 DEF Nesting, TypeOK
  <2>4. \A d, e \in Calls : parent'[d] = parent'[e] /\ parent'[d] # None => d = e
    BY <1>1, <2>2 DEF Nesting
  <2>5. \A d \in async' : parent'[d] = None
    BY <1>1, <1>2 DEF Nesting, TypeOK
  <2> QED
    BY <2>1, <2>3, <2>4, <2>5 DEF Nesting
<1>9. Borrowing'
  <2>1. \A t \in Streams : lock[t] # c
    BY <1>1, <1>2 DEF Borrowing
  <2>2. \A t \in Streams : \A d \in Calls : borrow'[t] = d <=> stream'[d] = t /\ d \notin async'
    BY <1>1, <1>2 DEF Borrowing, TypeOK
  <2>3. \A t \in Streams : \A d \in Calls :
            lock'[t] = d => stream'[d] = t /\ pc'[d] = "waiting" /\ code'[d] # "lock"
    BY <1>1, <1>2, <2>1 DEF Borrowing, TypeOK
  <2>4. \A d \in Calls : code'[d] = "lock" => stream'[d] \in Streams
    BY <1>1, <1>2, <1>3 DEF Borrowing, TypeOK, Ended
  <2> QED
    BY <2>2, <2>3, <2>4 DEF Borrowing
<1> QED
    BY <1>5, <1>6, <1>7, <1>8, <1>9 DEF Inv

-----------------------------------------------------------------------------
(* The methods that wait: refused, or a call as above.                      *)
LEMMA MadeInv ==
    ASSUME Inv, NEW c \in Calls, NEW p \in Calls \cup {None},
           \A d \in Calls : d < c => pc[d] # "out",
           Plan(c, p) \/ Collect(c, p) \/ ExecuteStream(c, p)
    PROVE  Inv'
<1>1. pc[c] = "out" /\ Running(p)
    BY DEF Plan, Collect, ExecuteStream
<1>2. CASE Refused(c)
    BY <1>1, <1>2, RefusedInv
<1>3. CASE ~Refused(c)
  <2>1. UNCHANGED streamVars
        /\ \E s \in Sites, first \in {"attach", "task"} \cup Ended : Wait(c, p, s, first)
    BY <1>3 DEF Plan, Collect, ExecuteStream, Sites
  <2>2. PICK s \in Sites, first \in {"attach", "task"} \cup Ended : Wait(c, p, s, first)
    BY <2>1
  <2>3. first \in {"attach", "task", "lock"} \cup Ended /\ first # "lock"
    BY DEF Ended
  <2> QED
    BY <1>1, <2>1, <2>2, <2>3, CallInv
<1> QED
    BY <1>2, <1>3

LEMMA NextReadInv ==
    ASSUME Inv, NEW c \in Calls, NEW p \in Calls \cup {None}, NEW t \in Streams,
           \A d \in Calls : d < c => pc[d] # "out",
           Next_(c, p, t)
    PROVE  Inv'
<1>1. pc[c] = "out" /\ Running(p)
    BY DEF Next_
<1>2. CASE Refused(c)
    BY <1>1, <1>2, RefusedInv
<1>3. CASE ~Refused(c)
  <2>1. /\ borrow[t] = None
        /\ \E w \in Sites : Wait(c, p, w, "lock")
        /\ stream' = [stream EXCEPT ![c] = t]
        /\ borrow' = [borrow EXCEPT ![t] = c]
        /\ lock' = lock /\ async' = async
    BY <1>3 DEF Next_
  <2>2. PICK w \in Sites : Wait(c, p, w, "lock")
    BY <2>1
  <2> QED
    BY <1>1, <2>1, <2>2, CallInv
<1> QED
    BY <1>2, <1>3

(* close, and the end of its timeout, touch no call.                        *)
LEMMA CloseInv ==
    ASSUME Inv, Close \/ TimeOut
    PROVE  Inv'
<1> USE CallsAre DEF Inv, Close, TimeOut, streamVars
<1>1. TypeOK'
    BY DEF TypeOK
<1>2. GilWithRunningCode'
    BY DEF GilWithRunningCode
<1>3. Stages' /\ Nesting' /\ Borrowing'
    BY DEF Stages, Nesting, Borrowing
<1> QED
    BY <1>1, <1>2, <1>3 DEF Inv

LEMMA NextInv == Inv /\ [Next]_vars => Inv'
<1> SUFFICES ASSUME Inv, [Next]_vars PROVE Inv'
    OBVIOUS
<1>1. ASSUME NEW c \in Calls, Call(c) PROVE Inv'
  <2>1. PICK p \in Calls \cup {None} :
            \/ Plan(c, p) \/ Collect(c, p) \/ ExecuteStream(c, p)
            \/ \E s \in Streams : Next_(c, p, s) \/ Anext(c, p, s)
    BY <1>1 DEF Call
  <2>2. \A d \in Calls : d < c => pc[d] # "out"
    BY <1>1 DEF Call
  <2> QED
    BY <2>1, <2>2, MadeInv, NextReadInv, AnextInv
<1>2. ASSUME NEW c \in Calls, Step(c) PROVE Inv'
    BY <1>2, NextStreamInv, RunTaskInv, RunPullInv, HandOffInv, LeaveInv, CancelInv, ResolveInv
    DEF Step
<1>3. ASSUME NEW c \in Calls, Attach(c) \/ Return(c) PROVE Inv'
    BY <1>3, AttachInv, ReturnInv
<1>4. CASE Close \/ TimeOut
    BY <1>4, CloseInv
<1>5. CASE UNCHANGED vars
    BY <1>5 DEF vars, Inv, TypeOK, GilWithRunningCode, Stages, Nesting, Borrowing
<1> QED
    BY <1>1, <1>2, <1>3, <1>4, <1>5 DEF Next

LEMMA Invariance == Spec => []Inv
    BY InitInv, NextInv, PTL DEF Spec

-----------------------------------------------------------------------------
(* Types, and the threads that carry the code of a worker's task.           *)
THEOREM ReentryTypes == Spec => []TypeOK
<1>1. Inv => TypeOK
    BY DEF Inv
<1> QED
    BY <1>1, Invariance, PTL

(* wait_for_future never keeps the GIL: with any number of nested calls it  *)
(* is with code that runs, or with nobody, or with close.                   *)
THEOREM GilFree == Spec => []GilWithRunningCode
<1>1. Inv => GilWithRunningCode
    BY DEF Inv
<1> QED
    BY <1>1, Invariance, PTL

(* Calls that wait for one another for ever wait for the mutexes of         *)
(* __anext__ reads alone, to any depth of calls and for any number of       *)
(* streams.  A next that holds its mutex has the stream borrowed, so that   *)
(* whoever waits for the mutex is an __anext__, which blocks no code and    *)
(* holds nothing: no call waits for it, and it is in no circle.             *)
THEOREM LockUpsAsync == Spec => []OnlyAsyncReadsLockUp
<1>1. Inv => OnlyAsyncReadsLockUp
  <2> SUFFICES ASSUME Inv, NEW S \in SUBSET Waiting, Circle(S), NEW c \in S, code[c] = "lock",
                      lock[stream[c]] \notin async
               PROVE  FALSE
    BY DEF OnlyAsyncReadsLockUp
  <2>0. S \subseteq Calls
    BY DEF Waiting
  <2> DEFINE s == stream[c]
             h == lock[s]
  <2>1. h \in Calls /\ s \in Streams
    BY <2>0 DEF Circle, Awaits, Inv, Borrowing
  <2>2. borrow[s] = h /\ h # c
    BY <2>1 DEF Inv, Borrowing
  <2>3. c \in async /\ parent[c] = None
    BY <2>0, <2>1, <2>2 DEF Inv, Borrowing, Nesting
  <2>4. PICK e \in S : Awaits(e, c)
    BY DEF Circle
  <2>5. ~(code[e] = "lock" /\ lock[stream[e]] = c)
    BY <2>0 DEF Inv, Borrowing
  <2>6. parent[c] # e
    BY <2>0, <2>3, CallsAre
  <2> QED
    BY <2>4, <2>5, <2>6 DEF Awaits
<1> QED
    BY <1>1, Invariance, PTL
=============================================================================
