-------------------------- MODULE RegistrationProofs --------------------------
(***************************************************************************)
(* Theorems about Registration, for any number of threads, locations,      *)
(* calls and paths per call.  The properties speak of finished calls, and  *)
(* are kept by what holds of each task on the way: Effects ties a task's   *)
(* state to the session's registries, NeverFails says that no task of an   *)
(* assured call fails, LastExtender that a task fails for want of an       *)
(* extension only while another of its call has yet to install one.        *)
(***************************************************************************)
EXTENDS Registration, TLAPS

(* A task past its first step has its cloud's extension in the session, one *)
(* that is done has its store there, and a call goes on only after all.     *)
Effects ==
    \A c \in Callers :
        /\ began[c] \subseteq extensions
        /\ \A i \in CloudPaths(c) :
            task[c][i] # "start" => CloudOf(KindOf(c, i)) \in extensions
        /\ \A i \in Paths(c) : task[c][i] = "done" => request[c].paths[i] \in stores
        /\ pc[c] \in {"name", "ok"} => \A i \in Paths(c) : task[c][i] \in {"done", "failed"}

NeverFails ==
    \A c \in Callers : Assured(c) => \A i \in Paths(c) : task[c][i] # "failed"

(* The calls SomeStoreRegistered is about.                                  *)
Mixed(c) ==
    /\ request[c].refused = {}
    /\ request[c].ns \subseteq {CloudOf(KindOf(c, i)) : i \in CloudPaths(c)}

LastExtender ==
    \A c \in Callers :
        Mixed(c) /\ CloudPaths(c) # {} /\ (\A i \in CloudPaths(c) : task[c][i] # "start")
        => \E i \in CloudPaths(c) : task[c][i] # "failed"

Inv == TypeOK /\ Effects /\ NeverFails /\ LastExtender /\ AssuredTablesReadable

-----------------------------------------------------------------------------
(* A request's paths are locations, with a kind each.                       *)
LEMMA PathTypes ==
    ASSUME TypeOK, NEW c \in Callers, NEW i \in Paths(c)
    PROVE  /\ request[c] \in Requests
           /\ request[c].paths[i] \in Locations
           /\ KindOf(c, i) \in Kinds
<1>1. request[c] \in Requests
    BY DEF TypeOK, Paths, NoRequest
<1>2. request[c].paths \in Seq(Locations)
    BY <1>1, RequestsAssumption DEF Request
<1>3. request[c].paths[i] \in Locations
    BY <1>2 DEF Paths
<1> QED
    BY <1>1, <1>3, KindAssumption DEF KindOf

LEMMA CloudTypes == \A k \in Kinds : CloudOf(k) \in Clouds
BY DEF CloudOf, Clouds

LEMMA InitInv == Init => Inv
<1> SUFFICES ASSUME Init PROVE Inv
    OBVIOUS
<1>1. \A c \in Callers : Paths(c) = {} /\ CloudPaths(c) = {}
    <2>1. DOMAIN <<>> = {}
        OBVIOUS
    <2>2. \A c \in Callers : request[c].paths = <<>>
        BY DEF Init, NoRequest
    <2> QED
        BY <2>1, <2>2 DEF Paths, CloudPaths
<1>2. TypeOK
    <2>1. \A c \in Callers : task[c] \in [Paths(c) -> TaskStates]
        <3>1. <<>> \in [{} -> TaskStates]
            OBVIOUS
        <3> QED
            BY <1>1, <3>1 DEF Init
    <2> QED
        BY <2>1 DEF Init, TypeOK, Builtin
<1> QED
    BY <1>1, <1>2
    DEF Init, Inv, Effects, NeverFails, LastExtender, AssuredTablesReadable

(* What only depends on a call's request, task and the registries.          *)
LEMMA SameCall ==
    ASSUME NEW c \in Callers, request'[c] = request[c]
    PROVE  /\ Paths(c)' = Paths(c)
           /\ CloudPaths(c)' = CloudPaths(c)
           /\ \A i \in Paths(c) : KindOf(c, i)' = KindOf(c, i)
           /\ Mixed(c)' = Mixed(c)
           /\ began'[c] = began[c] => Assured(c)' = Assured(c)
BY DEF Paths, CloudPaths, KindOf, Mixed, Assured

(* One task moves: the others, and all of the calls' requests, stay.        *)
LEMMA MoveTask ==
    ASSUME TypeOK, NEW c \in Callers, NEW i \in Paths(c), NEW s \in TaskStates,
           Move(c, i, s), UNCHANGED request
    PROVE  /\ DOMAIN task' = Callers
           /\ \A d \in Callers : task'[d] \in [Paths(d)' -> TaskStates]
           /\ \A d \in Callers : \A j \in Paths(d) :
                task'[d][j] = IF d = c /\ j = i THEN s ELSE task[d][j]
<1> USE DEF TypeOK, Move
<1>1. \A d \in Callers : Paths(d)' = Paths(d)
    BY DEF Paths
<1>2. /\ DOMAIN task' = Callers
      /\ \A d \in Callers : d # c => task'[d] = task[d]
      /\ task'[c] = [task[c] EXCEPT ![i] = s]
    OBVIOUS
<1>3. \A d \in Callers : task'[d] \in [Paths(d) -> TaskStates]
    BY <1>2
<1>4. \A d \in Callers : \A j \in Paths(d) :
        task'[d][j] = IF d = c /\ j = i THEN s ELSE task[d][j]
    BY <1>2
<1> QED
    BY <1>1, <1>2, <1>3, <1>4

(* What a task's step must do to keep the invariant.                        *)
LEMMA TaskInv ==
    ASSUME Inv, NEW c \in Callers, NEW i \in Paths(c), NEW s \in TaskStates \ {"start"},
           Move(c, i, s), task[c][i] \notin {"done", "failed"},
           UNCHANGED <<tables, sure, pc, request, began>>,
           extensions \subseteq extensions', extensions' \subseteq Clouds,
           stores \subseteq stores', stores' \subseteq Locations,
           i \in CloudPaths(c) => CloudOf(KindOf(c, i)) \in extensions',
           s = "done" => request[c].paths[i] \in stores',
           Assured(c) => s # "failed",
           Mixed(c) /\ i \in CloudPaths(c) /\ s = "failed" =>
                \E j \in CloudPaths(c) : j # i /\ task[c][j] = "start"
    PROVE  Inv'
<1>1. \A d \in Callers : task'[d] \in [Paths(d)' -> TaskStates]
    BY MoveTask DEF Inv
<1>2. DOMAIN task' = Callers
    BY MoveTask DEF Inv
<1>3. \A d \in Callers : \A j \in Paths(d) :
        task'[d][j] = IF d = c /\ j = i THEN s ELSE task[d][j]
    BY MoveTask DEF Inv
<1>4. \A d \in Callers :
        /\ Paths(d)' = Paths(d)
        /\ CloudPaths(d)' = CloudPaths(d)
        /\ \A j \in Paths(d) : KindOf(d, j)' = KindOf(d, j)
        /\ Mixed(d)' = Mixed(d)
        /\ Assured(d)' = Assured(d)
    BY SameCall
<1>5. \A d \in Callers : CloudPaths(d) \subseteq Paths(d)
    BY DEF CloudPaths
<1>6. TypeOK'
    BY <1>1, <1>2 DEF Inv, TypeOK
<1>7. Effects'
    <2> SUFFICES ASSUME NEW d \in Callers
                 PROVE  /\ began'[d] \subseteq extensions'
                        /\ \A j \in CloudPaths(d) :
                            task'[d][j] # "start" => CloudOf(KindOf(d, j)) \in extensions'
                        /\ \A j \in Paths(d) :
                            task'[d][j] = "done" => request'[d].paths[j] \in stores'
                        /\ pc'[d] \in {"name", "ok"} =>
                            \A j \in Paths(d) : task'[d][j] \in {"done", "failed"}
        BY <1>4, <1>5 DEF Effects
    <2>1. began'[d] \subseteq extensions'
        BY DEF Inv, Effects
    <2>2. ASSUME NEW j \in CloudPaths(d), task'[d][j] # "start"
          PROVE  CloudOf(KindOf(d, j)) \in extensions'
        <3>1. CASE d = c /\ j = i
            BY <2>2, <3>1
        <3>2. CASE ~(d = c /\ j = i)
            BY <1>3, <1>5, <2>2, <3>2 DEF Inv, Effects
        <3> QED
            BY <3>1, <3>2
    <2>3. \A j \in Paths(d) : task'[d][j] = "done" => request'[d].paths[j] \in stores'
        BY <1>3 DEF Inv, Effects
    <2>4. pc'[d] \in {"name", "ok"} =>
            \A j \in Paths(d) : task'[d][j] \in {"done", "failed"}
        BY <1>3 DEF Inv, Effects
    <2> QED
        BY <2>1, <2>2, <2>3, <2>4
<1>8. NeverFails'
    BY <1>3, <1>4 DEF Inv, NeverFails
<1>9. LastExtender'
    <2> SUFFICES ASSUME NEW d \in Callers, Mixed(d), CloudPaths(d) # {},
                        \A j \in CloudPaths(d) : task'[d][j] # "start"
                 PROVE  \E j \in CloudPaths(d) : task'[d][j] # "failed"
        BY <1>4 DEF LastExtender
    <2>1. CASE d = c /\ i \in CloudPaths(c)
        BY <1>3, <1>5, <2>1
    <2>2. CASE ~(d = c /\ i \in CloudPaths(c))
        <3>1. \A j \in CloudPaths(d) : task'[d][j] = task[d][j]
            BY <1>3, <1>5, <2>2
        <3> QED
            BY <3>1 DEF Inv, LastExtender
    <2> QED
        BY <2>1, <2>2
<1>10. AssuredTablesReadable'
    BY DEF Inv, AssuredTablesReadable
<1> QED
    BY <1>6, <1>7, <1>8, <1>9, <1>10 DEF Inv

(* The first step of a task: its extension joins the session's.             *)
LEMMA ExtendInv ==
    ASSUME Inv, NEW c \in Callers, NEW i \in Paths(c), Extend(c, i) PROVE Inv'
<1>1. TypeOK /\ KindOf(c, i) \in Kinds
    BY PathTypes DEF Inv
<1>2. CASE KindOf(c, i) = "bad"
    <2>1. i \notin CloudPaths(c) /\ ~Assured(c)
        BY <1>2 DEF CloudPaths, CloudKinds, Assured
    <2> QED
        BY <1>1, <1>2, <2>1, TaskInv DEF Extend, TaskStates, TypeOK
<1>3. CASE KindOf(c, i) # "bad"
    <2>1. extensions \subseteq extensions' /\ extensions' \subseteq Clouds
        BY <1>1, <1>3, CloudTypes DEF Extend, TypeOK
    <2>2. i \in CloudPaths(c) => CloudOf(KindOf(c, i)) \in extensions'
        BY <1>3 DEF Extend
    <2> QED
        BY <1>1, <1>3, <2>1, <2>2, TaskInv DEF Extend, TaskStates, TypeOK
<1> QED
    BY <1>2, <1>3

(* Altering the options: in an assured call the namespaces are there.  In a *)
(* call across clouds one that is missing is that of a task yet to start.   *)
LEMMA AlterInv ==
    ASSUME Inv, NEW c \in Callers, NEW i \in Paths(c), Alter(c, i) PROVE Inv'
<1> DEFINE fails == i \in CloudPaths(c) /\ ~(request[c].ns \subseteq extensions)
           s == IF fails THEN "failed" ELSE "altered"
<1>1. TypeOK /\ task[c][i] = "extended" /\ Move(c, i, s) /\ s \in TaskStates \ {"start"}
    BY DEF Alter, TaskStates, Inv
<1>2. i \in CloudPaths(c) => CloudOf(KindOf(c, i)) \in extensions
    BY <1>1 DEF Inv, Effects
<1>3. Assured(c) => ~fails
    <2> SUFFICES ASSUME Assured(c), i \in CloudPaths(c), NEW n \in request[c].ns
                 PROVE  n \in extensions
        OBVIOUS
    <2>1. n \in began[c] \/ CloudOf(KindOf(c, i)) = n
        BY DEF Assured
    <2> QED
        BY <1>2, <2>1 DEF Inv, Effects
<1>4. ASSUME Mixed(c), fails
      PROVE  \E j \in CloudPaths(c) : j # i /\ task[c][j] = "start"
    <2>1. PICK n \in request[c].ns : n \notin extensions
        BY <1>4
    <2>2. PICK j \in CloudPaths(c) : CloudOf(KindOf(c, j)) = n
        BY <1>4, <2>1 DEF Mixed
    <2>3. task[c][j] = "start"
        BY <2>1, <2>2 DEF Inv, Effects
    <2> QED
        BY <1>1, <2>3
<1>5. s = "failed" <=> fails
    OBVIOUS
<1>6. s # "done"
    OBVIOUS
<1>7. UNCHANGED <<extensions, stores, tables, sure, pc, request, began>>
    BY DEF Alter
<1> HIDE DEF s, fails
<1> QED
    BY <1>1, <1>2, <1>3, <1>4, <1>5, <1>6, <1>7, TaskInv DEF TypeOK

(* Building and registering the store.                                      *)
LEMMA StoreInv ==
    ASSUME Inv, NEW c \in Callers, NEW i \in Paths(c), Store(c, i) PROVE Inv'
<1> DEFINE fails == BuilderRefuses(c, i) \/ KindOf(c, i) = "other"
           s == IF fails THEN "failed" ELSE "done"
<1>1. TypeOK /\ task[c][i] = "altered" /\ Move(c, i, s) /\ s \in TaskStates \ {"start"}
    BY DEF Store, TaskStates, Inv
<1>2. request[c].paths[i] \in Locations
    BY <1>1, PathTypes
<1>3. stores \subseteq stores' /\ stores' \subseteq Locations
    BY <1>1, <1>2 DEF Store, TypeOK
<1>4. i \in CloudPaths(c) => CloudOf(KindOf(c, i)) \in extensions
    BY <1>1 DEF Inv, Effects
<1>5. Assured(c) => ~fails
    BY DEF Assured, BuilderRefuses
<1>6. Mixed(c) /\ i \in CloudPaths(c) => ~fails
    BY DEF Mixed, CloudPaths, CloudKinds, BuilderRefuses
<1>7. s = "failed" <=> fails
    OBVIOUS
<1>8. s = "done" => request[c].paths[i] \in stores'
    BY DEF Store
<1>9. UNCHANGED <<extensions, tables, sure, pc, request, began>>
    BY DEF Store
<1> HIDE DEF s, fails
<1> QED
    BY <1>1, <1>3, <1>4, <1>5, <1>6, <1>7, <1>8, <1>9, TaskInv DEF TypeOK

(* A step that leaves all calls as they are, and takes nothing away.        *)
LEMMA CallsStay ==
    ASSUME Inv, UNCHANGED <<request, began, task>>,
           pc' \in [Callers -> {"idle", "tasks", "name", "ok", "err"}],
           \A d \in Callers : pc'[d] \in {"tasks", "name", "ok"} => request[d] \in Requests,
           \A d \in Callers : pc'[d] \in {"name", "ok"} =>
                \A j \in Paths(d) : task[d][j] \in {"done", "failed"},
           extensions \subseteq extensions', extensions' \subseteq Clouds,
           UNCHANGED stores,
           tables' \in [Names -> SUBSET Locations], sure' \subseteq Names,
           \A n \in sure' : tables'[n] \subseteq stores
    PROVE  Inv'
<1>1. \A d \in Callers :
        /\ Paths(d)' = Paths(d)
        /\ CloudPaths(d)' = CloudPaths(d)
        /\ \A j \in Paths(d) : KindOf(d, j)' = KindOf(d, j)
        /\ Mixed(d)' = Mixed(d)
        /\ Assured(d)' = Assured(d)
    BY SameCall
<1>2. \A d \in Callers : CloudPaths(d) \subseteq Paths(d)
    BY DEF CloudPaths
<1>3. TypeOK'
    BY <1>1 DEF Inv, TypeOK
<1>4. Effects'
    BY <1>1, <1>2 DEF Inv, Effects
<1>5. NeverFails' /\ LastExtender' /\ AssuredTablesReadable'
    BY <1>1 DEF Inv, NeverFails, LastExtender, AssuredTablesReadable
<1> QED
    BY <1>3, <1>4, <1>5 DEF Inv

(* One caller's call is replaced by one none of whose tasks has moved: at a *)
(* call's start and, with no tasks at all, at its return.                   *)
LEMMA CallInv ==
    ASSUME Inv, NEW c \in Callers, NEW r \in Requests \cup {NoRequest},
           NEW e \in SUBSET extensions, NEW q \in {"idle", "tasks"},
           q = "tasks" => r \in Requests,
           request' = [request EXCEPT ![c] = r],
           task' = [task EXCEPT ![c] = [i \in DOMAIN r.paths |-> "start"]],
           began' = [began EXCEPT ![c] = e],
           pc' = [pc EXCEPT ![c] = q],
           UNCHANGED <<extensions, stores, tables, sure>>
    PROVE  Inv'
<1> USE DEF Inv, TypeOK
<1>1. \A d \in Callers \ {c} :
        /\ request'[d] = request[d] /\ task'[d] = task[d]
        /\ began'[d] = began[d] /\ pc'[d] = pc[d]
    OBVIOUS
<1>2. \A d \in Callers \ {c} :
        /\ Paths(d)' = Paths(d)
        /\ CloudPaths(d)' = CloudPaths(d)
        /\ \A j \in Paths(d) : KindOf(d, j)' = KindOf(d, j)
        /\ Mixed(d)' = Mixed(d)
        /\ Assured(d)' = Assured(d)
    BY <1>1, SameCall
<1>3. \A d \in Callers : CloudPaths(d) \subseteq Paths(d) /\ CloudPaths(d)' \subseteq Paths(d)'
    BY DEF CloudPaths
<1>4. request'[c] = r /\ began'[c] = e /\ pc'[c] = q
    OBVIOUS
<1>5. Paths(c)' = DOMAIN r.paths
    BY <1>4 DEF Paths
<1>6. task'[c] = [i \in Paths(c)' |-> "start"]
    BY <1>5
<1>7. \A i \in Paths(c)' : task'[c][i] = "start"
    BY <1>6
<1>8. TypeOK'
    <2>1. task'[c] \in [Paths(c)' -> TaskStates]
        BY <1>6 DEF TaskStates
    <2>2. \A d \in Callers : task'[d] \in [Paths(d)' -> TaskStates]
        BY <1>1, <1>2, <2>1
    <2> QED
        BY <1>1, <1>4, <2>2
<1>9. Effects'
    <2>1. \A d \in Callers \ {c} :
            /\ began'[d] \subseteq extensions'
            /\ \A j \in CloudPaths(d)' :
                task'[d][j] # "start" => CloudOf(KindOf(d, j)') \in extensions'
            /\ \A j \in Paths(d)' : task'[d][j] = "done" => request'[d].paths[j] \in stores'
            /\ pc'[d] \in {"name", "ok"} =>
                \A j \in Paths(d)' : task'[d][j] \in {"done", "failed"}
        BY <1>1, <1>2, <1>3 DEF Effects
    <2>2. CloudPaths(c)' \subseteq Paths(c)' /\ e \subseteq extensions'
        BY <1>3
    <2> QED
        BY <1>4, <1>7, <2>1, <2>2 DEF Effects
<1>10. NeverFails'
    BY <1>1, <1>2, <1>7 DEF NeverFails
<1>11. LastExtender'
    <2>1. CloudPaths(c)' # {} => ~(\A i \in CloudPaths(c)' : task'[c][i] # "start")
        BY <1>3, <1>7
    <2> QED
        BY <1>1, <1>2, <2>1 DEF LastExtender
<1>12. AssuredTablesReadable'
    BY DEF AssuredTablesReadable
<1> QED
    BY <1>8, <1>9, <1>10, <1>11, <1>12

(* The table a call registers: with all tasks of an assured call done, its  *)
(* locations have their stores.                                             *)
LEMMA RegisterTableInv ==
    ASSUME Inv, NEW c \in Callers, RegisterTable(c) PROVE Inv'
<1> DEFINE n == request[c].name
<1>1. request[c] \in Requests /\ n \in Names
    BY RequestsAssumption DEF RegisterTable, Inv, TypeOK, Request
<1>2. Used(c) \subseteq Locations
    BY PathTypes DEF Used, Inv
<1>3. \A i \in Paths(c) : task[c][i] \in {"done", "failed"}
    BY DEF RegisterTable, Inv, Effects
<1>4. Assured(c) => Used(c) \subseteq stores
    BY <1>3 DEF Inv, NeverFails, Effects, Used
<1>5. CASE tables[n] = {}
    <2>1. /\ tables' = [tables EXCEPT ![n] = Used(c)]
          /\ sure' = IF Assured(c) THEN sure \cup {n} ELSE sure \ {n}
          /\ pc' = [pc EXCEPT ![c] = "ok"]
          /\ UNCHANGED <<extensions, stores, request, began, task>>
        BY <1>5 DEF RegisterTable
    <2>2. tables' \in [Names -> SUBSET Locations] /\ sure' \subseteq Names
        BY <1>1, <1>2, <2>1 DEF Inv, TypeOK
    <2>3. \A m \in sure' : tables'[m] \subseteq stores
        BY <1>1, <1>4, <2>1 DEF Inv, TypeOK, AssuredTablesReadable
    <2>4. pc' \in [Callers -> {"idle", "tasks", "name", "ok", "err"}]
        BY <2>1 DEF Inv, TypeOK
    <2>5. \A d \in Callers : pc'[d] \in {"tasks", "name", "ok"} => request[d] \in Requests
        BY <1>1, <2>1 DEF Inv, TypeOK
    <2>6. \A d \in Callers : pc'[d] \in {"name", "ok"} =>
            \A j \in Paths(d) : task[d][j] \in {"done", "failed"}
        BY <1>3, <2>1 DEF Inv, TypeOK, Effects
    <2> QED
        BY <2>1, <2>2, <2>3, <2>4, <2>5, <2>6, CallsStay DEF Inv, TypeOK
<1>6. CASE tables[n] # {}
    <2>1. /\ pc' = [pc EXCEPT ![c] = "err"]
          /\ UNCHANGED <<extensions, stores, tables, sure, request, began, task>>
        BY <1>6 DEF RegisterTable
    <2> QED
        BY <2>1, CallsStay DEF Inv, TypeOK, Effects, AssuredTablesReadable
<1> QED
    BY <1>5, <1>6

(* Every step keeps the invariant.                                          *)
LEMMA NextInv == Inv /\ [Next]_vars => Inv'
<1> SUFFICES ASSUME Inv, [Next]_vars PROVE Inv'
    OBVIOUS
<1>1. ASSUME NEW c \in Callers, Call(c) PROVE Inv'
    <2>1. PICK r \in Requests :
            /\ request' = [request EXCEPT ![c] = r]
            /\ task' = [task EXCEPT ![c] = [i \in DOMAIN r.paths |-> "start"]]
        BY <1>1 DEF Call
    <2> QED
        BY <1>1, <2>1, CallInv DEF Call
<1>2. ASSUME NEW c \in Callers, Return(c) PROVE Inv'
    <2>1. [i \in DOMAIN NoRequest.paths |-> "start"] = <<>>
        BY DEF NoRequest
    <2>2. task' = [task EXCEPT ![c] = [i \in DOMAIN NoRequest.paths |-> "start"]]
        BY <1>2, <2>1 DEF Return
    <2> QED
        BY <1>2, <2>2, CallInv DEF Return
<1>3. ASSUME NEW c \in Callers, Malformed(c) PROVE Inv'
    BY <1>3, CallsStay DEF Malformed, Inv, TypeOK, Effects, AssuredTablesReadable
<1>4. ASSUME NEW c \in Callers, Resolve(c) PROVE Inv'
    <2>1. /\ UNCHANGED <<extensions, stores, tables, sure, request, began, task>>
          /\ pc[c] = "tasks" /\ \A i \in Paths(c) : task[c][i] \in {"done", "failed"}
          /\ pc' = [pc EXCEPT ![c] = "name"] \/ pc' = [pc EXCEPT ![c] = "err"]
        BY <1>4 DEF Resolve, Joined
    <2> QED
        BY <2>1, CallsStay DEF Inv, TypeOK, Effects, AssuredTablesReadable
<1>5. ASSUME NEW l \in Locations, Metadata(l) PROVE Inv'
    <2>1. CloudOf(Kind[l]) \in Clouds
        BY KindAssumption, CloudTypes
    <2> QED
        BY <1>5, <2>1, CallsStay DEF Metadata, Inv, TypeOK, Effects, AssuredTablesReadable
<1>6. ASSUME NEW n \in Names, DeregisterTable(n) PROVE Inv'
    BY <1>6, CallsStay DEF DeregisterTable, Inv, TypeOK, Effects, AssuredTablesReadable
<1>7. CASE UNCHANGED vars
    BY <1>7, CallsStay DEF vars, Inv, TypeOK, Effects, AssuredTablesReadable
<1> QED
    BY <1>1, <1>2, <1>3, <1>4, <1>5, <1>6, <1>7,
       ExtendInv, AlterInv, StoreInv, RegisterTableInv
    DEF Next, Progress, Task

THEOREM Invariance == Spec => []Inv
BY InitInv, NextInv, PTL DEF Spec

(* Types of the session's stores and tables and of every call under way.    *)
THEOREM RegistrationTypes == Spec => []TypeOK
<1>1. Inv => TypeOK
    BY DEF Inv
<1> QED
    BY <1>1, Invariance, PTL

(* A table that register_parquet or register_csv reports as registered has  *)
(* all its object stores, whatever the other tasks and threads did, if the  *)
(* call was assured: though task errors are discarded, none occurred.       *)
THEOREM TablesReadable == Spec => []AssuredTablesReadable
<1>1. Inv => AssuredTablesReadable
    BY DEF Inv
<1> QED
    BY <1>1, Invariance, PTL

(* The race of the tasks of one call across clouds never costs all of the   *)
(* call's cloud stores: the last to install its extension sees all of them. *)
THEOREM RaceLeavesOneStore == Spec => []SomeStoreRegistered
<1>1. Inv => SomeStoreRegistered
    <2> SUFFICES ASSUME Inv, NEW c \in Callers, Joined(c), CloudPaths(c) # {},
                        request[c].refused = {},
                        request[c].ns \subseteq {CloudOf(KindOf(c, i)) : i \in CloudPaths(c)}
                 PROVE  \E i \in CloudPaths(c) : request[c].paths[i] \in stores
        BY DEF SomeStoreRegistered
    <2>1. CloudPaths(c) \subseteq Paths(c)
        BY DEF CloudPaths
    <2>2. \A i \in CloudPaths(c) : task[c][i] \in {"done", "failed"}
        BY <2>1 DEF Joined
    <2>3. PICK i \in CloudPaths(c) : task[c][i] # "failed"
        BY <2>2 DEF Inv, LastExtender, Mixed
    <2>4. task[c][i] = "done"
        BY <2>2, <2>3
    <2> QED
        BY <2>1, <2>4 DEF Inv, Effects
<1> QED
    BY <1>1, Invariance, PTL
=============================================================================
