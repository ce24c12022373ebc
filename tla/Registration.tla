----------------------------- MODULE Registration -----------------------------
(***************************************************************************)
(* Registering file tables: register_parquet and register_csv spawn one    *)
(* task per path, which installs the options extension of the path's cloud *)
(* in the session, alters a copy of the session's table options with the   *)
(* storage options of the call, builds an object store from them and       *)
(* registers it.  The results of the tasks are discarded; the call then    *)
(* resolves a schema from its first path and registers the table.  Calls   *)
(* of several Python threads on one session overlap.                       *)
(*                                                                         *)
(* A location stands for all the paths with one object store (scheme and   *)
(* bucket), storage options for the namespaces of their keys and the kinds *)
(* of store whose builder refuses them.                                    *)
(***************************************************************************)
EXTENDS Naturals, Sequences

CONSTANTS
    Callers,        \* Python threads
    Locations,
    Kind,           \* Kind[l]: what the scheme of l means to the code
    Names,          \* of tables
    Requests        \* the calls a thread may make

Clouds == {"aws", "gcp"}
CloudKinds == {"s3", "oss", "gcs"}
Kinds == CloudKinds \cup {"http", "file", "other", "bad"}
CloudOf(k) == IF k = "gcs" THEN "gcp" ELSE "aws"

(* paths; namespaces of the storage options ("odd" is one no extension      *)
(* has); kinds whose builder refuses the options; is the schema given; do   *)
(* the paths have the file extension; the table.                            *)
Request == [paths : Seq(Locations), ns : SUBSET (Clouds \cup {"odd"}),
            refused : SUBSET CloudKinds, schema : BOOLEAN, fits : BOOLEAN, name : Names]

ASSUME KindAssumption == Kind \in [Locations -> Kinds]
ASSUME RequestsAssumption == Requests \subseteq Request

TaskStates == {"start", "extended", "altered", "done", "failed"}

VARIABLES
    extensions,     \* clouds with an options extension in the session
    stores,         \* locations in the object store registry
    tables,         \* per name: the locations of the table; {} is no table
    sure,           \* names whose table came from an assured call
    pc,             \* per caller: "idle", "tasks", "name", "ok", "err"
    request,        \* per caller: its call
    began,          \* per caller: extensions when its call began
    task            \* per caller and path: how far its task is

vars == <<extensions, stores, tables, sure, pc, request, began, task>>

-----------------------------------------------------------------------------
Paths(c) == DOMAIN request[c].paths
KindOf(c, i) == Kind[request[c].paths[i]]
CloudPaths(c) == {i \in Paths(c) : KindOf(c, i) \in CloudKinds}
Used(c) == {request[c].paths[i] : i \in Paths(c)}

(* A builtin store: the registry has one for local files.                   *)
Builtin == {l \in Locations : Kind[l] = "file"}

NoRequest == [paths |-> <<>>, ns |-> {}, refused |-> {}, schema |-> FALSE, fits |-> FALSE]

Init ==
    /\ extensions = {}
    /\ stores = Builtin
    /\ tables = [n \in Names |-> {}]
    /\ sure = {}
    /\ pc = [c \in Callers |-> "idle"]
    /\ request = [c \in Callers |-> NoRequest]
    /\ began = [c \in Callers |-> {}]
    /\ task = [c \in Callers |-> <<>>]

(* register_parquet, register_csv: the call and the spawning of its tasks.  *)
Call(c) ==
    /\ pc[c] = "idle"
    /\ \E r \in Requests :
        /\ request' = [request EXCEPT ![c] = r]
        /\ task' = [task EXCEPT ![c] = [i \in DOMAIN r.paths |-> "start"]]
    /\ began' = [began EXCEPT ![c] = extensions]
    /\ pc' = [pc EXCEPT ![c] = "tasks"]
    /\ UNCHANGED <<extensions, stores, tables, sure>>

(* A delimiter, compression or partition type that is refused at once.      *)
Malformed(c) ==
    /\ pc[c] = "idle"
    /\ pc' = [pc EXCEPT ![c] = "err"]
    /\ UNCHANGED <<extensions, stores, tables, sure, request, began, task>>

Move(c, i, s) == task' = [task EXCEPT ![c][i] = s]

(* ListingTableUrl::parse, and the extension of the path's cloud: inserted  *)
(* beside the session's others.  Faulty variant: it takes their place.      *)
ExtendReplaces(c, i) ==
    /\ task[c][i] = "start"
    /\ IF KindOf(c, i) = "bad"
       THEN Move(c, i, "failed") /\ UNCHANGED extensions
       ELSE /\ Move(c, i, "extended")
            /\ extensions' = IF i \in CloudPaths(c) THEN {CloudOf(KindOf(c, i))}
                                                    ELSE extensions
    /\ UNCHANGED <<stores, tables, sure, pc, request, began>>

Extend(c, i) ==
    /\ task[c][i] = "start"
    /\ IF KindOf(c, i) = "bad"
       THEN Move(c, i, "failed") /\ UNCHANGED extensions
       ELSE /\ Move(c, i, "extended")
            /\ extensions' = extensions \cup
                    (IF i \in CloudPaths(c) THEN {CloudOf(KindOf(c, i))} ELSE {})
    /\ UNCHANGED <<stores, tables, sure, pc, request, began>>

(* alter_with_string_hash_map on a copy of the session's table options, for *)
(* cloud paths: fails on a namespace without an extension.  Faulty          *)
(* variant: the copy dates from before the call.                            *)
AlterStale(c, i) ==
    /\ task[c][i] = "extended"
    /\ Move(c, i, IF /\ i \in CloudPaths(c)
                     /\ ~(request[c].ns \subseteq began[c] \cup {CloudOf(KindOf(c, i))})
                  THEN "failed" ELSE "altered")
    /\ UNCHANGED <<extensions, stores, tables, sure, pc, request, began>>

Alter(c, i) ==
    /\ task[c][i] = "extended"
    /\ Move(c, i, IF i \in CloudPaths(c) /\ ~(request[c].ns \subseteq extensions)
                  THEN "failed" ELSE "altered")
    /\ UNCHANGED <<extensions, stores, tables, sure, pc, request, began>>

(* The builder of a kind of store refuses the options: for s3, a plain http *)
(* endpoint without allow_http or an environment without credentials; for   *)
(* any, options from which no client can be built.                          *)
BuilderRefuses(c, i) == KindOf(c, i) \in request[c].refused

(* get_object_store, where an unknown scheme has no store, and              *)
(* register_object_store.                                                   *)
Store(c, i) ==
    /\ task[c][i] = "altered"
    /\ IF BuilderRefuses(c, i) \/ KindOf(c, i) = "other"
       THEN Move(c, i, "failed") /\ UNCHANGED stores
       ELSE Move(c, i, "done") /\ stores' = stores \cup {request[c].paths[i]}
    /\ UNCHANGED <<extensions, tables, sure, pc, request, began>>

Joined(c) == pc[c] = "tasks" /\ \A i \in Paths(c) : task[c][i] \in {"done", "failed"}

(* _register_types up to the schema: it needs the store of the first path   *)
(* unless the schema is given, and what the store answers may be an error.  *)
Resolvable(c) ==
    /\ Paths(c) # {}
    /\ \A i \in Paths(c) : KindOf(c, i) # "bad"
    /\ request[c].fits
    /\ request[c].schema \/ request[c].paths[1] \in stores

Resolve(c) ==
    /\ Joined(c)
    /\ \/ Resolvable(c) /\ pc' = [pc EXCEPT ![c] = "name"]
       \/ ~(Resolvable(c) /\ request[c].schema) /\ pc' = [pc EXCEPT ![c] = "err"]
    /\ UNCHANGED <<extensions, stores, tables, sure, request, began, task>>

(* Its options name no namespace but those the session had when it began    *)
(* and the one cloud of its paths, and its stores can be built.             *)
Assured(c) ==
    /\ CloudPaths(c) # {} =>
        request[c].ns \subseteq
            began[c] \cup {n \in Clouds :
                            \A i \in CloudPaths(c) : CloudOf(KindOf(c, i)) = n}
    /\ \A i \in Paths(c) : KindOf(c, i) \notin request[c].refused \cup {"other", "bad"}

(* SessionContext::register_table refuses a name that is taken.             *)
RegisterTable(c) ==
    /\ pc[c] = "name"
    /\ LET n == request[c].name
       IN  IF tables[n] = {}
           THEN /\ tables' = [tables EXCEPT ![n] = Used(c)]
                /\ sure' = IF Assured(c) THEN sure \cup {n} ELSE sure \ {n}
                /\ pc' = [pc EXCEPT ![c] = "ok"]
           ELSE /\ pc' = [pc EXCEPT ![c] = "err"]
                /\ UNCHANGED <<tables, sure>>
    /\ UNCHANGED <<extensions, stores, request, began, task>>

(* The call returns, and the JoinSet of its tasks ends with it.            *)
Return(c) ==
    /\ pc[c] \in {"ok", "err"}
    /\ pc' = [pc EXCEPT ![c] = "idle"]
    /\ request' = [request EXCEPT ![c] = NoRequest]
    /\ began' = [began EXCEPT ![c] = {}]
    /\ task' = [task EXCEPT ![c] = <<>>]
    /\ UNCHANGED <<extensions, stores, tables, sure>>

(* get_object_metadata: its store is built and used, not registered.        *)
Metadata(l) ==
    /\ Kind[l] \in CloudKinds
    /\ extensions' = extensions \cup {CloudOf(Kind[l])}
    /\ UNCHANGED <<stores, tables, sure, pc, request, began, task>>

DeregisterTable(n) ==
    /\ tables' = [tables EXCEPT ![n] = {}]
    /\ sure' = sure \ {n}
    /\ UNCHANGED <<extensions, stores, pc, request, began, task>>

Task(c) == \E i \in Paths(c) : Extend(c, i) \/ Alter(c, i) \/ Store(c, i)
Progress(c) == Task(c) \/ Resolve(c) \/ RegisterTable(c) \/ Return(c)

Next ==
    \/ \E c \in Callers : Call(c) \/ Malformed(c) \/ Progress(c)
    \/ \E l \in Locations : Metadata(l)
    \/ \E n \in Names : DeregisterTable(n)

Spec == Init /\ [][Next]_vars

-----------------------------------------------------------------------------
(* Types of the session's registries and of the calls.  A call's tasks are  *)
(* those of its paths.                                                      *)
TypeOK ==
    /\ extensions \subseteq Clouds
    /\ stores \subseteq Locations
    /\ tables \in [Names -> SUBSET Locations]
    /\ sure \subseteq Names
    /\ pc \in [Callers -> {"idle", "tasks", "name", "ok", "err"}]
    /\ request \in [Callers -> Requests \cup {NoRequest}]
    /\ began \in [Callers -> SUBSET Clouds]
    /\ DOMAIN task = Callers
    /\ \A c \in Callers :
        /\ task[c] \in [Paths(c) -> TaskStates]
        /\ pc[c] \in {"tasks", "name", "ok"} => request[c] \in Requests

(* However the tasks of all calls interleave, a table from an assured call  *)
(* has the stores of all its paths, although failures of the tasks are      *)
(* discarded: it can be read.  In particular a call across clouds is        *)
(* assured when its extensions were there before, so a retry repairs it.    *)
AssuredTablesReadable == \A n \in sure : tables[n] \subseteq stores

(* A call across clouds whose options name both clouds may lose a store to  *)
(* the order of its tasks, but not all of them: once its tasks have ended,  *)
(* one of its cloud paths has its store.                                    *)
SomeStoreRegistered ==
    \A c \in Callers :
        (/\ Joined(c) /\ CloudPaths(c) # {}
         /\ request[c].refused = {}
         /\ request[c].ns \subseteq {CloudOf(KindOf(c, i)) : i \in CloudPaths(c)})
        => \E i \in CloudPaths(c) : request[c].paths[i] \in stores
=============================================================================
