------------------------------ MODULE HostedFfi ------------------------------
(***************************************************************************)
(* Table providers imported over the FFI protocol, and who keeps their     *)
(* codec usable.  The codec of an imported table refers weakly to a task   *)
(* context provider, which the foreign library upgrades whenever it        *)
(* decodes a filter.  A HostedFfiTableProvider owns the provider its codec *)
(* uses outside a planning session (HostTaskContext), and scan and         *)
(* insert_into rebind the codec to one they own themselves.                *)
(*                                                                         *)
(* A registry of functions is abstracted to its version: registering a     *)
(* function makes the next one, and a filter that uses function v decodes  *)
(* under every registry from v on.                                         *)
(***************************************************************************)
EXTENDS Naturals

CONSTANTS
    Frames,         \* DataFrames over the table; each is planned by one thread
    MaxVersion      \* bound: registrations of functions

ASSUME MaxVersionAssumption == MaxVersion \in Nat

VARIABLES
    strong,     \* strong references between objects: pairs <<owner, object>>
    version,    \* version of the session's registry
    table,      \* the imported table: "none", "registered" or "deregistered"
    imported,   \* version of the registry when the table was imported
    fallback,   \* HostTaskContext::fallback
    call,       \* per frame: "idle", "planning", "checking", "scanning"
    known,      \* per frame: the registry of its own session state
    seen,       \* per frame: the registry read by a pushdown check under way
    served,     \* per frame: registry its last completed decode was given
    lost        \* a decode found its task context provider out of scope

vars == <<strong, version, table, imported, fallback, call, known, seen, served, lost>>
registry == <<version, table, imported, fallback>>

-----------------------------------------------------------------------------
(* The objects: the SessionContext, the catalog list its state shares with  *)
(* the states of its frames, the HostedFfiTableProvider, its               *)
(* HostTaskContext, the frames and the SessionTaskContext of a scan.  Python *)
(* and the native calls under way own objects and are owned by none.        *)
Python == <<"python", "">>
Session == <<"session", "">>
Catalog == <<"catalog", "">>
Table == <<"table", "">>
Host == <<"host", "">>
Frame(f) == <<"frame", f>>
Call(f) == <<"call", f>>
ScanContext(f) == <<"scan", f>>

(* An Arc keeps its object while some owner has not dropped its own; this   *)
(* is also when a Weak can be upgraded.                                     *)
Alive(o) == \E e \in strong : e[2] = o
Owns(o, p) == <<o, p>> \in strong
References(o) == {e \in strong : e[1] = o}

(* PySessionContext::new.                                                   *)
Init ==
    /\ strong = {<<Python, Session>>, <<Session, Catalog>>}
    /\ version = 0
    /\ table = "none"
    /\ imported = 0
    /\ fallback = 0
    /\ call = [f \in Frames |-> "idle"]
    /\ known = [f \in Frames |-> 0]
    /\ seen = [f \in Frames |-> 0]
    /\ served = [f \in Frames |-> 0]
    /\ lost = FALSE

(* The last strong reference to an object is gone: it drops its own.  Other *)
(* threads may run before it does.                                          *)
Destroy(o) ==
    /\ ~Alive(o)
    /\ References(o) # {}
    /\ strong' = strong \ References(o)
    /\ UNCHANGED <<registry, call, known, seen, served, lost>>

(* register_udf, register_udaf and register_udwf.                           *)
RegisterFunction ==
    /\ Owns(Python, Session)
    /\ version < MaxVersion
    /\ version' = version + 1
    /\ UNCHANGED <<strong, table, imported, fallback, call, known, seen, served, lost>>

(* register_py_table_provider of an FFI provider: the new                   *)
(* HostedFfiTableProvider owns a HostTaskContext whose fallback is the task *)
(* context of the session, to which it refers weakly, as the codec does to  *)
(* the HostTaskContext.                                                     *)
ImportWith(owned, registered) ==
    /\ Owns(Python, Session)
    /\ table = "none"
    /\ table' = "registered"
    /\ imported' = version
    /\ fallback' = registered
    /\ strong' = strong \cup {<<Catalog, Table>>, <<Table, Host>>} \cup owned
    /\ UNCHANGED <<version, call, known, seen, served, lost>>

(* Faulty variants: the fallback starts as a registry without functions; the *)
(* HostTaskContext owns the session.                                        *)
ImportEmpty == ImportWith({}, 0)
ImportStrong == ImportWith({<<Host, Session>>}, version)

Import == ImportWith({}, version)

(* deregister_table: the catalog forgets the table, plans on it keep it.    *)
Deregister ==
    /\ Owns(Python, Session)
    /\ table = "registered"
    /\ table' = "deregistered"
    /\ strong' = strong \ {<<Catalog, Table>>}
    /\ UNCHANGED <<version, imported, fallback, call, known, seen, served, lost>>

(* A DataFrame on the table: its plan refers to the table and its session   *)
(* state is a copy with the registry of this moment, which shares the       *)
(* session's catalogs.                                                      *)
OpenFrame(f) ==
    /\ Owns(Python, Session)
    /\ table = "registered"
    /\ call[f] = "idle"
    /\ References(Frame(f)) = {}
    /\ strong' = strong \cup {<<Python, Frame(f)>>, <<Frame(f), Catalog>>, <<Frame(f), Table>>}
    /\ known' = [known EXCEPT ![f] = version]
    /\ UNCHANGED <<registry, call, seen, served, lost>>

(* Python collects the SessionContext, or a frame, a call on which may be    *)
(* under way in another thread.                                             *)
DropSession ==
    /\ Owns(Python, Session)
    /\ strong' = strong \ {<<Python, Session>>}
    /\ UNCHANGED <<registry, call, known, seen, served, lost>>

CloseFrame(f) ==
    /\ Owns(Python, Frame(f))
    /\ strong' = strong \ {<<Python, Frame(f)>>}
    /\ UNCHANGED <<registry, call, known, seen, served, lost>>

(* A method of the frame that plans its query, as collect does: it works on *)
(* a clone of the DataFrame, with its own references to plan and state.     *)
BeginCall(f) ==
    /\ Owns(Python, Frame(f))
    /\ call[f] = "idle"
    /\ call' = [call EXCEPT ![f] = "planning"]
    /\ strong' = strong \cup {<<Call(f), Catalog>>, <<Call(f), Table>>}
    /\ UNCHANGED <<registry, known, seen, served, lost>>

EndCall(f) ==
    /\ call[f] = "planning"
    /\ call' = [call EXCEPT ![f] = "idle"]
    /\ strong' = strong \ References(Call(f))
    /\ UNCHANGED <<registry, known, seen, served, lost>>

(* supports_filters_pushdown up to HostTaskContext::remember: the foreign   *)
(* side upgrades the codec's provider, task_ctx upgrades the session and    *)
(* reads its registry.  Without a session the fallback is served at once.   *)
(* Faulty variant: the fallback is served while the session is alive, too.  *)
BeginCheckCached(f) ==
    /\ call[f] = "planning"
    /\ lost' = (lost \/ ~Alive(Host))
    /\ served' = [served EXCEPT ![f] = fallback]
    /\ UNCHANGED <<strong, registry, call, known, seen>>

BeginCheck(f) ==
    /\ call[f] = "planning"
    /\ lost' = (lost \/ ~Alive(Host))
    /\ IF Alive(Session)
       THEN /\ call' = [call EXCEPT ![f] = "checking"]
            /\ strong' = strong \cup {<<Call(f), Session>>}
            /\ seen' = [seen EXCEPT ![f] = version]
            /\ UNCHANGED served
       ELSE /\ served' = [served EXCEPT ![f] = fallback]
            /\ UNCHANGED <<strong, call, seen>>
    /\ UNCHANGED <<registry, known>>

(* remember under its write lock, and the end of the check, where the       *)
(* strong reference to the session is dropped.  Faulty variant: it is       *)
(* dropped before remember.                                                 *)
EndCheckLate(f) ==
    \/ /\ call[f] = "checking"
       /\ Owns(Call(f), Session)
       /\ strong' = strong \ {<<Call(f), Session>>}
       /\ UNCHANGED <<registry, call, known, seen, served, lost>>
    \/ /\ call[f] = "checking"
       /\ ~Owns(Call(f), Session)
       /\ fallback' = seen[f]
       /\ call' = [call EXCEPT ![f] = "planning"]
       /\ served' = [served EXCEPT ![f] = seen[f]]
       /\ UNCHANGED <<strong, version, table, imported, known, seen, lost>>

EndCheck(f) ==
    /\ call[f] = "checking"
    /\ fallback' = seen[f]
    /\ call' = [call EXCEPT ![f] = "planning"]
    /\ strong' = strong \ {<<Call(f), Session>>}
    /\ served' = [served EXCEPT ![f] = seen[f]]
    /\ UNCHANGED <<version, table, imported, known, seen, lost>>

(* scan and insert_into: bound_for makes a SessionTaskContext of the        *)
(* session that plans, and a provider whose codec refers to it weakly; the  *)
(* call owns both.  It ends by returning or by being dropped.  Faulty       *)
(* variant: let (_, provider) keeps only the provider.                      *)
BeginScanUnowned(f) ==
    /\ call[f] = "planning"
    /\ call' = [call EXCEPT ![f] = "scanning"]
    /\ UNCHANGED <<strong, registry, known, seen, served, lost>>

BeginScan(f) ==
    /\ call[f] = "planning"
    /\ call' = [call EXCEPT ![f] = "scanning"]
    /\ strong' = strong \cup {<<Call(f), ScanContext(f)>>}
    /\ UNCHANGED <<registry, known, seen, served, lost>>

(* The foreign scan or insert decodes filters while it is awaited.          *)
ScanDecodes(f) ==
    /\ call[f] = "scanning"
    /\ lost' = (lost \/ ~Alive(ScanContext(f)))
    /\ served' = [served EXCEPT ![f] = known[f]]
    /\ UNCHANGED <<strong, registry, call, known, seen>>

EndScan(f) ==
    /\ call[f] = "scanning"
    /\ call' = [call EXCEPT ![f] = "planning"]
    /\ strong' = strong \ {<<Call(f), ScanContext(f)>>}
    /\ UNCHANGED <<registry, known, seen, served, lost>>

OnFrame(f) ==
    \/ OpenFrame(f) \/ CloseFrame(f) \/ BeginCall(f) \/ EndCall(f)
    \/ BeginCheck(f) \/ EndCheck(f)
    \/ BeginScan(f) \/ ScanDecodes(f) \/ EndScan(f)
    \/ Destroy(Frame(f))

Next ==
    \/ RegisterFunction \/ Import \/ Deregister \/ DropSession
    \/ \E o \in {Session, Catalog, Table, Host} : Destroy(o)
    \/ \E f \in Frames : OnFrame(f)

Spec == Init /\ [][Next]_vars

-----------------------------------------------------------------------------
(* Types of the references, the registries and the calls.                   *)
Owners == {Python, Session, Catalog, Table, Host}
          \cup {Frame(f) : f \in Frames} \cup {Call(f) : f \in Frames}
Objects == {Session, Catalog, Table, Host}
           \cup {Frame(f) : f \in Frames} \cup {ScanContext(f) : f \in Frames}

TypeOK ==
    /\ strong \subseteq Owners \X Objects
    /\ version \in 0..MaxVersion
    /\ table \in {"none", "registered", "deregistered"}
    /\ imported \in 0..MaxVersion
    /\ fallback \in 0..MaxVersion
    /\ call \in [Frames -> {"idle", "planning", "checking", "scanning"}]
    /\ known \in [Frames -> 0..MaxVersion]
    /\ seen \in [Frames -> 0..MaxVersion]
    /\ served \in [Frames -> 0..MaxVersion]
    /\ lost \in BOOLEAN

(* No decode fails with "TaskContextProvider went out of scope": the        *)
(* provider a codec refers to weakly still has an owner at every pushdown   *)
(* check and at every decode of a scan, in whatever order Python drops the  *)
(* session, deregisters the table and closes the frames of calls under way. *)
NeverOutOfScope == ~lost

(* The references form no cycle through the session: once Python has        *)
(* collected it and no check is under way, it is gone, though frames and    *)
(* calls still keep catalog, table and codec.                               *)
SessionCollected ==
    ~Owns(Python, Session) /\ (\A f \in Frames : call[f] # "checking") => ~Alive(Session)

(* Whatever the order in which overlapping checks remember what they read,  *)
(* the fallback is never older than the import, nor newer than what the     *)
(* session registered: a filter that decoded at import always decodes.      *)
FallbackSinceImport ==
    table # "none" => imported <= fallback /\ fallback <= version

(* While the session is alive, no decode lacks a function that the frame's  *)
(* plan can use: a scan is given the registry of the state that plans it, a *)
(* pushdown check one at least as new.                                      *)
PlanFunctionsKnown ==
    [][\A f \in Frames :
          Alive(Session) /\ served'[f] # served[f] => known[f] <= served'[f]]_vars

(* Once the session is gone, the frames' checks all decode under one        *)
(* registry: nothing can move the fallback any more.                        *)
FallbackSettles == [][~Alive(Session) => fallback' = fallback]_vars
=============================================================================
