--------------------------- MODULE HostedFfiProofs ---------------------------
(***************************************************************************)
(* Theorems about HostedFfi, for any number of frames and of registered    *)
(* functions.  Structure, Calls and SessionOwners say who owns whom:       *)
(* every object that still has an owner has its own references (it was not *)
(* destroyed), every call owns what it works on, and only Python and the   *)
(* checks under way own the session.  Versions says that a check under    *)
(* way has read a registry between the import and now, so that what it     *)
(* will remember is one too.                                               *)
(***************************************************************************)
EXTENDS HostedFfi, TLAPS

(* The part about owners and the part about versions.                       *)
Structure ==
    /\ Alive(Session) => Owns(Session, Catalog)
    /\ table = "registered" /\ Alive(Catalog) => Owns(Catalog, Table)
    /\ Alive(Table) => table # "none" /\ Owns(Table, Host)
    /\ \A f \in Frames : Owns(Python, Frame(f)) => Owns(Frame(f), Table) /\ Owns(Frame(f), Catalog)

Calls ==
    \A f \in Frames :
        /\ call[f] # "idle" => Owns(Call(f), Table)
        /\ call[f] = "checking" => Owns(Call(f), Session)
        /\ call[f] = "scanning" => Owns(Call(f), ScanContext(f))

SessionOwners ==
    \A e \in strong :
        e[2] = Session => e[1] = Python \/ \E f \in Frames : e[1] = Call(f) /\ call[f] = "checking"

Versions ==
    /\ imported <= version
    /\ \A f \in Frames :
        /\ known[f] <= version
        /\ call[f] = "checking" => imported <= seen[f] /\ seen[f] <= version

Inv ==
    /\ TypeOK /\ Structure /\ Calls /\ SessionOwners /\ Versions
    /\ FallbackSinceImport /\ NeverOutOfScope

(* No two of the objects and owners are the same.                           *)
LEMMA Distinct ==
    /\ Python # Session /\ Python # Catalog /\ Python # Table /\ Python # Host
    /\ Session # Catalog /\ Session # Table /\ Session # Host
    /\ Catalog # Table /\ Catalog # Host /\ Table # Host
    /\ \A f \in Frames :
        /\ Frame(f) \notin {Python, Session, Catalog, Table, Host}
        /\ Call(f) \notin {Python, Session, Catalog, Table, Host}
        /\ ScanContext(f) \notin {Python, Session, Catalog, Table, Host}
        /\ \A g \in Frames :
            /\ Frame(f) # Call(g) /\ Frame(f) # ScanContext(g) /\ Call(f) # ScanContext(g)
            /\ f # g => Frame(f) # Frame(g) /\ Call(f) # Call(g) /\ ScanContext(f) # ScanContext(g)
BY DEF Python, Session, Catalog, Table, Host, Frame, Call, ScanContext

LEMMA InitInv == Init => Inv
<1> SUFFICES ASSUME Init PROVE Inv
    OBVIOUS
<1>1. lost \in BOOLEAN /\ ~lost
    BY Zenon DEF Init
<1>2. 0 \in 0..MaxVersion
    BY MaxVersionAssumption
<1>3. TypeOK
    BY <1>1, <1>2 DEF Init, TypeOK, Owners, Objects
<1>4. Structure /\ Calls /\ SessionOwners
    BY Distinct DEF Init, Structure, Calls, SessionOwners, Alive, Owns
<1>5. Versions /\ FallbackSinceImport
    BY DEF Init, Versions, FallbackSinceImport
<1> QED
    BY <1>1, <1>3, <1>4, <1>5 DEF Inv, NeverOutOfScope

(* Every step keeps the types.                                              *)
LEMMA NextTypes == TypeOK /\ [Next]_vars => TypeOK'
<1> SUFFICES ASSUME TypeOK, [Next]_vars PROVE TypeOK'
    OBVIOUS
<1>1. strong' \subseteq Owners \X Objects
    BY DEF TypeOK, Owners, Objects, Next, OnFrame, vars, registry, Destroy, RegisterFunction,
       Import, ImportWith, Deregister, OpenFrame, DropSession, CloseFrame, BeginCall, EndCall,
       BeginCheck, EndCheck, BeginScan, ScanDecodes, EndScan
<1>2. lost' \in BOOLEAN
    BY Zenon DEF TypeOK, Next, OnFrame, vars, Destroy, RegisterFunction,
       Import, ImportWith, Deregister, OpenFrame, DropSession, CloseFrame, BeginCall, EndCall,
       BeginCheck, EndCheck, BeginScan, ScanDecodes, EndScan
<1>3. UNCHANGED registry \/ (version' \in 0..MaxVersion /\ imported' \in 0..MaxVersion
         /\ fallback' \in 0..MaxVersion /\ table' \in {"none", "registered", "deregistered"})
    BY MaxVersionAssumption
    DEF TypeOK, Next, OnFrame, vars, registry, Destroy, RegisterFunction,
       Import, ImportWith, Deregister, OpenFrame, DropSession, CloseFrame, BeginCall, EndCall,
       BeginCheck, EndCheck, BeginScan, ScanDecodes, EndScan
<1>4. /\ call' \in [Frames -> {"idle", "planning", "checking", "scanning"}]
      /\ known' \in [Frames -> 0..MaxVersion]
      /\ seen' \in [Frames -> 0..MaxVersion]
      /\ served' \in [Frames -> 0..MaxVersion]
    BY DEF TypeOK, Next, OnFrame, vars, registry, Destroy, RegisterFunction,
       Import, ImportWith, Deregister, OpenFrame, DropSession, CloseFrame, BeginCall, EndCall,
       BeginCheck, EndCheck, BeginScan, ScanDecodes, EndScan
<1> QED
    BY <1>1, <1>2, <1>3, <1>4 DEF TypeOK, registry

(* Every step keeps what the owners own and the versions in their interval. *)
LEMMA NextInv == Inv /\ [Next]_vars => Inv'
<1> SUFFICES ASSUME Inv, [Next]_vars PROVE Inv'
    OBVIOUS
<1> DEFINE Goal == Structure' /\ Calls' /\ SessionOwners'
<1>1. TypeOK'
    BY NextTypes DEF Inv
<1>2. Goal
    <2> USE Distinct DEF Inv, TypeOK, Structure, Calls, SessionOwners, Alive, Owns, References,
            registry
    <2>1. CASE RegisterFunction
        BY <2>1 DEF RegisterFunction
    <2>2. CASE Import
        BY <2>2 DEF Import, ImportWith
    <2>3. CASE Deregister
        BY <2>3 DEF Deregister
    <2>4. CASE DropSession
        BY <2>4 DEF DropSession
    <2>5. ASSUME NEW o, o \in {Session, Catalog, Table, Host}, Destroy(o) PROVE Goal
        BY <2>5 DEF Destroy
    <2>6. ASSUME NEW f \in Frames, Destroy(Frame(f)) PROVE Goal
        BY <2>6 DEF Destroy
    <2>7. ASSUME NEW f \in Frames, OpenFrame(f) PROVE Goal
        BY <2>7 DEF OpenFrame
    <2>8. ASSUME NEW f \in Frames, CloseFrame(f) PROVE Goal
        BY <2>8 DEF CloseFrame
    <2>9. ASSUME NEW f \in Frames, BeginCall(f) PROVE Goal
        <3>1. Owns(Frame(f), Table) /\ Owns(Frame(f), Catalog)
            BY <2>9 DEF BeginCall
        <3>2. Owns(Table, Host) /\ table # "none" /\ (table = "registered" => Owns(Catalog, Table))
            BY <3>1
        <3>3. Structure'
            BY <2>9, <3>2 DEF BeginCall
        <3>4. Calls'
            BY <2>9 DEF BeginCall
        <3>5. SessionOwners'
            BY <2>9 DEF BeginCall
        <3> QED
            BY <3>3, <3>4, <3>5
    <2>10. ASSUME NEW f \in Frames, EndCall(f) PROVE Goal
        BY <2>10 DEF EndCall
    <2>11. ASSUME NEW f \in Frames, BeginCheck(f) PROVE Goal
        BY <2>11 DEF BeginCheck
    <2>12. ASSUME NEW f \in Frames, EndCheck(f) PROVE Goal
        BY <2>12 DEF EndCheck
    <2>13. ASSUME NEW f \in Frames, BeginScan(f) PROVE Goal
        BY <2>13 DEF BeginScan
    <2>14. ASSUME NEW f \in Frames, ScanDecodes(f) PROVE Goal
        BY <2>14 DEF ScanDecodes
    <2>15. ASSUME NEW f \in Frames, EndScan(f) PROVE Goal
        BY <2>15 DEF EndScan
    <2>16. CASE UNCHANGED vars
        BY <2>16 DEF vars
    <2> QED
        BY <2>1, <2>2, <2>3, <2>4, <2>5, <2>6, <2>7, <2>8, <2>9, <2>10, <2>11, <2>12, <2>13,
           <2>14, <2>15, <2>16 DEF Next, OnFrame
<1>3. Versions' /\ FallbackSinceImport'
    <2> USE MaxVersionAssumption DEF Inv, TypeOK, Versions, FallbackSinceImport, registry
    <2>1. CASE RegisterFunction
        BY <2>1 DEF RegisterFunction
    <2>2. CASE Import
        <3>1. \A f \in Frames : call[f] # "checking"
            BY <2>2 DEF Import, ImportWith, Structure, Calls, Alive, Owns
        <3> QED
            BY <2>2, <3>1 DEF Import, ImportWith
    <2>3. ASSUME NEW f \in Frames, BeginCheck(f) PROVE Versions' /\ FallbackSinceImport'
        BY <2>3 DEF BeginCheck
    <2>4. ASSUME NEW f \in Frames, EndCheck(f) PROVE Versions' /\ FallbackSinceImport'
        BY <2>4 DEF EndCheck
    <2>5. ASSUME NEW f \in Frames, OpenFrame(f) PROVE Versions' /\ FallbackSinceImport'
        BY <2>5 DEF OpenFrame
    <2>6. ASSUME NEW f \in Frames,
                 CloseFrame(f) \/ BeginCall(f) \/ EndCall(f) \/ BeginScan(f) \/ ScanDecodes(f)
                 \/ EndScan(f)
          PROVE  Versions' /\ FallbackSinceImport'
        BY <2>6 DEF CloseFrame, BeginCall, EndCall, BeginScan, ScanDecodes, EndScan
    <2>7. ASSUME NEW o, Destroy(o) PROVE Versions' /\ FallbackSinceImport'
        BY <2>7 DEF Destroy
    <2>8. CASE Deregister \/ DropSession \/ UNCHANGED vars
        <3>1. (table # "none" <=> table' # "none") /\ UNCHANGED <<version, imported, fallback, call, known, seen>>
            BY <2>8 DEF Deregister, DropSession, vars
        <3> QED
            BY <3>1
    <2> QED
        BY <2>1, <2>2, <2>3, <2>4, <2>5, <2>6, <2>7, <2>8 DEF Next, OnFrame
<1>4. NeverOutOfScope'
    <2>1. ASSUME NEW f \in Frames, BeginCheck(f) PROVE ~lost'
        <3>1. Owns(Call(f), Table)
            BY <2>1 DEF Inv, Calls, BeginCheck
        <3>2. Alive(Host)
            BY <3>1 DEF Inv, Structure, Alive, Owns
        <3> QED
            BY <2>1, <3>2 DEF Inv, BeginCheck, NeverOutOfScope
    <2>2. ASSUME NEW f \in Frames, ScanDecodes(f) PROVE ~lost'
        <3>1. Alive(ScanContext(f))
            BY <2>2 DEF Inv, Calls, ScanDecodes, Alive, Owns
        <3> QED
            BY <2>2, <3>1 DEF Inv, ScanDecodes, NeverOutOfScope
    <2> QED
        BY <2>1, <2>2
        DEF Inv, NeverOutOfScope, Next, OnFrame, vars, Destroy, RegisterFunction,
            Import, ImportWith, Deregister, OpenFrame, DropSession, CloseFrame, BeginCall,
            EndCall, EndCheck, BeginScan, EndScan
<1> QED
    BY <1>1, <1>2, <1>3, <1>4 DEF Inv

THEOREM Invariance == Spec => []Inv
BY InitInv, NextInv, PTL DEF Spec

(* Types, with the versions of the registry that sessions, tables and scans *)
(* hold.                                                                    *)
THEOREM HostedFfiTypes == Spec => []TypeOK
<1>1. Inv => TypeOK
    BY DEF Inv
<1> QED
    BY <1>1, Invariance, PTL

(* No decode of an imported table's filters finds its task context provider *)
(* out of scope, in whatever order session, table and frames are dropped: a *)
(* call owns its plan, which owns the table, which owns the HostTaskContext, *)
(* and the calls of scan and insert_into own their SessionTaskContext.      *)
THEOREM ProviderNeverOutOfScope == Spec => []NeverOutOfScope
<1>1. Inv => NeverOutOfScope
    BY DEF Inv
<1> QED
    BY <1>1, Invariance, PTL

(* The fallback HostTaskContext serves stays between the registry of the    *)
(* import and the session's, though overlapping checks may set it back.     *)
THEOREM FallbackBounded == Spec => []FallbackSinceImport
<1>1. Inv => FallbackSinceImport
    BY DEF Inv
<1> QED
    BY <1>1, Invariance, PTL

(* The table never keeps the SessionContext: with no check under way only   *)
(* Python does.                                                             *)
THEOREM TableKeepsNoSession == Spec => []SessionCollected
<1>1. Inv => SessionCollected
    BY DEF Inv, TypeOK, SessionOwners, SessionCollected, Alive, Owns
<1> QED
    BY <1>1, Invariance, PTL

(* While the session is alive, every decode knows the functions that the    *)
(* frame's plan can use: a check reads a registry at least as new as the    *)
(* one its frame was built with.                                            *)
THEOREM PlansDecode == Spec => PlanFunctionsKnown
<1> DEFINE Known ==
        \A f \in Frames : Alive(Session) /\ served'[f] # served[f] => known[f] <= served'[f]
<1> DEFINE Fresh == \A f \in Frames : call[f] = "checking" => known[f] <= seen[f]
<1>1. Init => Fresh
    BY DEF Init
<1>2. Inv /\ Fresh /\ [Next]_vars => Fresh'
    <2> SUFFICES ASSUME Inv, Fresh, [Next]_vars PROVE Fresh'
        OBVIOUS
    <2> USE DEF Inv, TypeOK
    <2>1. ASSUME NEW f \in Frames, OpenFrame(f) PROVE Fresh'
        BY <2>1 DEF OpenFrame
    <2>2. ASSUME NEW f \in Frames, BeginCheck(f) PROVE Fresh'
        <3>1. known[f] <= version
            BY <2>2 DEF BeginCheck, Versions
        <3> QED
            BY <2>2, <3>1 DEF BeginCheck
    <2>3. ASSUME NEW f \in Frames,
                 CloseFrame(f) \/ BeginCall(f) \/ EndCall(f) \/ EndCheck(f)
                 \/ BeginScan(f) \/ ScanDecodes(f) \/ EndScan(f)
          PROVE  Fresh'
        BY <2>3 DEF CloseFrame, BeginCall, EndCall, EndCheck, BeginScan, ScanDecodes, EndScan
    <2>5. ASSUME NEW o, Destroy(o) PROVE Fresh'
        BY <2>5 DEF Destroy
    <2>4. CASE RegisterFunction \/ Import \/ Deregister \/ DropSession \/ UNCHANGED vars
        BY <2>4 DEF RegisterFunction, Import, ImportWith, Deregister, DropSession, registry, vars
    <2> QED
        BY <2>1, <2>2, <2>3, <2>4, <2>5 DEF Next, OnFrame
<1>3. Inv /\ Fresh /\ [Next]_vars => [Known]_vars
    <2> SUFFICES ASSUME Inv, Fresh, [Next]_vars PROVE [Known]_vars
        OBVIOUS
    <2> USE DEF Inv, TypeOK
    <2>1. ASSUME NEW f \in Frames, BeginCheck(f) PROVE Known
        BY <2>1 DEF BeginCheck
    <2>2. ASSUME NEW f \in Frames, EndCheck(f) PROVE Known
        BY <2>2 DEF EndCheck
    <2>3. ASSUME NEW f \in Frames, ScanDecodes(f) PROVE Known
        <3> SUFFICES ASSUME NEW g \in Frames, served'[g] # served[g]
                     PROVE  known[g] <= served'[g]
            OBVIOUS
        <3>1. g = f /\ served'[g] = known[g] /\ known[g] \in Nat
            BY <2>3 DEF ScanDecodes
        <3> QED
            BY <3>1
    <2>4. ASSUME NEW f \in Frames,
                 OpenFrame(f) \/ CloseFrame(f) \/ BeginCall(f) \/ EndCall(f)
                 \/ BeginScan(f) \/ EndScan(f)
          PROVE  Known
        BY <2>4 DEF OpenFrame, CloseFrame, BeginCall, EndCall, BeginScan, EndScan
    <2>6. ASSUME NEW o, Destroy(o) PROVE Known
        BY <2>6 DEF Destroy
    <2>5. CASE RegisterFunction \/ Import \/ Deregister \/ DropSession
        BY <2>5 DEF RegisterFunction, Import, ImportWith, Deregister, DropSession, registry
    <2> QED
        BY <2>1, <2>2, <2>3, <2>4, <2>5, <2>6 DEF Next, OnFrame
<1> QED
    BY <1>1, <1>2, <1>3, Invariance, PTL DEF Spec, PlanFunctionsKnown

(* With the SessionContext gone nothing moves the fallback of               *)
(* HostTaskContext (FallbackSettles): the check that could store what it    *)
(* read holds the session until it has, and an import needs a session.      *)
THEOREM FallbackFixed == Spec => FallbackSettles
<1>1. Inv /\ [Next]_vars => (~Alive(Session) => fallback' = fallback)
  <2> SUFFICES ASSUME Inv, [Next]_vars, ~Alive(Session) PROVE fallback' = fallback
    OBVIOUS
  <2>1. ~Owns(Python, Session) /\ \A f \in Frames : ~EndCheck(f)
    BY DEF Inv, Calls, Alive, Owns, EndCheck
  <2> QED
    BY <2>1
    DEF Next, OnFrame, vars, registry, Destroy, RegisterFunction, Import, ImportWith, Deregister,
        OpenFrame, DropSession, CloseFrame, BeginCall, EndCall, BeginCheck, BeginScan,
        ScanDecodes, EndScan
<1> QED
  BY <1>1, Invariance, PTL DEF Spec, FallbackSettles
=============================================================================
