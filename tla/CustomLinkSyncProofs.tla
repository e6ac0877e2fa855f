----------------------- MODULE CustomLinkSyncProofs -----------------------
(***************************************************************************)
(* Safety of the custom-link mirror, for every set of link contents and    *)
(* every number of disturbances.                                           *)
(***************************************************************************)
EXTENDS CustomLinkSync, ApiObjectsTheorems

CMHolders == {"cache"}
DLHolders == {"cache", "dlr"}

\* A cache that no event is on its way to shows what the server stores, and a
\* copy of DLR at the current version is the link that the server stores.
CopiesTell ==
  /\ Settled(cm) => cm.seen = cm.obj
  /\ Settled(dl) => dl.seen = dl.obj
  /\ "dlr" \in dl.fresh => dlw # Idle /\ dlw.copy = dl.obj

\* A reconcile that works on an older copy than the cache has will be repeated.
OutdatedRequeued ==
  /\ cmw # Idle /\ cmw.copy # cm.seen => qcm
  /\ dlw # Idle /\ dlw.copy # dl.seen => qdl

\* What the branch a reconcile is in says of its copy.
BranchKnown ==
  /\ dlw.pc \in {"drop", "delete", "release"} => dlw.copy.del
  /\ dlw.pc = "accept" => ~dlw.copy.del /\ dlw.copy.final
  /\ dlw.pc = "write" => ~dlw.copy.del /\ dlw.copy.final
  /\ dlw.pc = "finalizer" => ~dlw.copy.final

Undecided == {"finalizer", "write", "reject"}

\* The difference that QuiescentAgree excludes is always in somebody's hands.
AgreeOrPending ==
  Settled(cm) /\ Settled(dl) /\ ~qcm /\ ~qdl /\ cmw = Idle /\ dlw.pc \notin Undecided /\ Mirrored
    => dl.obj.spec.link = cm.obj.link

\* The same for the status that QuiescentReported expects.
ReportedOrPending ==
  Settled(dl) /\ ~qdl /\ dlw = Idle /\ dl.obj # Absent /\ ~dl.obj.del
    => dl.obj.final /\ dl.obj.ready = "True" /\ dl.obj.observed = dl.obj.spec

IInv ==
  TypeOK /\ CopiesTell /\ OutdatedRequeued /\ BranchKnown /\ AgreeOrPending /\ ReportedOrPending

----------------------------------------------------------------------------
\* What the importer and the exporter write is well formed.
LEMMA WrittenBodies ==
  /\ \A c \in ConfigMaps : ImportedSpec(c) \in Specs
  /\ \A l \in DashboardLinks : ExportedConfigMap(l) \in ConfigMaps
  /\ \A s \in Specs, i \in BOOLEAN : NewLink(s, i) \in DashboardLinks
BY DEF ConfigMaps, DashboardLinks, Specs, ImportedSpec, ExportedConfigMap, NewLink

\* Editing one field of a link keeps it well formed.
LEMMA LinkEdits ==
  ASSUME NEW l \in DashboardLinks
  PROVE  /\ \A s \in Specs : [l EXCEPT !.spec = s] \in DashboardLinks
         /\ [l EXCEPT !.final = TRUE] \in DashboardLinks
         /\ [l EXCEPT !.del = TRUE] \in DashboardLinks
         /\ [l EXCEPT !.imported = FALSE] \in DashboardLinks
         /\ \A r \in {"True", "False"} : WithStatus(l, r) \in DashboardLinks
BY DEF WithStatus, DashboardLinks

LEMMA InitTyped == Init => TypeOK
<1>. SUFFICES ASSUME Init PROVE TypeOK
  OBVIOUS
<1>1. cm \in ObjectType(ConfigMaps, CMHolders)
  BY DEF Init, Listed, ObjectType, CMHolders
<1>2. dl \in ObjectType(DashboardLinks, DLHolders)
  BY DEF Init, Listed, ObjectType, DLHolders
<1>3. budget \in 0 .. MaxDisturbances
  BY DisturbancesAssumption DEF Init
<1>. QED
  BY <1>1, <1>2, <1>3 DEF Init, TypeOK, CMHolders, DLHolders

LEMMA StepTyped == TypeOK /\ CopiesTell /\ [Next]_vars => TypeOK'
<1>. SUFFICES ASSUME TypeOK, CopiesTell, [Next]_vars PROVE TypeOK'
  OBVIOUS
<1>. DEFINE CMT == ObjectType(ConfigMaps, CMHolders)
            DLT == ObjectType(DashboardLinks, DLHolders)
<1>a. cm \in CMT /\ dl \in DLT
  BY DEF TypeOK, CMHolders, DLHolders
<1>b. cm.seen \in ConfigMaps \cup {Absent} /\ cm.obj \in ConfigMaps \cup {Absent}
      /\ dl.seen \in DashboardLinks \cup {Absent} /\ dl.obj \in DashboardLinks \cup {Absent}
  BY <1>a DEF ObjectType
<1>c. \A c \in ConfigMaps \cup {Absent} : Put(cm, c) \in CMT /\ Listed(c) \in CMT
  BY <1>a, ObjectOps DEF CMHolders
<1>d. \A l \in DashboardLinks \cup {Absent} :
        Put(dl, l) \in DLT /\ Listed(l) \in DLT
        /\ Release(Put(dl, l), "dlr") \in DLT
  BY <1>a, ObjectOps DEF DLHolders
<1>e. Release(dl, "dlr") \in DLT /\ Fetch(dl, "dlr") \in DLT /\ Deliver(dl) \in DLT
      /\ Deliver(cm) \in CMT
  BY <1>a, ObjectOps DEF DLHolders, CMHolders
<1>f. budget \in Nat /\ MaxDisturbances \in Nat
  BY DisturbancesAssumption DEF TypeOK
<1>. HIDE DEF CMT, DLT
<1>t. ASSUME cm' \in CMT, dl' \in DLT, qcm' \in BOOLEAN, qdl' \in BOOLEAN,
             budget' \in 0 .. MaxDisturbances,
             cmw' \in {Idle} \cup [pc : {"sync"}, copy : ConfigMaps],
             dlw' \in {Idle} \cup [pc : {"finalizer", "write", "accept", "reject",
                                         "drop", "delete", "release"}, copy : DashboardLinks]
      PROVE  TypeOK'
  BY <1>t DEF TypeOK, CMT, DLT, CMHolders, DLHolders
<1>1. CASE DeliverConfigMap
  BY <1>1, <1>a, <1>e, <1>t DEF DeliverConfigMap, TypeOK
<1>2. CASE DeliverLink
  BY <1>2, <1>a, <1>e, <1>t DEF DeliverLink, TypeOK
<1>3. CASE ResyncConfigMap \/ ResyncLink
  BY <1>3, <1>a, <1>t DEF ResyncConfigMap, ResyncLink, TypeOK
<1>4. CASE CmrGet
  BY <1>4, <1>a, <1>b, <1>t DEF CmrGet, Importable, TypeOK
<1>5. CASE CmrCreate
  <2>1. NewLink(ImportedSpec(cmw.copy), TRUE) \in DashboardLinks
    <3>1. cmw.copy \in ConfigMaps
      BY <1>5 DEF CmrCreate, CmrSyncs, TypeOK, Idle
    <3>. QED
      BY <3>1, WrittenBodies
  <2>. QED
    BY <1>5, <1>a, <1>d, <1>t, <2>1 DEF CmrCreate, CmrSyncs, TypeOK
<1>6. CASE CmrLeave
  BY <1>6, <1>a, <1>t DEF CmrLeave, CmrSyncs, TypeOK
<1>7. CASE CmrUpdate
  <2>1. [dl.seen EXCEPT !.spec = ImportedSpec(cmw.copy)] \in DashboardLinks
    <3>1. ImportedSpec(cmw.copy) \in Specs
      BY <1>7, WrittenBodies DEF CmrUpdate, CmrSyncs, TypeOK, Idle
    <3>. QED
      BY <1>7, <1>b, <3>1, LinkEdits DEF CmrUpdate
  <2>. QED
    BY <1>7, <1>a, <1>d, <1>t, <2>1 DEF CmrUpdate, CmrSyncs, TypeOK
<1>8. CASE DlrGet
  <2>1. Branch(dl.seen) # "idle" => dl.seen \in DashboardLinks
    BY <1>b DEF Branch
  <2>2. Branch(dl.seen) \in {"idle", "finalizer", "write", "accept", "reject", "drop"}
    BY DEF Branch
  <2>3. CASE Branch(dl.seen) = "idle"
    BY <1>8, <1>a, <1>t, <2>3 DEF DlrGet, TypeOK
  <2>4. CASE Branch(dl.seen) # "idle"
    <3>1. [pc |-> Branch(dl.seen), copy |-> dl.seen]
            \in [pc : {"finalizer", "write", "accept", "reject", "drop", "delete", "release"},
                copy : DashboardLinks]
      BY <2>1, <2>2, <2>4
    <3>2. dlw' \in {Idle} \cup [pc : {"finalizer", "write", "accept", "reject",
                                      "drop", "delete", "release"}, copy : DashboardLinks]
      BY <1>8, <2>4, <3>1 DEF DlrGet
    <3>3. dl' \in DLT /\ qdl' \in BOOLEAN /\ UNCHANGED <<cm, qcm, cmw, budget>>
      BY <1>8, <1>e, <2>4 DEF DlrGet
    <3>. QED
      BY <1>a, <1>t, <3>2, <3>3 DEF TypeOK
  <2>. QED
    BY <2>3, <2>4
<1>9. CASE \/ DlrUnresolved \/ DlrLeaveConfigMap \/ DlrDrop
  BY <1>9, <1>a, <1>t DEF DlrUnresolved, DlrLeaveConfigMap, DlrDrop, DlrAt, DlrGoto, TypeOK, Idle
<1>10. CASE DlrAddFinalizer
  <2>1. [dlw.copy EXCEPT !.final = TRUE] \in DashboardLinks
    <3>1. dlw.copy \in DashboardLinks
      BY <1>10 DEF DlrAddFinalizer, DlrAt, TypeOK, Idle
    <3>. QED
      BY <3>1, LinkEdits
  <2>. QED
    BY <1>10, <1>a, <1>d, <1>e, <1>t, <2>1 DEF DlrAddFinalizer, DlrAt, DlrReturn, TypeOK
<1>11. CASE DlrCreateConfigMap \/ DlrUpdateConfigMap
  <2>1. ExportedConfigMap(dlw.copy) \in ConfigMaps
    BY <1>11, WrittenBodies DEF DlrCreateConfigMap, DlrUpdateConfigMap, DlrAt, TypeOK, Idle
  <2>. QED
    BY <1>11, <1>a, <1>c, <1>t, <2>1
    DEF DlrCreateConfigMap, DlrUpdateConfigMap, DlrAt, DlrGoto, TypeOK, Idle
<1>12. CASE DlrAccept \/ DlrReject
  <2>1. Current(dl, "cache") => dl.seen \in DashboardLinks
    BY <1>b DEF Current, CopiesTell, Settled
  <2>2. Current(dl, "cache") =>
          /\ Release(Put(dl, WithStatus(dl.seen, "True")), "dlr") \in DLT
          /\ Release(Put(dl, WithStatus(dl.seen, "False")), "dlr") \in DLT
    BY <1>d, <2>1, LinkEdits
  <2>. QED
    BY <1>12, <1>a, <1>e, <1>t, <2>2 DEF DlrAccept, DlrReject, DlrAt, DlrReturn, TypeOK
<1>13. CASE DlrDelete
  BY <1>13, <1>a, <1>c, <1>t DEF DlrDelete, DlrAt, DlrGoto, TypeOK, Idle
<1>14. CASE DlrRelease
  BY <1>14, <1>a, <1>d, <1>e, <1>t DEF DlrRelease, DlrAt, DlrReturn, TypeOK
<1>15. CASE UserPutsConfigMap \/ UserDeletesConfigMap
  BY <1>15, <1>a, <1>c, <1>f, <1>t
  DEF UserPutsConfigMap, UserDeletesConfigMap, UserWrites, Disturb, TypeOK
<1>16. CASE UserCreatesLink
  <2>1. PICK b \in DashboardLinks \cup {Absent} : UserWritesLink(b)
    BY <1>16, WrittenBodies DEF UserCreatesLink
  <2>. QED
    BY <1>a, <1>d, <1>f, <1>t, <2>1 DEF UserWritesLink, Disturb, TypeOK
<1>17. CASE UserEditsLink \/ UserAdoptsLink \/ UserDeletesLink
  <2>1. dl.obj \in DashboardLinks
    BY <1>17, <1>b DEF UserEditsLink, UserAdoptsLink, UserDeletesLink
  <2>2. PICK b \in DashboardLinks \cup {Absent} : UserWritesLink(b)
    BY <1>17, <2>1, LinkEdits DEF UserEditsLink, UserAdoptsLink, UserDeletesLink
  <2>. QED
    BY <1>a, <1>d, <1>f, <1>t, <2>2 DEF UserWritesLink, Disturb, TypeOK
<1>18. CASE CmrApiError \/ DlrApiError
  <2>1. CASE CmrApiError
    BY <2>1, <1>a, <1>f, <1>t DEF CmrApiError, Disturb, TypeOK
  <2>2. CASE DlrApiError /\ dlw.pc \in {"write", "drop", "delete"}
    BY <2>2, <1>a, <1>f, <1>t DEF DlrApiError, DlrGoto, Disturb, TypeOK, Idle
  <2>3. CASE DlrApiError /\ dlw.pc \notin {"write", "drop", "delete"}
    BY <2>3, <1>a, <1>e, <1>f, <1>t DEF DlrApiError, DlrReturn, Disturb, TypeOK
  <2>. QED
    BY <1>18, <2>1, <2>2, <2>3
<1>19. CASE Restart
  BY <1>19, <1>b, <1>c, <1>d, <1>f, <1>t DEF Restart, Disturb, TypeOK
<1>20. CASE UNCHANGED vars
  BY <1>20, <1>a, <1>t DEF vars, TypeOK
<1>. QED
  BY <1>1, <1>2, <1>3, <1>4, <1>5, <1>6, <1>7, <1>8, <1>9, <1>10, <1>11, <1>12, <1>13,
     <1>14, <1>15, <1>16, <1>17, <1>18, <1>19, <1>20 DEF Next, Cmr, Dlr, Environment

----------------------------------------------------------------------------
LEMMA InitStrong == Init => IInv
<1>. SUFFICES ASSUME Init PROVE IInv
  OBVIOUS
<1>1. cm.seen = cm.obj /\ dl.seen = Absent /\ dl.obj = Absent /\ dl.fresh = {"cache"}
  BY DEF Init, Listed
<1>2. cmw = Idle /\ dlw = Idle
  BY DEF Init
<1>. QED
  BY InitTyped, <1>1, <1>2 DEF IInv, CopiesTell, OutdatedRequeued, BranchKnown, AgreeOrPending,
     ReportedOrPending, Mirrored, Idle

LEMMA StepStrong == IInv /\ [Next]_vars => IInv'
<1>. SUFFICES ASSUME IInv, [Next]_vars PROVE IInv'
  OBVIOUS
<1>. USE DEF Settled
<1>typed. TypeOK /\ TypeOK'
  BY StepTyped DEF IInv
<1>a. cm \in ObjectType(ConfigMaps, CMHolders) /\ dl \in ObjectType(DashboardLinks, DLHolders)
  BY <1>typed DEF TypeOK, CMHolders, DLHolders
<1>b. /\ \A c : Put(cm, c).obj = c /\ Put(cm, c).seen = cm.seen
             /\ (c = cm.obj => Put(cm, c) = cm) /\ (c # cm.obj => Put(cm, c).fresh = {})
      /\ \A l : Put(dl, l).obj = l /\ Put(dl, l).seen = dl.seen
             /\ (l = dl.obj => Put(dl, l) = dl) /\ (l # dl.obj => Put(dl, l).fresh = {})
  BY <1>a, PutEffect
<1>q. qcm \in BOOLEAN /\ qdl \in BOOLEAN
  BY <1>typed DEF TypeOK
<1>goto. ASSUME NEW p, NEW q, DlrAt(p), DlrGoto(q), p # "idle", q # "idle"
         PROVE  /\ dlw # Idle /\ dlw' # Idle /\ dlw.pc = p
                /\ dlw'.pc = q /\ dlw'.copy = dlw.copy
                /\ UNCHANGED <<dl, qdl, cmw>>
  BY <1>typed, <1>goto DEF DlrAt, DlrGoto, TypeOK, Idle
<1>written. ASSUME DlrAt("write"), DlrGoto("accept")
            PROVE  BranchKnown'
  BY <1>written, <1>goto DEF IInv, BranchKnown
<1>status. ASSUME NEW r \in {"True", "False"}, Current(dl, "cache"), WithStatus(dl.seen, r) # dl.obj,
                  dl' = Release(Put(dl, WithStatus(dl.seen, r)), "dlr"),
                  dlw' = Idle, qdl => qdl', UNCHANGED <<cm, qcm, cmw>>
           PROVE  IInv'
  <2>1. dl.seen \in DashboardLinks
    BY <1>typed, <1>status DEF Current, IInv, CopiesTell, TypeOK, ObjectType
  <2>2. Put(dl, WithStatus(dl.seen, r)) \in ObjectType(DashboardLinks, DLHolders)
    BY <1>a, <2>1, LinkEdits, ObjectOps DEF DLHolders
  <2>3. dl'.fresh = {} /\ dl'.seen = dl.seen
    BY <1>b, <1>status, <2>2, ReadEffect
  <2>. QED
    BY <1>typed, <1>status, <2>3 DEF IInv, CopiesTell, OutdatedRequeued, BranchKnown,
       AgreeOrPending, ReportedOrPending, Idle
<1>requeue. ASSUME dlw' = Idle, qdl', UNCHANGED <<cm, qcm, cmw>>,
                   dl' = Release(dl, "dlr")
            PROVE  IInv'
  <2>1. dl'.obj = dl.obj /\ dl'.seen = dl.seen /\ dl'.fresh = dl.fresh \ {"dlr"}
    BY <1>a, <1>requeue, ReadEffect
  <2>. QED
    BY <1>typed, <1>requeue, <2>1 DEF IInv, CopiesTell, OutdatedRequeued, BranchKnown,
       AgreeOrPending, ReportedOrPending, Idle
<1>1. CASE DeliverConfigMap
  <2>1. cm'.obj = cm.obj /\ cm'.seen = cm.obj /\ qcm' /\ UNCHANGED <<dl, qdl, cmw, dlw, budget>>
    BY <1>1, <1>a, ReadEffect DEF DeliverConfigMap
  <2>. QED
    BY <1>typed, <2>1 DEF IInv, CopiesTell, OutdatedRequeued, BranchKnown, AgreeOrPending,
       ReportedOrPending
<1>2. CASE DeliverLink
  <2>1. dl'.obj = dl.obj /\ dl'.seen = dl.obj /\ qdl' /\ dl'.fresh = dl.fresh \cup {"cache"}
        /\ UNCHANGED <<cm, qcm, cmw, dlw, budget>>
    BY <1>2, <1>a, ReadEffect DEF DeliverLink
  <2>. QED
    BY <1>typed, <2>1 DEF IInv, CopiesTell, OutdatedRequeued, BranchKnown, AgreeOrPending,
       ReportedOrPending
<1>3. CASE ResyncConfigMap \/ ResyncLink
  BY <1>typed, <1>3 DEF IInv, CopiesTell, OutdatedRequeued, BranchKnown, AgreeOrPending,
     ReportedOrPending, ResyncConfigMap, ResyncLink, Mirrored
<1>4. CASE CmrGet
  <2>1. AgreeOrPending'
    BY <1>4 DEF CmrGet, IInv, CopiesTell, AgreeOrPending, Mirrored, Importable, Idle
  <2>. QED
    BY <1>typed, <1>4, <2>1 DEF CmrGet, IInv, CopiesTell, OutdatedRequeued, BranchKnown,
       ReportedOrPending, Idle
<1>5. CASE CmrCreate
  <2>1. /\ cmw' = Idle /\ UNCHANGED <<cm, qdl, dlw>>
        /\ \/ dl' = dl /\ (qcm' \/ dl.obj = Absent) /\ (qcm => qcm')
           \/ dl'.fresh = {} /\ dl'.seen = dl.seen /\ qcm' = qcm
    BY <1>5, <1>b, <1>q DEF CmrCreate, CmrSyncs
  <2>. QED
    BY <1>typed, <2>1 DEF IInv, CopiesTell, OutdatedRequeued, BranchKnown, AgreeOrPending,
       ReportedOrPending, Mirrored, Idle
<1>6. CASE CmrLeave
  <2>1. AgreeOrPending'
    BY <1>6 DEF CmrLeave, CmrSyncs, IInv, CopiesTell, OutdatedRequeued, AgreeOrPending,
       Mirrored, ImportedSpec, Idle
  <2>. QED
    BY <1>typed, <1>6, <2>1 DEF CmrLeave, CmrSyncs, IInv, CopiesTell, OutdatedRequeued, BranchKnown, AgreeOrPending,
       ReportedOrPending, Idle
<1>7. CASE CmrUpdate
  <2>1. CASE Current(dl, "cache")
    <3>1. [dl.seen EXCEPT !.spec = ImportedSpec(cmw.copy)] # dl.obj
      <4>1. dl.seen = dl.obj /\ dl.obj \in DashboardLinks
        BY <1>7, <1>typed, <2>1 DEF Current, IInv, CopiesTell, CmrUpdate, TypeOK, ObjectType
      <4>. QED
        BY <1>7, <4>1 DEF CmrUpdate, DashboardLinks
    <3>2. dl'.fresh = {} /\ dl'.seen = dl.seen /\ cmw' = Idle /\ UNCHANGED <<cm, qcm, qdl, dlw>>
      BY <1>7, <1>b, <2>1, <3>1 DEF CmrUpdate, CmrSyncs
    <3>. QED
      BY <1>typed, <3>2 DEF IInv, CopiesTell, OutdatedRequeued, BranchKnown, AgreeOrPending,
       ReportedOrPending, Mirrored, Idle
  <2>2. CASE ~Current(dl, "cache")
    BY <1>typed, <1>7, <2>2 DEF CmrUpdate, CmrSyncs, IInv, CopiesTell, OutdatedRequeued, BranchKnown, AgreeOrPending,
       ReportedOrPending, Mirrored, Idle
  <2>. QED
    BY <2>1, <2>2
<1>8. CASE DlrGet
  <2>1. /\ dl'.obj = dl.obj /\ dl'.seen = dl.seen
        /\ Settled(dl)' <=> Settled(dl)
        /\ "dlr" \in dl'.fresh /\ dl' # dl => Settled(dl)
    BY <1>8, <1>a, ReadEffect DEF DlrGet
  <2>2. CASE Branch(dl.seen) = "idle"
    <3>1. dl.seen = Absent \/ dl.seen.del
      BY <2>2 DEF Branch
    <3>. QED
      BY <1>typed, <1>8, <2>2, <3>1 DEF DlrGet, IInv, CopiesTell, OutdatedRequeued, BranchKnown, AgreeOrPending,
       ReportedOrPending, Mirrored, Idle
  <2>3. CASE Branch(dl.seen) # "idle"
    <3>1. dlw' = [pc |-> Branch(dl.seen), copy |-> dl.seen] /\ dlw' # Idle /\ dlw = Idle
          /\ dl' = Fetch(dl, "dlr") /\ UNCHANGED <<cm, qcm, cmw>>
      BY <1>8, <2>3 DEF DlrGet, Idle
    <3>2. CopiesTell'
      BY <1>a, <3>1, ReadEffect DEF IInv, CopiesTell
    <3>3. BranchKnown'
      BY <3>1 DEF Branch, BranchKnown
    <3>4. AgreeOrPending'
      BY <2>1, <3>1 DEF Branch, IInv, CopiesTell, AgreeOrPending, Undecided, Mirrored
    <3>. QED
      BY <1>typed, <2>1, <3>1, <3>2, <3>3, <3>4 DEF IInv, OutdatedRequeued, ReportedOrPending
  <2>. QED
    BY <2>2, <2>3
<1>9. CASE DlrAddFinalizer
  <2>1. CASE Current(dl, "dlr")
    <3>1. dlw.copy = dl.obj /\ ~dl.obj.final /\ dl.obj \in DashboardLinks
      BY <1>9, <1>typed, <2>1 DEF Current, DlrAddFinalizer, DlrAt, IInv, CopiesTell, BranchKnown,
         TypeOK, ObjectType
    <3>2. [dlw.copy EXCEPT !.final = TRUE] # dl.obj
      BY <3>1 DEF DashboardLinks
    <3>3. Put(dl, [dlw.copy EXCEPT !.final = TRUE]) \in ObjectType(DashboardLinks, DLHolders)
      BY <1>a, <3>1, LinkEdits, ObjectOps DEF DLHolders
    <3>4. dlw' = Idle /\ UNCHANGED <<cm, qcm, cmw>> /\ qdl' = qdl
          /\ dl' = Release(Put(dl, [dlw.copy EXCEPT !.final = TRUE]), "dlr")
      BY <1>9, <1>q, <2>1 DEF DlrAddFinalizer, DlrAt, DlrReturn
    <3>5. dl'.fresh = {} /\ dl'.seen = dl.seen
      BY <1>b, <3>2, <3>3, <3>4, ReadEffect
    <3>. QED
      BY <1>typed, <3>4, <3>5 DEF IInv, CopiesTell, OutdatedRequeued, BranchKnown,
         AgreeOrPending, ReportedOrPending, Mirrored, Idle
  <2>2. CASE ~Current(dl, "dlr")
    BY <1>9, <2>2, <1>requeue DEF DlrAddFinalizer, DlrAt, DlrReturn
  <2>. QED
    BY <2>1, <2>2
<1>10. CASE DlrUnresolved
  <2>1. DlrAt("write") /\ DlrGoto("reject") /\ UNCHANGED <<cm, qcm>>
    BY <1>10 DEF DlrUnresolved
  <2>. QED
    BY <1>typed, <2>1, <1>goto DEF IInv, CopiesTell, OutdatedRequeued, BranchKnown,
       AgreeOrPending, ReportedOrPending, Undecided
<1>11. CASE DlrCreateConfigMap
  <2>1. CASE cm.obj = Absent
    <3>1. DlrAt("write") /\ DlrGoto("accept") /\ UNCHANGED qcm
          /\ cm'.seen = cm.seen /\ (cm' = cm \/ cm'.fresh = {})
      BY <1>11, <1>b, <2>1 DEF DlrCreateConfigMap
    <3>. QED
      BY <1>typed, <2>1, <3>1, <1>goto, <1>written DEF IInv, CopiesTell, OutdatedRequeued,
         AgreeOrPending, ReportedOrPending, Mirrored, Importable
  <2>2. CASE cm.obj # Absent
    <3>1. DlrAt("write") /\ DlrGoto("reject") /\ UNCHANGED <<cm, qcm>>
      BY <1>11, <2>2 DEF DlrCreateConfigMap
    <3>. QED
      BY <1>typed, <3>1, <1>goto DEF IInv, CopiesTell, OutdatedRequeued, BranchKnown,
         AgreeOrPending, ReportedOrPending, Undecided
  <2>. QED
    BY <2>1, <2>2
<1>12. CASE DlrLeaveConfigMap
  <2>1. DlrAt("write") /\ DlrGoto("accept") /\ UNCHANGED <<cm, qcm>>
        /\ cm.seen = ExportedConfigMap(dlw.copy)
    BY <1>12 DEF DlrLeaveConfigMap
  <2>2. AgreeOrPending'
    BY <2>1, <1>goto DEF IInv, CopiesTell, OutdatedRequeued, AgreeOrPending, Mirrored,
       ExportedConfigMap
  <2>. QED
    BY <1>typed, <2>1, <2>2, <1>goto, <1>written DEF IInv, CopiesTell, OutdatedRequeued,
       ReportedOrPending
<1>13. CASE DlrUpdateConfigMap
  <2>1. CASE Current(cm, "cache")
    <3>1. DlrAt("write") /\ DlrGoto("accept") /\ UNCHANGED qcm
          /\ cm'.seen = cm.seen /\ cm'.fresh = {}
      BY <1>13, <1>b, <2>1 DEF DlrUpdateConfigMap, Current, IInv, CopiesTell
    <3>. QED
      BY <1>typed, <3>1, <1>goto, <1>written DEF IInv, CopiesTell, OutdatedRequeued,
         AgreeOrPending, ReportedOrPending
  <2>2. CASE ~Current(cm, "cache")
    <3>1. DlrAt("write") /\ DlrGoto("reject") /\ UNCHANGED <<cm, qcm>>
      BY <1>13, <2>2 DEF DlrUpdateConfigMap
    <3>. QED
      BY <1>typed, <3>1, <1>goto DEF IInv, CopiesTell, OutdatedRequeued, BranchKnown,
         AgreeOrPending, ReportedOrPending, Undecided
  <2>. QED
    BY <2>1, <2>2
<1>14. CASE DlrAccept
  <2>1. CASE Current(dl, "cache") /\ WithStatus(dl.seen, "True") = dl.obj
    <3>1. dl' = Release(dl, "dlr") /\ dlw' = Idle /\ UNCHANGED <<cm, qcm, qdl, cmw>>
      BY <1>14, <1>b, <1>q, <2>1 DEF DlrAccept, DlrAt, DlrReturn
    <3>2. dl'.obj = dl.obj /\ dl'.seen = dl.seen /\ dl'.fresh = dl.fresh \ {"dlr"}
      BY <1>a, <3>1, ReadEffect
    <3>3. ReportedOrPending'
      <4>1. dlw # Idle /\ dlw.pc = "accept"
        BY <1>14 DEF DlrAccept, DlrAt, Idle
      <4>2. dl.obj.ready = "True" /\ dl.obj.observed = dl.obj.spec
        BY <2>1 DEF WithStatus, Current, IInv, CopiesTell
      <4>. QED
        BY <2>1, <3>1, <3>2, <4>1, <4>2 DEF Current, IInv, CopiesTell, OutdatedRequeued,
           BranchKnown, ReportedOrPending
    <3>4. AgreeOrPending'
      BY <1>14, <3>1, <3>2 DEF DlrAccept, DlrAt, IInv, AgreeOrPending, Undecided, Mirrored
    <3>. QED
      BY <1>typed, <3>1, <3>2, <3>3, <3>4 DEF IInv, CopiesTell, OutdatedRequeued, BranchKnown,
         Idle
  <2>2. CASE Current(dl, "cache") /\ WithStatus(dl.seen, "True") # dl.obj
    <3>1. dl' = Release(Put(dl, WithStatus(dl.seen, "True")), "dlr")
      BY <1>14, <2>2 DEF DlrAccept, DlrReturn
    <3>. QED
      BY <1>14, <1>q, <1>status, <2>2, <3>1 DEF DlrAccept, DlrAt, DlrReturn
  <2>3. CASE ~Current(dl, "cache")
    BY <1>14, <2>3, <1>requeue DEF DlrAccept, DlrAt, DlrReturn
  <2>. QED
    BY <2>1, <2>2, <2>3
<1>15. CASE DlrReject
  <2>1. CASE Current(dl, "cache") /\ WithStatus(dl.seen, "False") # dl.obj
    BY <1>15, <1>status, <2>1 DEF DlrReject, DlrAt
  <2>2. CASE ~(Current(dl, "cache") /\ WithStatus(dl.seen, "False") # dl.obj)
    BY <1>15, <1>b, <2>2, <1>requeue DEF DlrReject, DlrAt
  <2>. QED
    BY <2>1, <2>2
<1>16. CASE DlrDrop
  <2>1. PICK p \in {"delete", "release"} : DlrGoto(p)
    BY <1>16 DEF DlrDrop
  <2>2. DlrAt("drop") /\ UNCHANGED <<cm, qcm>>
    BY <1>16 DEF DlrDrop
  <2>. QED
    BY <1>typed, <2>1, <2>2, <1>goto DEF IInv, CopiesTell, OutdatedRequeued, BranchKnown,
       AgreeOrPending, ReportedOrPending, Undecided, Mirrored
<1>17. CASE DlrDelete
  <2>1. DlrAt("delete") /\ DlrGoto("release") /\ UNCHANGED qcm
        /\ cm'.seen = cm.seen /\ cm'.obj = Absent /\ (cm' = cm \/ cm'.fresh = {})
    BY <1>17, <1>b DEF DlrDelete
  <2>. QED
    BY <1>typed, <2>1, <1>goto DEF IInv, CopiesTell, OutdatedRequeued, BranchKnown,
       AgreeOrPending, ReportedOrPending, Mirrored, Importable
<1>18. CASE DlrRelease
  <2>1. CASE Current(dl, "dlr")
    <3>1. dl' = Release(Put(dl, Absent), "dlr") /\ dlw' = Idle /\ UNCHANGED <<cm, qcm, cmw>>
          /\ qdl' = qdl
      BY <1>18, <1>q, <2>1 DEF DlrRelease, DlrAt, DlrReturn
    <3>2. dl'.fresh = {} /\ dl'.seen = dl.seen
      BY <1>a, <1>b, <2>1, <3>1, ObjectOps, ReadEffect DEF Current, DLHolders
    <3>. QED
      BY <1>typed, <3>1, <3>2 DEF IInv, CopiesTell, OutdatedRequeued, BranchKnown,
         AgreeOrPending, ReportedOrPending, Mirrored, Idle
  <2>2. CASE ~Current(dl, "dlr")
    BY <1>18, <2>2, <1>requeue DEF DlrRelease, DlrAt, DlrReturn
  <2>. QED
    BY <2>1, <2>2
<1>19. CASE UserPutsConfigMap \/ UserDeletesConfigMap
  <2>1. cm'.fresh = {} /\ cm'.seen = cm.seen /\ UNCHANGED <<dl, qcm, qdl, cmw, dlw>>
    BY <1>19, <1>b DEF UserPutsConfigMap, UserDeletesConfigMap, UserWrites
  <2>. QED
    BY <1>typed, <2>1 DEF IInv, CopiesTell, OutdatedRequeued, BranchKnown,
       AgreeOrPending, ReportedOrPending
<1>20. CASE UserCreatesLink \/ UserEditsLink \/ UserAdoptsLink \/ UserDeletesLink
  <2>0. PICK b : UserWritesLink(b)
    BY <1>20, Zenon DEF UserCreatesLink, UserEditsLink, UserAdoptsLink, UserDeletesLink
  <2>1. dl'.fresh = {} /\ dl'.seen = dl.seen /\ UNCHANGED <<cm, qcm, qdl, cmw, dlw>>
    BY <2>0, <1>b DEF UserWritesLink
  <2>. QED
    BY <1>typed, <2>1 DEF IInv, CopiesTell, OutdatedRequeued, BranchKnown,
       AgreeOrPending, ReportedOrPending
<1>21. CASE CmrApiError
  BY <1>typed, <1>21 DEF CmrApiError, IInv, CopiesTell, OutdatedRequeued, BranchKnown,
     AgreeOrPending, ReportedOrPending
<1>22. CASE DlrApiError
  <2>1. CASE dlw.pc \in {"write", "drop", "delete"}
    <3>1. dlw'.pc = "reject" /\ dlw'.copy = dlw.copy /\ dlw # Idle /\ dlw' # Idle
          /\ UNCHANGED <<cm, dl, qcm, qdl, cmw>>
      BY <1>22, <1>typed, <2>1 DEF DlrApiError, DlrGoto, TypeOK, Idle
    <3>. QED
      BY <1>typed, <3>1 DEF IInv, CopiesTell, OutdatedRequeued, BranchKnown,
         AgreeOrPending, ReportedOrPending, Undecided
  <2>2. CASE dlw.pc \notin {"write", "drop", "delete"}
    BY <1>22, <2>2, <1>requeue DEF DlrApiError, DlrReturn
  <2>. QED
    BY <2>1, <2>2
<1>23. CASE Restart
  <2>1. cm'.obj = cm.obj /\ cm'.seen = cm.obj /\ dl'.obj = dl.obj /\ dl'.seen = dl.obj
        /\ dl'.fresh = {"cache"} /\ cmw' = Idle /\ dlw' = Idle /\ qdl' = (dl.obj # Absent)
    BY <1>23 DEF Restart, Listed
  <2>. QED
    BY <1>typed, <2>1 DEF IInv, CopiesTell, OutdatedRequeued, BranchKnown,
       AgreeOrPending, ReportedOrPending, Mirrored, Idle
<1>24. CASE UNCHANGED vars
  BY <1>typed, <1>24 DEF vars, IInv, CopiesTell, OutdatedRequeued, BranchKnown, AgreeOrPending,
     ReportedOrPending, Mirrored
<1>. QED
  BY <1>1, <1>2, <1>3, <1>4, <1>5, <1>6, <1>7, <1>8, <1>9, <1>10, <1>11, <1>12, <1>13, <1>14,
     <1>15, <1>16, <1>17, <1>18, <1>19, <1>20, <1>21, <1>22, <1>23, <1>24
  DEF Next, Cmr, Dlr, Environment

----------------------------------------------------------------------------
\* The strengthened invariant holds in every reachable state.
THEOREM Strengthened == Spec => []IInv
BY InitStrong, StepStrong, PTL DEF Spec

\* Every variable keeps the kind of value the code gives it.
THEOREM TypeCorrect == Spec => []TypeOK
<1>1. IInv => TypeOK
  BY DEF IInv
<1>. QED
  BY <1>1, Strengthened, PTL

\* Whatever interleaving of CMR, DLR, users and restarts led there: when nothing
\* is queued or under way, an imported link and its ConfigMap say the same.
THEOREM AgreementWhenQuiescent == Spec => []QuiescentAgree
<1>1. IInv => QuiescentAgree
  BY DEF IInv, AgreeOrPending, QuiescentAgree, Quiescent, Undecided, Idle
<1>. QED
  BY <1>1, Strengthened, PTL

\* ... and the link has its finalizer and a Ready status about its current spec.
THEOREM ReportWhenQuiescent == Spec => []QuiescentReported
<1>1. IInv => QuiescentReported
  BY DEF IInv, ReportedOrPending, QuiescentReported, Quiescent
<1>. QED
  BY <1>1, Strengthened, PTL

----------------------------------------------------------------------------
(* What a step makes of the link on the server *)

OperatorWrites(b) ==
  \/ dl.obj = Absent /\ \E s \in Specs : b = NewLink(s, TRUE)
  \/ dl.obj # Absent /\ dl.obj.imported /\ \E s \in Specs : b = [dl.obj EXCEPT !.spec = s]
  \/ dl.obj # Absent /\ ~dl.obj.final /\ b = [dl.obj EXCEPT !.final = TRUE]
  \/ dl.obj # Absent /\ \E r \in {"True", "False"} : b = WithStatus(dl.obj, r)
  \/ dl.obj # Absent /\ dl.obj.del /\ b = Absent

UsersWrite(b) ==
  \/ dl.obj = Absent /\ \E s \in Specs : b = NewLink(s, FALSE)
  \/ dl.obj # Absent /\ \E s \in Specs : b = [dl.obj EXCEPT !.spec = s]
  \/ dl.obj # Absent /\ b = [dl.obj EXCEPT !.imported = FALSE]
  \/ dl.obj # Absent /\ dl.obj.final /\ b = [dl.obj EXCEPT !.del = TRUE]
  \/ dl.obj # Absent /\ ~dl.obj.final /\ b = Absent

\* A copy that the server accepts is the link that it has: nothing is written over
\* an edit that the writer has not seen.
LEMMA LinkSteps ==
  ASSUME IInv, Next
  PROVE  \/ budget' = budget /\ (dl'.obj = dl.obj \/ OperatorWrites(dl'.obj))
         \/ Disturb /\ (dl'.obj = dl.obj \/ UsersWrite(dl'.obj))
<1>a. /\ dl \in ObjectType(DashboardLinks, DLHolders)
      /\ dl.seen \in DashboardLinks \cup {Absent} /\ dl.obj \in DashboardLinks \cup {Absent}
  BY DEF IInv, TypeOK, DLHolders, ObjectType
<1>b. \A b : Put(dl, b).obj = b /\ Release(Put(dl, b), "dlr").obj = b
  BY DEF Put, Release
<1>c. /\ Release(dl, "dlr").obj = dl.obj /\ Fetch(dl, "dlr").obj = dl.obj
      /\ Deliver(dl).obj = dl.obj
  BY <1>a, ReadEffect
<1>1. CASE DeliverConfigMap \/ DeliverLink \/ ResyncConfigMap \/ ResyncLink
  BY <1>1, <1>c DEF DeliverConfigMap, DeliverLink, ResyncConfigMap, ResyncLink
<1>2. CASE CmrGet \/ CmrLeave
  BY <1>2 DEF CmrGet, CmrLeave, CmrSyncs
<1>3. CASE CmrCreate \/ CmrUpdate
  <2>1. ImportedSpec(cmw.copy) \in Specs
    <3>1. cmw.copy \in ConfigMaps
      <4>1. cmw.pc = "sync"
        BY <1>3 DEF CmrCreate, CmrUpdate, CmrSyncs
      <4>. QED
        BY <4>1 DEF IInv, TypeOK, Idle
    <3>. QED
      BY <3>1, WrittenBodies
  <2>2. CASE CmrCreate
    BY <2>1, <2>2, <1>b DEF CmrCreate, CmrSyncs, OperatorWrites
  <2>3. CASE CmrUpdate /\ Current(dl, "cache")
    <3>1. dl.seen = dl.obj /\ dl.obj # Absent /\ budget' = budget
      BY <2>3 DEF CmrUpdate, CmrSyncs, Current, IInv, CopiesTell, Settled
    <3>2. dl.obj.imported /\ dl'.obj = [dl.obj EXCEPT !.spec = ImportedSpec(cmw.copy)]
      BY <2>3, <3>1, <1>b DEF CmrUpdate
    <3>. QED
      BY <2>1, <3>1, <3>2 DEF OperatorWrites
  <2>4. CASE CmrUpdate /\ ~Current(dl, "cache")
    BY <2>4 DEF CmrUpdate, CmrSyncs
  <2>. QED
    BY <1>3, <2>2, <2>3, <2>4
<1>4. CASE DlrGet
  BY <1>4, <1>c DEF DlrGet
<1>5. CASE DlrAddFinalizer \/ DlrRelease
  <2>1. CASE Current(dl, "dlr")
    <3>1. dlw.copy = dl.obj /\ dl.obj # Absent
      BY <2>1 DEF Current, IInv, CopiesTell
    <3>2. \/ ~dl.obj.final /\ dl'.obj = [dl.obj EXCEPT !.final = TRUE]
          \/ dl.obj.del /\ dl'.obj = Absent
      BY <1>5, <1>b, <2>1, <3>1 DEF DlrAddFinalizer, DlrRelease, DlrReturn, DlrAt, IInv, BranchKnown
    <3>. QED
      BY <1>5, <3>1, <3>2 DEF DlrAddFinalizer, DlrRelease, DlrAt, OperatorWrites
  <2>2. CASE ~Current(dl, "dlr")
    BY <1>5, <1>c, <2>2 DEF DlrAddFinalizer, DlrRelease, DlrReturn, DlrAt
  <2>. QED
    BY <2>1, <2>2
<1>6. CASE \/ DlrUnresolved \/ DlrCreateConfigMap \/ DlrLeaveConfigMap \/ DlrUpdateConfigMap
           \/ DlrDrop \/ DlrDelete
  BY <1>6 DEF DlrUnresolved, DlrCreateConfigMap, DlrLeaveConfigMap, DlrUpdateConfigMap,
     DlrDrop, DlrDelete, DlrGoto, DlrAt
<1>7. CASE DlrAccept \/ DlrReject
  <2>1. CASE Current(dl, "cache")
    <3>1. dl.seen = dl.obj /\ dl.obj # Absent
      BY <2>1 DEF Current, IInv, CopiesTell, Settled
    <3>2. \E r \in {"True", "False"} : dl'.obj = WithStatus(dl.obj, r)
      BY <1>7, <1>b, <2>1, <3>1 DEF DlrAccept, DlrReject, DlrReturn
    <3>. QED
      BY <1>7, <3>1, <3>2 DEF DlrAccept, DlrReject, DlrAt, OperatorWrites
  <2>2. CASE ~Current(dl, "cache")
    BY <1>7, <1>c, <2>2 DEF DlrAccept, DlrReject, DlrReturn, DlrAt
  <2>. QED
    BY <2>1, <2>2
<1>8. CASE UserPutsConfigMap \/ UserDeletesConfigMap \/ CmrApiError \/ Restart
  BY <1>8 DEF UserPutsConfigMap, UserDeletesConfigMap, UserWrites, CmrApiError, Restart, Listed, Disturb
<1>9. CASE DlrApiError
  BY <1>9, <1>c DEF DlrApiError, DlrGoto, DlrReturn, Disturb
<1>10. CASE UserCreatesLink \/ UserEditsLink \/ UserAdoptsLink \/ UserDeletesLink
  <2>1. PICK b : UserWritesLink(b) /\ UsersWrite(b)
    BY <1>10 DEF UserCreatesLink, UserEditsLink, UserAdoptsLink, UserDeletesLink, UsersWrite
  <2>. QED
    BY <2>1, <1>b DEF UserWritesLink
<1>. QED
  BY <1>1, <1>2, <1>3, <1>4, <1>5, <1>6, <1>7, <1>8, <1>9, <1>10 DEF Next, Cmr, Dlr, Environment

\* A link that is a user's own is never edited, imported or removed by a step of
\* the operator, however outdated the copy is that the importer decided on.
THEOREM UserLinksKept == Spec => UserLinkKept
<1>. DEFINE Keeps ==
       OperatorStep /\ dl.obj # Absent /\ ~dl.obj.imported /\ ~dl.obj.del =>
         dl'.obj # Absent /\ dl'.obj.spec = dl.obj.spec /\ ~dl'.obj.imported
<1>1. IInv /\ [Next]_vars => [Keeps]_vars
  <2>. SUFFICES ASSUME IInv, Next, OperatorStep, dl.obj # Absent, ~dl.obj.imported, ~dl.obj.del
                PROVE  dl'.obj # Absent /\ dl'.obj.spec = dl.obj.spec /\ ~dl'.obj.imported
    OBVIOUS
  <2>1. dl.obj \in DashboardLinks /\ budget \in Nat
    BY DisturbancesAssumption DEF IInv, TypeOK, ObjectType
  <2>2. dl'.obj = dl.obj \/ OperatorWrites(dl'.obj)
    BY <2>1, LinkSteps DEF OperatorStep, Disturb
  <2>3. CASE dl'.obj = [dl.obj EXCEPT !.final = TRUE]
    <3>1. dl'.obj \in DashboardLinks
      BY <2>1, <2>3, LinkEdits
    <3>. QED
      BY <2>1, <2>3, <3>1, AbsentAssumption DEF DashboardLinks
  <2>4. CASE \E r \in {"True", "False"} : dl'.obj = WithStatus(dl.obj, r)
    <3>1. dl'.obj \in DashboardLinks
      BY <2>1, <2>4, LinkEdits
    <3>. QED
      BY <2>4, <3>1, AbsentAssumption DEF WithStatus
  <2>. QED
    BY <2>2, <2>3, <2>4 DEF OperatorWrites
<1>. QED
  BY <1>1, Strengthened, PTL DEF Spec, UserLinkKept

----------------------------------------------------------------------------
(* The link on the server has the lifecycle of LinkLifecycle *)

\* The server marks an object for deletion only while it has a finalizer.
MarkedIsFinal == dl.obj # Absent /\ dl.obj.del => dl.obj.final

LEMMA MarkedStep == IInv /\ MarkedIsFinal /\ [Next]_vars => MarkedIsFinal'
<1>. SUFFICES ASSUME IInv, MarkedIsFinal, Next, dl'.obj # dl.obj, dl'.obj # Absent
              PROVE  dl'.obj.del => dl'.obj.final
  BY DEF MarkedIsFinal, vars
<1>1. dl.obj # Absent =>
        dl.obj = [spec |-> dl.obj.spec, imported |-> dl.obj.imported, final |-> dl.obj.final,
                  del |-> dl.obj.del, ready |-> dl.obj.ready, observed |-> dl.obj.observed]
  BY DEF IInv, TypeOK, ObjectType, DashboardLinks
<1>2. OperatorWrites(dl'.obj) \/ UsersWrite(dl'.obj)
  BY LinkSteps
<1>3. CASE \E s \in Specs, i \in BOOLEAN : dl'.obj = NewLink(s, i)
  BY <1>3 DEF NewLink
<1>4. CASE \E s \in Specs : dl'.obj = [dl.obj EXCEPT !.spec = s] /\ dl.obj # Absent
  BY <1>1, <1>4 DEF MarkedIsFinal
<1>5. CASE dl'.obj = [dl.obj EXCEPT !.final = TRUE] /\ dl.obj # Absent
  BY <1>1, <1>5
<1>6. CASE \E r \in {"True", "False"} : dl'.obj = WithStatus(dl.obj, r) /\ dl.obj # Absent
  BY <1>6 DEF WithStatus, MarkedIsFinal
<1>7. CASE dl'.obj = [dl.obj EXCEPT !.imported = FALSE] /\ dl.obj # Absent
  BY <1>1, <1>7 DEF MarkedIsFinal
<1>8. CASE dl'.obj = [dl.obj EXCEPT !.del = TRUE] /\ dl.obj # Absent /\ dl.obj.final
  BY <1>1, <1>8
<1>. QED
  BY <1>2, <1>3, <1>4, <1>5, <1>6, <1>7, <1>8 DEF OperatorWrites, UsersWrite

\* The link as a user sees it.
LinkAs(l) ==
  IF l = Absent THEN [phase |-> "absent", content |-> Absent, imported |-> FALSE]
  ELSE [phase |-> PhaseOf(l), content |-> l.spec, imported |-> l.imported]
Seen == [k \in {"link"} |-> LinkAs(dl.obj)]

\* A link that is adopted says what it said, but for its origin.
LEMMA DisownedIs ==
  ASSUME NEW l, NEW p, NEW c, NEW i \in BOOLEAN,
         l = [phase |-> p, content |-> c, imported |-> i]
  PROVE  [l EXCEPT !.imported = FALSE] = [phase |-> p, content |-> c, imported |-> FALSE]
<1>1. PICK j \in BOOLEAN : j = FALSE
  OBVIOUS
<1>2. [l EXCEPT !.imported = j] = [phase |-> p, content |-> c, imported |-> j]
  OBVIOUS
<1>. QED
  BY <1>1, <1>2, Zenon

\* What a write of the link has to show for each step of the lifecycle.
LEMMA LifecycleStep ==
  ASSUME IInv, MarkedIsFinal, Next
  PROVE  Lifecycle!Next \/ UNCHANGED <<Seen, budget>>
<1>. DEFINE Turns(b) == Seen' = [Seen EXCEPT !["link"] = b]
            Old == LinkAs(dl.obj)
            Out == [phase |-> "absent", content |-> Absent, imported |-> FALSE]
<1>a. /\ Seen["link"] = Old
      /\ dl.obj \in DashboardLinks \cup {Absent}
      /\ \A b : dl'.obj = b => Turns(LinkAs(b))
  BY DEF IInv, TypeOK, ObjectType, Seen
<1>b. /\ dl.obj = Absent => Old = Out
      /\ dl.obj # Absent =>
           Old = [phase |-> PhaseOf(dl.obj), content |-> dl.obj.spec, imported |-> dl.obj.imported]
      /\ LinkAs(Absent) = Out
  BY DEF LinkAs
<1>c. ASSUME NEW b \in DashboardLinks
      PROVE  LinkAs(b) = [phase |-> PhaseOf(b), content |-> b.spec, imported |-> b.imported]
  BY AbsentAssumption DEF LinkAs
<1>create. ASSUME dl.obj = Absent, NEW s \in Specs, NEW i \in BOOLEAN, dl'.obj = NewLink(s, i)
           PROVE  Turns([phase |-> "new", content |-> s, imported |-> i])
  <2>1. NewLink(s, i) \in DashboardLinks
    BY DEF NewLink, DashboardLinks
  <2>2. LinkAs(NewLink(s, i)) = [phase |-> "new", content |-> s, imported |-> i]
    BY <2>1, <1>c, AbsentAssumption DEF PhaseOf, NewLink
  <2>. QED
    BY <1>create, <1>a, <2>2
<1>edit. ASSUME dl.obj # Absent, NEW s \in Specs, dl'.obj = [dl.obj EXCEPT !.spec = s]
         PROVE  Turns([Old EXCEPT !.content = s])
  <2>1. dl'.obj \in DashboardLinks /\ dl'.obj # Absent
    BY <1>edit, <1>a, LinkEdits, AbsentAssumption
  <2>2. /\ PhaseOf(dl'.obj) = PhaseOf(dl.obj)
        /\ dl'.obj.spec = s /\ dl'.obj.imported = dl.obj.imported
    BY <1>edit, <1>a, <2>1 DEF PhaseOf, DashboardLinks
  <2>3. LinkAs(dl'.obj) =
          [phase |-> PhaseOf(dl'.obj), content |-> dl'.obj.spec, imported |-> dl'.obj.imported]
    BY <1>c, <2>1
  <2>4. LinkAs(dl'.obj) = [Old EXCEPT !.content = s]
    BY <1>edit, <1>b, <2>2, <2>3
  <2>. QED
    BY <1>a, <2>4
<1>out. ASSUME dl'.obj = Absent PROVE Turns(Out)
  BY <1>out, <1>a, <1>b
<1>edits. ASSUME dl.obj # Absent, NEW b,
                 \/ b = [dl.obj EXCEPT !.final = TRUE]
                 \/ b = [dl.obj EXCEPT !.imported = FALSE]
                 \/ b = [dl.obj EXCEPT !.del = TRUE]
                 \/ \E r \in {"True", "False"} : b = WithStatus(dl.obj, r)
          PROVE  b \in DashboardLinks /\ b # Absent /\ b.spec = dl.obj.spec
  <2>1. b \in DashboardLinks
    BY <1>edits, <1>a, LinkEdits
  <2>. QED
    BY <1>edits, <1>a, <2>1, AbsentAssumption DEF WithStatus, DashboardLinks
<1>note. ASSUME dl.obj # Absent, NEW b \in DashboardLinks, dl'.obj = b,
                b.spec = dl.obj.spec, b.imported = dl.obj.imported
         PROVE  Turns([Old EXCEPT !.phase = PhaseOf(b)])
  <2>1. LinkAs(b) = [phase |-> PhaseOf(b), content |-> b.spec, imported |-> b.imported]
    BY <1>c
  <2>2. LinkAs(b) = [Old EXCEPT !.phase = PhaseOf(b)]
    BY <1>note, <1>b, <2>1
  <2>. QED
    BY <1>note, <1>a, <2>2
<1>becomes. \A b : Turns(b) => Lifecycle!Becomes("link", b)
  BY DEF Lifecycle!Becomes, Seen, LinkAs
<1>is. \A P : Old.phase \in P => Lifecycle!Is("link", P)
  BY <1>a DEF Lifecycle!Is, Seen, LinkAs
<1>says. \A s \in Specs : Turns([Old EXCEPT !.content = s]) => Lifecycle!Says("link")
  BY <1>a, <1>becomes DEF Lifecycle!Says, Seen, LinkAs
<1>new. \A s \in Specs, i \in BOOLEAN :
          Lifecycle!New(s, i) = [phase |-> "new", content |-> s, imported |-> i]
  BY DEF Lifecycle!New
<1>gone. Lifecycle!Gone = Out
  BY DEF Lifecycle!Gone
<1>1. CASE dl'.obj = dl.obj
  <2>1. UNCHANGED Seen
    BY <1>1 DEF Seen
  <2>2. budget' = budget \/ Disturb
    BY LinkSteps
  <2>. QED
    BY <2>1, <2>2 DEF Disturb, Lifecycle!Next, Lifecycle!Users, Seen, LinkAs
<1>2. CASE budget' = budget /\ OperatorWrites(dl'.obj)
  <2>. SUFFICES Lifecycle!Import("link") \/ Lifecycle!Refresh("link") \/ Lifecycle!Finalize("link")
                \/ Lifecycle!Remove("link") \/ UNCHANGED Seen
    BY <1>2, Zenon DEF Lifecycle!Next, Lifecycle!Operator, Seen, LinkAs
  <2>1. CASE dl.obj = Absent /\ \E s \in Specs : dl'.obj = NewLink(s, TRUE)
    <3>1. PICK s \in Specs : Turns([phase |-> "new", content |-> s, imported |-> TRUE])
      BY <2>1, <1>create
    <3>2. Lifecycle!Becomes("link", Lifecycle!New(s, TRUE))
      <4>1. Lifecycle!New(s, TRUE) = [phase |-> "new", content |-> s, imported |-> TRUE]
        BY <1>new
      <4>2. Turns(Lifecycle!New(s, TRUE))
        BY <3>1, <4>1
      <4>. QED
        BY <4>2, <1>becomes
    <3>3. Lifecycle!Is("link", {"absent"})
      BY <2>1, <1>b, <1>is
    <3>. QED
      BY <3>2, <3>3 DEF Lifecycle!Import
  <2>2. CASE dl.obj # Absent /\ dl.obj.imported
             /\ \E s \in Specs : dl'.obj = [dl.obj EXCEPT !.spec = s]
    <3>1. Lifecycle!Is("link", Lifecycle!There)
      BY <2>2, <1>b, <1>is DEF Lifecycle!There, PhaseOf
    <3>2. Lifecycle!Says("link")
      BY <2>2, <1>edit, <1>says
    <3>. QED
      BY <2>2, <3>1, <3>2, <1>a, <1>b DEF Lifecycle!Refresh, Seen, LinkAs
  <2>3. CASE dl.obj # Absent /\ ~dl.obj.final /\ dl'.obj = [dl.obj EXCEPT !.final = TRUE]
    <3>1. /\ dl'.obj \in DashboardLinks
          /\ dl'.obj.spec = dl.obj.spec /\ dl'.obj.imported = dl.obj.imported
          /\ PhaseOf(dl.obj) = "new" /\ PhaseOf(dl'.obj) = "kept"
      BY <2>3, <1>a, <1>edits DEF MarkedIsFinal, PhaseOf, DashboardLinks
    <3>2. Turns([Old EXCEPT !.phase = "kept"]) /\ Old.phase = "new"
      <4>1. Turns([Old EXCEPT !.phase = PhaseOf(dl'.obj)])
        BY <2>3, <3>1, <1>note
      <4>2. Old.phase = PhaseOf(dl.obj)
        BY <2>3, <1>b
      <4>. HIDE DEF Turns, Old
      <4>. QED
        BY <4>1, <4>2, <3>1
    <3>3. Lifecycle!Is("link", {"new"})
      BY <3>2, <1>is
    <3>. QED
      BY <3>2, <3>3, <1>a, <1>becomes DEF Lifecycle!Finalize, Seen, LinkAs
  <2>4. CASE dl.obj # Absent /\ \E r \in {"True", "False"} : dl'.obj = WithStatus(dl.obj, r)
    <3>1. /\ dl'.obj \in DashboardLinks
          /\ dl'.obj.spec = dl.obj.spec /\ dl'.obj.imported = dl.obj.imported
          /\ dl'.obj.final = dl.obj.final /\ dl'.obj.del = dl.obj.del
      BY <2>4, <1>edits DEF WithStatus
    <3>2. PhaseOf(dl'.obj) = PhaseOf(dl.obj) /\ dl'.obj # Absent
      BY <2>4, <3>1, AbsentAssumption DEF PhaseOf
    <3>. QED
      BY <2>4, <3>1, <3>2 DEF Seen, LinkAs
  <2>5. CASE dl.obj # Absent /\ dl.obj.del /\ dl'.obj = Absent
    <3>1. Old.phase = "going" /\ Turns(Out)
      BY <2>5, <1>b, <1>out DEF PhaseOf
    <3>. QED
      BY <3>1, <1>is, <1>becomes, <1>gone DEF Lifecycle!Remove
  <2>. QED
    BY <1>2, <2>1, <2>2, <2>3, <2>4, <2>5 DEF OperatorWrites
<1>3. CASE Disturb /\ UsersWrite(dl'.obj)
  <2>. SUFFICES Lifecycle!Create("link") \/ Lifecycle!Edit("link") \/ Lifecycle!Adopt("link")
                \/ Lifecycle!Erase("link") \/ UNCHANGED Seen
    BY <1>3, Zenon DEF Disturb, Lifecycle!Next, Lifecycle!Users, Seen, LinkAs
  <2>1. CASE dl.obj = Absent /\ \E s \in Specs : dl'.obj = NewLink(s, FALSE)
    <3>1. PICK s \in Specs : Turns([phase |-> "new", content |-> s, imported |-> FALSE])
      BY <2>1, <1>create
    <3>2. Lifecycle!Becomes("link", Lifecycle!New(s, FALSE))
      <4>1. Lifecycle!New(s, FALSE) = [phase |-> "new", content |-> s, imported |-> FALSE]
        BY <1>new
      <4>2. Turns(Lifecycle!New(s, FALSE))
        BY <3>1, <4>1
      <4>. QED
        BY <4>2, <1>becomes
    <3>3. Lifecycle!Is("link", {"absent"})
      BY <2>1, <1>b, <1>is
    <3>. QED
      BY <3>2, <3>3 DEF Lifecycle!Create
  <2>2. CASE dl.obj # Absent /\ \E s \in Specs : dl'.obj = [dl.obj EXCEPT !.spec = s]
    <3>1. Lifecycle!Is("link", Lifecycle!There)
      BY <2>2, <1>b, <1>is DEF Lifecycle!There, PhaseOf
    <3>2. Lifecycle!Says("link")
      BY <2>2, <1>edit, <1>says
    <3>. QED
      BY <3>1, <3>2 DEF Lifecycle!Edit
  <2>3. CASE dl.obj # Absent /\ dl'.obj = [dl.obj EXCEPT !.imported = FALSE]
    <3>1. /\ dl'.obj \in DashboardLinks /\ dl'.obj # Absent
          /\ PhaseOf(dl'.obj) = PhaseOf(dl.obj)
          /\ dl'.obj.spec = dl.obj.spec /\ dl'.obj.imported = FALSE
      BY <2>3, <1>a, <1>edits DEF PhaseOf, DashboardLinks
    <3>2. LinkAs(dl'.obj) = [Old EXCEPT !.imported = FALSE]
      <4>1. LinkAs(dl'.obj) =
              [phase |-> PhaseOf(dl'.obj), content |-> dl'.obj.spec, imported |-> dl'.obj.imported]
        BY <3>1, <1>c
      <4>2. Old = [phase |-> PhaseOf(dl.obj), content |-> dl.obj.spec, imported |-> dl.obj.imported]
        BY <2>3, <1>b
      <4>3. LinkAs(dl'.obj) = [phase |-> PhaseOf(dl.obj), content |-> dl.obj.spec, imported |-> FALSE]
        BY <3>1, <4>1, Zenon
      <4>4. dl.obj.imported \in BOOLEAN
        BY <2>3, <1>a DEF DashboardLinks
      <4>. HIDE DEF Old
      <4>. QED
        BY <4>2, <4>3, <4>4, DisownedIs
    <3>3. Lifecycle!Is("link", Lifecycle!There)
      BY <2>3, <1>b, <1>is DEF Lifecycle!There, PhaseOf
    <3>. QED
      BY <3>2, <3>3, <1>a, <1>becomes DEF Lifecycle!Adopt, Seen, LinkAs
  <2>4. CASE dl.obj # Absent /\ dl.obj.final /\ dl'.obj = [dl.obj EXCEPT !.del = TRUE]
    <3>1. /\ dl'.obj \in DashboardLinks
          /\ dl'.obj.spec = dl.obj.spec /\ dl'.obj.imported = dl.obj.imported
          /\ PhaseOf(dl'.obj) = "going"
          /\ PhaseOf(dl.obj) \in {"kept", "going"}
      BY <2>4, <1>a, <1>edits DEF PhaseOf, DashboardLinks
    <3>2. Turns([Old EXCEPT !.phase = "going"])
      BY <2>4, <3>1, <1>note
    <3>3. CASE PhaseOf(dl.obj) = "kept"
      <4>1. Lifecycle!Is("link", {"kept"})
        BY <2>4, <3>3, <1>b, <1>is
      <4>. QED
        BY <4>1, <3>2, <1>a, <1>becomes DEF Lifecycle!Erase, Seen, LinkAs
    <3>4. CASE PhaseOf(dl.obj) = "going"
      <4>1. LinkAs(dl'.obj) = Old
        BY <2>4, <3>1, <3>4, <1>b, <1>c
      <4>. QED
        BY <4>1 DEF Seen
    <3>. QED
      BY <3>1, <3>3, <3>4
  <2>5. CASE dl.obj # Absent /\ ~dl.obj.final /\ dl'.obj = Absent
    <3>1. Old.phase = "new" /\ Turns(Out)
      BY <2>5, <1>b, <1>out DEF PhaseOf, MarkedIsFinal
    <3>. QED
      BY <3>1, <1>is, <1>becomes, <1>gone DEF Lifecycle!Erase
  <2>. QED
    BY <1>3, <2>1, <2>2, <2>3, <2>4, <2>5 DEF UsersWrite
<1>. QED
  BY <1>1, <1>2, <1>3, LinkSteps

\* Caches, copies, queues, refused writes and restarts all hide behind it: the link
\* on the server lives the life that LinkLifecycle gives it, and no other.
THEOREM LinkHasLifecycle == Spec => HasLifecycle
<1>1. Init => Lifecycle!Init /\ MarkedIsFinal
  BY DisturbancesAssumption DEF Init, Listed, Lifecycle!Init, Lifecycle!Gone, MarkedIsFinal
<1>2. Spec => []MarkedIsFinal
  BY <1>1, MarkedStep, Strengthened, PTL DEF Spec
<1>3. ASSUME IInv, MarkedIsFinal, [Next]_vars
      PROVE  [Lifecycle!Next]_<<[k \in {"link"} |->
                IF dl.obj = Absent
                  THEN [phase |-> "absent", content |-> Absent, imported |-> FALSE]
                  ELSE [phase |-> PhaseOf(dl.obj), content |-> dl.obj.spec,
                        imported |-> dl.obj.imported]], budget>>
  <2>1. CASE UNCHANGED vars
    BY <2>1 DEF vars, PhaseOf
  <2>2. CASE Next
    BY <1>3, <2>2, LifecycleStep DEF Seen, LinkAs
  <2>. QED
    BY <1>3, <2>1, <2>2
<1>. QED
  BY <1>1, <1>2, <1>3, Strengthened, PTL DEF Spec, HasLifecycle, Lifecycle!Spec
=============================================================================
