-------------------------- MODULE CustomLinkSync --------------------------
(***************************************************************************)
(* The two-way mirror between a standalone custom-link ConfigMap and the   *)
(* DashboardLink of the same name.                                         *)
(*                                                                         *)
(*   ConfigMapReconciler (CMR)      reads the ConfigMap, writes the link   *)
(*   DashboardLinkReconciler (DLR)  reads the link, writes the ConfigMap,  *)
(*                                  sets the link's finalizer and status   *)
(*                                                                         *)
(* Both controllers run concurrently, one reconcile of a key at a time     *)
(* each, read from the informer caches and write to the API server; users  *)
(* edit either object at any moment. Name and namespace tie a ConfigMap to *)
(* exactly one link, so one pair stands for all of them.                   *)
(***************************************************************************)
EXTENDS ApiObjects, Integers

CONSTANTS
  Links,            \* what url, displayName, category and description say
  NoLink,           \* the same with an empty url
  MaxDisturbances   \* user edits, API errors and restarts of a behaviour

ASSUME LinksAssumption == NoLink \notin Links
ASSUME DisturbancesAssumption == MaxDisturbances \in Nat

----------------------------------------------------------------------------
(* Objects *)

\* custom: labelled type=custom-link.  keys: data has displayName left to its
\* default, exactly the keys that DLR writes, or other keys besides.
ConfigMaps ==
  [link : Links \cup {NoLink}, keys : {"defaulted", "exact", "more"}, custom : BOOLEAN]

\* addr: the link gives its url, or the name of a route that resolves to it.
Specs == [link : Links, addr : {"url", "route"}]
         \cup [link : {NoLink}, addr : {"url"}]

\* imported: annotated imported-from-custom-link-configmap.
\* observed: the spec of the generation that status.observedGeneration names.
DashboardLinks ==
  [spec : Specs, imported : BOOLEAN, final : BOOLEAN, del : BOOLEAN,
   ready : {"Unknown", "True", "False"}, observed : Specs \cup {Absent}]

\* Having no object is unlike having one.
ASSUME AbsentAssumption == Absent \notin ConfigMaps /\ Absent \notin DashboardLinks

NewLink(spec, imported) ==
  [spec |-> spec, imported |-> imported, final |-> FALSE, del |-> FALSE,
   ready |-> "Unknown", observed |-> Absent]

\* (mutant) a missing ConfigMap is not an early return
ImportableUnread(c) == c = Absent \/ (c.custom /\ c.link # NoLink)

\* The early returns of syncDashboardLinkFromCustomLinkConfigMap and Reconcile.
Importable(c) == c # Absent /\ c.custom /\ c.link # NoLink

Deleting(l) == l # Absent /\ l.del

ImportedSpec(c) == [link |-> c.link, addr |-> "url"]
ExportedConfigMap(l) == [link |-> l.spec.link, keys |-> "exact", custom |-> TRUE]

----------------------------------------------------------------------------
VARIABLES
  cm, dl,      \* the ConfigMap and the DashboardLink: ApiObjects records
  qcm, qdl,    \* is the key in the workqueue of CMR, of DLR?
  cmw,         \* CMR's reconcile: [pc, copy], the ConfigMap it read
  dlw,         \* DLR's reconcile: [pc, copy], the link it read
  budget       \* disturbances still allowed

vars == <<cm, dl, qcm, qdl, cmw, dlw, budget>>

Idle == [pc |-> "idle", copy |-> Absent]

\* The operator starts on a cluster that may already have the ConfigMap.
Init ==
  /\ \E c \in ConfigMaps \cup {Absent} : cm = Listed(c) /\ qcm = (c # Absent)
  /\ dl = Listed(Absent)
  /\ qdl = FALSE
  /\ cmw = Idle
  /\ dlw = Idle
  /\ budget = MaxDisturbances

----------------------------------------------------------------------------
(* Informers: the cache moves to the server's version and enqueues the key *)

DeliverConfigMap ==
  /\ ~Settled(cm)
  /\ cm' = Deliver(cm)
  /\ qcm' = TRUE
  /\ UNCHANGED <<dl, qdl, cmw, dlw, budget>>

DeliverLink ==
  /\ ~Settled(dl)
  /\ dl' = Deliver(dl)
  /\ qdl' = TRUE
  /\ UNCHANGED <<cm, qcm, cmw, dlw, budget>>

\* The periodic resync enqueues every object in the cache.
ResyncConfigMap ==
  /\ cm.seen # Absent
  /\ qcm' = TRUE
  /\ UNCHANGED <<cm, dl, qdl, cmw, dlw, budget>>

ResyncLink ==
  /\ dl.seen # Absent
  /\ qdl' = TRUE
  /\ UNCHANGED <<cm, dl, qcm, cmw, dlw, budget>>

----------------------------------------------------------------------------
(* ConfigMapReconciler *)

CmrGet ==
  /\ qcm /\ cmw = Idle
  /\ qcm' = FALSE
  /\ cmw' = IF Importable(cm.seen) THEN [pc |-> "sync", copy |-> cm.seen] ELSE Idle
  /\ UNCHANGED <<cm, dl, qdl, dlw, budget>>

CmrSyncs == cmw.pc = "sync" /\ cmw' = Idle /\ UNCHANGED <<cm, qdl, dlw, budget>>

\* The cache has no link: Create, refused with AlreadyExists by a server that has.
CmrCreate ==
  /\ CmrSyncs
  /\ dl.seen = Absent
  /\ dl' = IF dl.obj = Absent THEN Put(dl, NewLink(ImportedSpec(cmw.copy), TRUE)) ELSE dl
  /\ qcm' = (qcm \/ dl.obj # Absent)

\* The link is a user's own, or already says what the ConfigMap says.
CmrLeave ==
  /\ CmrSyncs
  /\ dl.seen # Absent
  /\ ~dl.seen.imported \/ dl.seen.spec = ImportedSpec(cmw.copy)
  /\ UNCHANGED <<dl, qcm>>

\* (mutant) a merge patch, which carries no resourceVersion, instead of an Update
CmrUpdateByPatch ==
  /\ CmrSyncs
  /\ dl.seen # Absent
  /\ dl.seen.imported /\ dl.seen.spec # ImportedSpec(cmw.copy)
  /\ dl' = IF dl.obj = Absent THEN dl ELSE Put(dl, [dl.obj EXCEPT !.spec = ImportedSpec(cmw.copy)])
  /\ UNCHANGED qcm

\* The link's spec is replaced; a conflict requeues the key.
CmrUpdate ==
  /\ CmrSyncs
  /\ dl.seen # Absent
  /\ dl.seen.imported /\ dl.seen.spec # ImportedSpec(cmw.copy)
  /\ IF Current(dl, "cache")
       THEN dl' = Put(dl, [dl.seen EXCEPT !.spec = ImportedSpec(cmw.copy)]) /\ UNCHANGED qcm
       ELSE qcm' = TRUE /\ UNCHANGED dl

Cmr == CmrGet \/ CmrCreate \/ CmrLeave \/ CmrUpdate

----------------------------------------------------------------------------
(* DashboardLinkReconciler *)

\* (mutant) the spec is validated before the deletion is looked at
BranchValidatesFirst(l) ==
  IF l = Absent THEN "idle"
  ELSE IF l.spec.link = NoLink THEN "reject"
  ELSE IF l.del THEN (IF l.final THEN "drop" ELSE "idle")
  ELSE IF ~l.final THEN "finalizer"
  ELSE IF l.imported THEN "write"
  ELSE "accept"

\* The branch Reconcile takes for the link it read: write a link that is being
\* finalized, a spec it refuses, a link without finalizer, an import, the rest.
Branch(l) ==
  IF l = Absent THEN "idle"
  ELSE IF l.del THEN (IF l.final THEN "drop" ELSE "idle")
  ELSE IF l.spec.link = NoLink THEN "reject"
  ELSE IF ~l.final THEN "finalizer"
  ELSE IF l.imported THEN "write"
  ELSE "accept"

DlrGet ==
  /\ qdl /\ dlw = Idle
  /\ qdl' = FALSE
  /\ IF Branch(dl.seen) = "idle"
       THEN UNCHANGED <<dl, dlw>>
       ELSE /\ dl' = Fetch(dl, "dlr")
            /\ dlw' = [pc |-> Branch(dl.seen), copy |-> dl.seen]
  /\ UNCHANGED <<cm, qcm, cmw, budget>>

\* Reconcile goes on at pc.
DlrAt(pc) == dlw.pc = pc /\ UNCHANGED <<cmw, budget>>
DlrGoto(pc) == dlw' = [dlw EXCEPT !.pc = pc] /\ UNCHANGED <<dl, qdl>>

\* (mutant) the error of the write is logged and not returned
DlrReturnSwallows(current, b) ==
  /\ dlw' = Idle
  /\ dl' = Release(IF current THEN Put(dl, b) ELSE dl, "dlr")
  /\ UNCHANGED qdl

\* Reconcile writes body b to its link and returns, with an error when the
\* write is refused: the key is requeued.
DlrReturn(current, b) ==
  /\ dlw' = Idle
  /\ dl' = Release(IF current THEN Put(dl, b) ELSE dl, "dlr")
  /\ qdl' = (qdl \/ ~current)

\* (mutant) the link as it was read is patched in, whatever it is by now
DlrAddFinalizerByPatch ==
  /\ DlrAt("finalizer")
  /\ DlrReturn(dl.obj # Absent, [dlw.copy EXCEPT !.final = TRUE])
  /\ UNCHANGED <<cm, qcm>>

\* AddFinalizer and Update.
DlrAddFinalizer ==
  /\ DlrAt("finalizer")
  /\ DlrReturn(Current(dl, "dlr"), [dlw.copy EXCEPT !.final = TRUE])
  /\ UNCHANGED <<cm, qcm>>

\* The route named by the spec cannot be resolved.
DlrUnresolved ==
  /\ DlrAt("write")
  /\ dlw.copy.spec.addr = "route"
  /\ DlrGoto("reject")
  /\ UNCHANGED <<cm, qcm>>

\* syncCustomLinkConfigMapFromDashboardLink: the cached ConfigMap is created,
\* left alone or rewritten as a whole.
DlrCreateConfigMap ==
  /\ DlrAt("write")
  /\ cm.seen = Absent
  /\ IF cm.obj = Absent
       THEN cm' = Put(cm, ExportedConfigMap(dlw.copy)) /\ DlrGoto("accept")
       ELSE DlrGoto("reject") /\ UNCHANGED cm
  /\ UNCHANGED qcm

DlrLeaveConfigMap ==
  /\ DlrAt("write")
  /\ cm.seen = ExportedConfigMap(dlw.copy)
  /\ DlrGoto("accept")
  /\ UNCHANGED <<cm, qcm>>

DlrUpdateConfigMap ==
  /\ DlrAt("write")
  /\ cm.seen \notin {Absent, ExportedConfigMap(dlw.copy)}
  /\ IF Current(cm, "cache")
       THEN cm' = Put(cm, ExportedConfigMap(dlw.copy)) /\ DlrGoto("accept")
       ELSE DlrGoto("reject") /\ UNCHANGED cm
  /\ UNCHANGED qcm

\* setDashboardLinkStatus works on the link it reads again.
WithStatus(l, ready) ==
  [spec |-> l.spec, imported |-> l.imported, final |-> l.final, del |-> l.del,
   ready |-> ready, observed |-> l.spec]

DlrAccept ==
  /\ DlrAt("accept")
  /\ DlrReturn(Current(dl, "cache"), WithStatus(dl.seen, "True"))
  /\ UNCHANGED <<cm, qcm>>

\* Best-effort status, then the error is returned.
DlrReject ==
  /\ DlrAt("reject")
  /\ dlw' = Idle
  /\ dl' = Release(IF Current(dl, "cache")
                     THEN Put(dl, WithStatus(dl.seen, "False")) ELSE dl, "dlr")
  /\ qdl' = TRUE
  /\ UNCHANGED <<cm, qcm>>

\* deleteImportedCustomLinkConfigMap: decided on the cached ConfigMap ...
DlrDrop ==
  /\ DlrAt("drop")
  /\ DlrGoto(IF dlw.copy.imported /\ cm.seen # Absent /\ cm.seen.custom
               THEN "delete" ELSE "release")
  /\ UNCHANGED <<cm, qcm>>

\* ... and carried out on whatever the server has by then.
DlrDelete ==
  /\ DlrAt("delete")
  /\ cm' = Put(cm, Absent)
  /\ DlrGoto("release")
  /\ UNCHANGED qcm

\* RemoveFinalizer and Update: the server drops a deleted link without finalizer.
DlrRelease ==
  /\ DlrAt("release")
  /\ DlrReturn(Current(dl, "dlr"), Absent)
  /\ UNCHANGED <<cm, qcm>>

Dlr ==
  \/ DlrGet \/ DlrAddFinalizer
  \/ DlrUnresolved \/ DlrCreateConfigMap \/ DlrLeaveConfigMap \/ DlrUpdateConfigMap
  \/ DlrAccept \/ DlrReject
  \/ DlrDrop \/ DlrDelete \/ DlrRelease

----------------------------------------------------------------------------
(* Disturbances: users, failing API calls, restarts *)

Disturb == budget > 0 /\ budget' = budget - 1

UserWrites(b) == Disturb /\ b # cm.obj /\ cm' = Put(cm, b) /\ UNCHANGED <<dl, qcm, qdl, cmw, dlw>>
UserWritesLink(b) == Disturb /\ b # dl.obj /\ dl' = Put(dl, b) /\ UNCHANGED <<cm, qcm, qdl, cmw, dlw>>

UserPutsConfigMap == \E c \in ConfigMaps : UserWrites(c)
UserDeletesConfigMap == UserWrites(Absent)

UserCreatesLink == dl.obj = Absent /\ \E s \in Specs : UserWritesLink(NewLink(s, FALSE))
UserEditsLink == dl.obj # Absent /\ \E s \in Specs : UserWritesLink([dl.obj EXCEPT !.spec = s])
\* The import annotation is removed: the link is now the user's own.
UserAdoptsLink == dl.obj # Absent /\ UserWritesLink([dl.obj EXCEPT !.imported = FALSE])
\* A link with a finalizer is only marked.
UserDeletesLink ==
  dl.obj # Absent /\ UserWritesLink(IF dl.obj.final THEN [dl.obj EXCEPT !.del = TRUE] ELSE Absent)

\* (mutant) the error of the import is logged and not returned
CmrApiErrorSwallowed ==
  /\ Disturb
  /\ cmw # Idle
  /\ cmw' = Idle
  /\ UNCHANGED <<cm, dl, qcm, qdl, dlw>>

\* An API call of a running reconcile fails for reasons of its own.
CmrApiError ==
  /\ Disturb
  /\ cmw # Idle
  /\ cmw' = Idle
  /\ qcm' = TRUE
  /\ UNCHANGED <<cm, dl, qdl, dlw>>

DlrApiError ==
  /\ Disturb
  /\ dlw # Idle
  /\ IF dlw.pc \in {"write", "drop", "delete"}
       THEN DlrGoto("reject")
       ELSE DlrReturn(FALSE, Absent)
  /\ UNCHANGED <<cm, qcm, cmw>>

\* The process restarts: reconciles and queues are lost, caches are listed anew.
Restart ==
  /\ Disturb
  /\ cm' = Listed(cm.obj) /\ dl' = Listed(dl.obj)
  /\ qcm' = (cm.obj # Absent) /\ qdl' = (dl.obj # Absent)
  /\ cmw' = Idle /\ dlw' = Idle

Environment ==
  \/ UserPutsConfigMap \/ UserDeletesConfigMap
  \/ UserCreatesLink \/ UserEditsLink \/ UserAdoptsLink \/ UserDeletesLink
  \/ CmrApiError \/ DlrApiError \/ Restart

----------------------------------------------------------------------------
Next ==
  \/ DeliverConfigMap \/ DeliverLink \/ ResyncConfigMap \/ ResyncLink
  \/ Cmr \/ Dlr \/ Environment

Spec == Init /\ [][Next]_vars

\* Watches deliver and workers run; nobody is obliged to edit, fail or restart.
Fairness ==
  /\ WF_vars(DeliverConfigMap) /\ WF_vars(DeliverLink)
  /\ WF_vars(Cmr) /\ WF_vars(Dlr)

FairSpec == Spec /\ Fairness

----------------------------------------------------------------------------
(* Safety *)

\* Every variable holds the kind of value the code gives it.
TypeOK ==
  /\ cm \in ObjectType(ConfigMaps, {"cache"})
  /\ dl \in ObjectType(DashboardLinks, {"cache", "dlr"})
  /\ qcm \in BOOLEAN /\ qdl \in BOOLEAN
  /\ cmw \in {Idle} \cup [pc : {"sync"}, copy : ConfigMaps]
  /\ dlw \in {Idle} \cup [pc : {"finalizer", "write", "accept", "reject", "drop", "delete", "release"},
                          copy : DashboardLinks]
  /\ budget \in 0 .. MaxDisturbances

\* Nothing is queued, running or on its way to a cache.
Quiescent == Settled(cm) /\ Settled(dl) /\ ~qcm /\ ~qdl /\ cmw = Idle /\ dlw = Idle

Mirrored == dl.obj # Absent /\ dl.obj.imported /\ ~dl.obj.del /\ Importable(cm.obj)

\* When the operator has nothing left to do, an importable ConfigMap and its
\* imported link say the same thing: no event that would repair a difference
\* was lost between the two controllers.
QuiescentAgree == Quiescent /\ Mirrored => dl.obj.spec.link = cm.obj.link

\* When the operator has nothing left to do, a link that is not being deleted
\* carries the finalizer and a status that is about its current spec.
QuiescentReported ==
  Quiescent /\ dl.obj # Absent /\ ~dl.obj.del =>
    dl.obj.final /\ dl.obj.ready = "True" /\ dl.obj.observed = dl.obj.spec

OperatorStep == budget' = budget

\* Whatever the importer has read earlier, no step of the operator changes the
\* spec of a link that is a user's own, makes it an import or removes it.
UserLinkKept ==
  [][OperatorStep /\ dl.obj # Absent /\ ~dl.obj.imported /\ ~dl.obj.del =>
       dl'.obj # Absent /\ dl'.obj.spec = dl.obj.spec /\ ~dl'.obj.imported]_vars

PhaseOf(l) ==
  IF l = Absent THEN "absent"
  ELSE IF l.del THEN "going"
  ELSE IF l.final THEN "kept" ELSE "new"

Lifecycle == INSTANCE LinkLifecycle WITH
  Keys <- {"link"}, Contents <- Specs, None <- Absent, Imports <- {"link"}, Pruned <- {},
  links <- [k \in {"link"} |->
    IF dl.obj = Absent THEN [phase |-> "absent", content |-> Absent, imported |-> FALSE]
    ELSE [phase |-> PhaseOf(dl.obj), content |-> dl.obj.spec, imported |-> dl.obj.imported]],
  acts <- budget

\* All that the two controllers, interleaved with each other, with users, failing
\* calls and restarts, make of the link is one life after another: no step calls a
\* deletion off, drops or doubles a finalizer, or follows a source that the link
\* has no longer.
HasLifecycle == Lifecycle!Spec

(* Liveness *)

\* A deleted link does not hang on its finalizer, whatever the users and the
\* importer do to it and to the ConfigMap meanwhile.
DeletionEnds == Deleting(dl.obj) ~> ~Deleting(dl.obj)

----------------------------------------------------------------------------
(* What the documentation says and the code does not do *)

\* Both sides are kept in sync (samples README, DashboardLink).
Converges == <>[](Mirrored => dl.obj.spec.link = cm.obj.link)
============================================================================
