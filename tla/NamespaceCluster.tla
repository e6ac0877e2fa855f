-------------------------- MODULE NamespaceCluster --------------------------
(***************************************************************************)
(* One dashboard namespace as its four controllers share it: the objects   *)
(* on the API server with the copies in the informer caches, the           *)
(* workqueues, and everybody who is not a controller.                      *)
(*                                                                         *)
(*   NSR   NamespaceReconciler                 module NamespaceController  *)
(*   CMR   ConfigMapReconciler                 module ConfigMapController  *)
(*   DNCR  DashboardNamespaceConfigReconciler  module OperandController    *)
(*   DLR   DashboardLinkReconciler             module LinkController       *)
(***************************************************************************)
EXTENDS ApiObjects, NamespaceConfig

CONSTANTS
  Malformed,        \* a config.yaml that does not parse
  Guess,            \* what discovery says of each deployment
  Assumed,          \* what DLR assumes of an app that discovery does not know
  Unannotated,      \* the text live import assumes where annotations are blank
  Running,          \* the controllers that get to run, among "nsr", "cmr", "dncr", "dlr"
  InitialClusters,  \* what the operator may find when it starts
  UserEntries,      \* the entries that users write in the ConfigMap
  UserSpecs,        \* the operand specs that users write
  Kinds,            \* the kinds of disturbances allowed in a behaviour
  MaxDisturbances   \* and how many

ASSUME DiscoveryAssumption ==
  /\ Guess \in [Apps -> Entries] /\ Assumed \in [Apps -> Entries]
  /\ Unannotated \in [Apps -> Text]
  /\ \A a \in Apps : \A f \in Fields \ {"displayName", "category"} : Unannotated[a][f] = Blank
ASSUME ClusterDisturbancesAssumption == MaxDisturbances \in Nat

Modes == {"None", "Merge", "Replace"}
Specs == [enabled : BOOLEAN, mode : Modes, apps : AppMaps(Declarations)]

\* source: annotated imported-from-configmap, imported-from-live-state=deployments,
\* or neither.
Operands == [spec : Specs, source : {"configmap", "live", "user"},
             ready : {"Unknown", "True", "False"}]

\* Links are keyed by app, link name and origin: an import is named after the
\* two, with a hash; a user's own has a name of its own.
LinkKeys == Apps \X LinkNames \X {"import", "user"}
ImportOf(al) == <<al[1], al[2], "import">>

\* imported: annotated imported-from-configmap.
DashboardLinks ==
  [url : Urls \cup {NoUrl}, imported : BOOLEAN, final : BOOLEAN, del : BOOLEAN,
   ready : {"Unknown", "True", "False"}]

\* shown: labelled enabled=true.
Deployments == [shown : BOOLEAN, text : Text, links : LinkLists]
NewDeployment == [shown |-> FALSE, text |-> ZeroEntry.text, links |-> NoLinks]

ASSUME ClusterAbsentAssumption ==
  Absent \notin BOOLEAN \cup Configs \cup {Malformed} \cup Operands
                \cup DashboardLinks \cup Deployments
ASSUME SpecsAssumption ==
  /\ Malformed \notin Configs /\ UserEntries \subseteq Entries /\ UserSpecs \subseteq Specs
  /\ InitialClusters \subseteq
       [labelled : BOOLEAN, cm : Configs \cup {Absent},
        deployed : [Apps -> Deployments \cup {Absent}]]

NewOperand(spec, source) == [spec |-> spec, source |-> source, ready |-> "Unknown"]
NewLink(url, imported) ==
  [url |-> url, imported |-> imported, final |-> FALSE, del |-> FALSE, ready |-> "Unknown"]

\* What an imported operand declares for the apps.
ImportedSpec(apps) == [enabled |-> TRUE, mode |-> "None", apps |-> apps]

----------------------------------------------------------------------------
VARIABLES
  ns,     \* the Namespace: is it labelled enabled=true?
  cm,     \* dashboard-config-<namespace>: a config, or Malformed
  dnc,    \* the DashboardNamespaceConfig of the same name
  dls,    \* the DashboardLinks
  deps,   \* the Deployments
  qns, qcm, qdnc, qdl,       \* keys in the workqueues; qdl is a set of LinkKeys
  nsw, cmw, dncw, dlw,       \* the workers: a pc, and what the reconcile holds
  budget                     \* disturbances still allowed

Objects == <<ns, cm, dnc, dls, deps>>
Queues == <<qns, qcm, qdnc, qdl>>
Workers == <<nsw, cmw, dncw, dlw>>
vars == <<ns, cm, dnc, dls, deps, qns, qcm, qdnc, qdl, nsw, cmw, dncw, dlw, budget>>

NsIdle == [pc |-> "idle", labelled |-> FALSE]
CmIdle == [pc |-> "idle", config |-> NoConfig, todo |-> {}]
DncIdle == [pc |-> "idle", copy |-> Absent]
DlIdle == [pc |-> "idle", key |-> Absent, copy |-> Absent]

\* A call with a cached copy o.seen, to make the object say b: nothing is sent
\* when it does, Create when there is none in the cache, Update otherwise.
Accepted(o) == IF o.seen = Absent THEN o.obj = Absent ELSE Current(o, "cache")
Saved(o, b) == b = o.seen \/ Accepted(o)
Save(o, b) == IF b # o.seen /\ Accepted(o) THEN Put(o, b) ELSE o

\* An unconditional Delete: an object with a finalizer is only marked.
Erase(o) ==
  IF o.obj = Absent THEN o
  ELSE IF o.obj.final THEN Put(o, [o.obj EXCEPT !.del = TRUE])
  ELSE Put(o, Absent)

IsConfig(b) == b # Absent /\ b # Malformed

\* loadNamespaceConfigMap, of a ConfigMap that parses.
Loaded(b) == IF b = Absent THEN NoConfig ELSE b

\* discoverNamespaceConfig, on the cached deployments.
Discovered == [n \in {a \in Apps : deps[a].seen # Absent} |-> Guess[n]]

----------------------------------------------------------------------------
(* Informers *)

DeliverNamespace ==
  /\ ~Settled(ns)
  /\ ns' = Deliver(ns) /\ qns' = TRUE
  /\ UNCHANGED <<cm, dnc, dls, deps, qcm, qdnc, qdl, Workers, budget>>

DeliverConfigMap ==
  /\ ~Settled(cm)
  /\ cm' = Deliver(cm) /\ qcm' = TRUE
  /\ UNCHANGED <<ns, dnc, dls, deps, qns, qdnc, qdl, Workers, budget>>

DeliverOperand ==
  /\ ~Settled(dnc)
  /\ dnc' = Deliver(dnc) /\ qdnc' = TRUE
  /\ UNCHANGED <<ns, cm, dls, deps, qns, qcm, qdl, Workers, budget>>

DeliverLink(k) ==
  /\ ~Settled(dls[k])
  /\ dls' = [dls EXCEPT ![k] = Deliver(dls[k])] /\ qdl' = qdl \cup {k}
  /\ UNCHANGED <<ns, cm, dnc, deps, qns, qcm, qdnc, Workers, budget>>

\* namespaceRequestForObject: an event of a deployment is one of its namespace.
DeliverDeployment(a) ==
  /\ ~Settled(deps[a])
  /\ deps' = [deps EXCEPT ![a] = Deliver(deps[a])] /\ qns' = TRUE
  /\ UNCHANGED <<ns, cm, dnc, dls, qcm, qdnc, qdl, Workers, budget>>

Informers ==
  \/ DeliverNamespace \/ DeliverConfigMap \/ DeliverOperand
  \/ \E k \in LinkKeys : DeliverLink(k)
  \/ \E a \in Apps : DeliverDeployment(a)

----------------------------------------------------------------------------
(* Disturbances: users, and whatever else befalls the controllers *)

Disturb(kind) == kind \in Kinds /\ budget > 0 /\ budget' = budget - 1

UserLabelsNamespace ==
  /\ Disturb("label")
  /\ ns' = Put(ns, ~ns.obj)
  /\ UNCHANGED <<cm, dnc, dls, deps, Queues, Workers>>

UserWritesConfigMap(b) ==
  /\ Disturb("config")
  /\ b # cm.obj
  /\ cm' = Put(cm, b)
  /\ UNCHANGED <<ns, dnc, dls, deps, Queues, Workers>>

\* An entry is added or rewritten; one is removed; the text is damaged, or all
\* of it is deleted.
UserEditsConfigMap ==
  \/ \E a \in Apps, e \in UserEntries :
       LET c == IF IsConfig(cm.obj) THEN cm.obj ELSE NoConfig
       IN  UserWritesConfigMap([n \in DOMAIN c \cup {a} |-> IF n = a THEN e ELSE c[n]])
  \/ /\ IsConfig(cm.obj)
     /\ \E a \in DOMAIN cm.obj :
          UserWritesConfigMap([n \in (DOMAIN cm.obj) \ {a} |-> cm.obj[n]])
  \/ cm.obj # Absent /\ UserWritesConfigMap(Malformed)
  \/ cm.obj # Absent /\ UserWritesConfigMap(Absent)

\* A DashboardNamespaceConfig is created or edited, or deleted.
UserEditsOperand ==
  /\ Disturb("operand")
  /\ \/ \E s \in UserSpecs :
          dnc' = Put(dnc, IF dnc.obj = Absent THEN NewOperand(s, "user")
                                              ELSE [dnc.obj EXCEPT !.spec = s])
     \/ dnc.obj # Absent /\ dnc' = Put(dnc, Absent)
  /\ UNCHANGED <<ns, cm, dls, deps, Queues, Workers>>

\* A user makes a link of his own.
UserAddsLink == \E k \in LinkKeys, u \in Urls :
  /\ Disturb("newlink")
  /\ dls[k].obj = Absent /\ k[3] = "user"
  /\ dls' = [dls EXCEPT ![k] = Put(dls[k], NewLink(u, FALSE))]
  /\ UNCHANGED <<ns, cm, dnc, deps, Queues, Workers>>

\* A link is pointed elsewhere, adopted by removing its annotation, or deleted.
UserEditsLink == \E k \in LinkKeys :
  /\ Disturb("link")
  /\ dls[k].obj # Absent
  /\ \/ \E u \in Urls \cup {NoUrl} :
          dls' = [dls EXCEPT ![k] = Put(dls[k], [dls[k].obj EXCEPT !.url = u])]
     \/ dls' = [dls EXCEPT ![k] = Put(dls[k], [dls[k].obj EXCEPT !.imported = FALSE])]
     \/ dls' = [dls EXCEPT ![k] = Erase(dls[k])]
  /\ UNCHANGED <<ns, cm, dnc, deps, Queues, Workers>>

\* A deployment is rolled out anew, or removed.
Rollout == \E a \in Apps :
  /\ Disturb("deployment")
  /\ \/ /\ deps[a].obj = Absent
        /\ deps' = [deps EXCEPT ![a] = Put(deps[a], NewDeployment)]
     \/ /\ deps[a].obj # Absent
        /\ deps' = [deps EXCEPT ![a] = Put(deps[a], Absent)]
  /\ UNCHANGED <<ns, cm, dnc, dls, Queues, Workers>>

\* The periodic resync enqueues all there is in the caches.
Enqueued ==
  /\ qns' = TRUE
  /\ qcm' = (qcm \/ cm'.seen # Absent)
  /\ qdnc' = (qdnc \/ dnc'.seen # Absent)
  /\ qdl' = qdl \cup {k \in LinkKeys : dls'[k].seen # Absent}

Resync == Disturb("resync") /\ UNCHANGED <<Objects, Workers>> /\ Enqueued

\* The process is restarted: reconciles are lost, the caches are listed anew.
Restart ==
  /\ Disturb("restart")
  /\ ns' = Listed(ns.obj) /\ cm' = Listed(cm.obj) /\ dnc' = Listed(dnc.obj)
  /\ dls' = [k \in LinkKeys |-> Listed(dls[k].obj)]
  /\ deps' = [a \in Apps |-> Listed(deps[a].obj)]
  /\ nsw' = NsIdle /\ cmw' = CmIdle /\ dncw' = DncIdle /\ dlw' = DlIdle
  /\ qns' = TRUE
  /\ qcm' = (cm.obj # Absent)
  /\ qdnc' = (dnc.obj # Absent)
  /\ qdl' = {k \in LinkKeys : dls[k].obj # Absent}

Users ==
  \/ UserLabelsNamespace \/ UserEditsConfigMap \/ UserEditsOperand
  \/ UserAddsLink \/ UserEditsLink
  \/ Rollout

Disturbances == Users \/ Resync \/ Restart
=============================================================================
