---------------------- MODULE NamespacePipelineProofs ----------------------
(***************************************************************************)
(* Safety of the namespace pipeline for any apps, links, targets, texts,   *)
(* any choice of running controllers and any number of disturbances.       *)
(***************************************************************************)
EXTENDS NamespacePipeline, NamespaceConfigTheorems, ApiObjectsTheorems

\* Objects whose cached copy, when no event is on its way, is the server's.
Coherent(o) == "cache" \in o.fresh => o.seen = o.obj
ObjectsOf(Body, Holders) == {o \in ObjectType(Body, Holders) : Coherent(o)}

NamespaceObjects == {o \in [obj : BOOLEAN, seen : BOOLEAN, fresh : SUBSET {"cache"}] : Coherent(o)}
ConfigObjects == ObjectsOf(Configs \cup {Malformed}, {"cache"})
OperandObjects == ObjectsOf(Operands, {"cache"})
LinkObjects == ObjectsOf(DashboardLinks, {"cache", "dlr"})
DeploymentObjects == ObjectsOf(Deployments, {"cache"})

\* What a reconcile that is under way holds.
NsWorkers == [pc : {"idle", "import", "config"}, labelled : BOOLEAN]
CmWorkers ==
  {CmIdle} \cup [pc : {"operand"}, config : Configs, todo : {{}}]
  \cup {w \in [pc : {"links"}, config : Configs, todo : SUBSET (Apps \X LinkNames)] :
          w.todo \subseteq LinksOf(w.config)}
  \cup [pc : {"prune"}, config : Configs, todo : SUBSET LinkKeys]
  \cup {w \in [pc : {"deployments"}, config : Configs, todo : SUBSET Apps] :
          w.todo \subseteq DOMAIN w.config}
DncWorkers == {DncIdle} \cup [pc : {"label", "write", "accept", "reject"}, copy : Operands]
DlWorkers ==
  {DlIdle} \cup
  [pc : {"finalizer", "label", "write", "accept", "reject", "unlink", "release"},
   key : LinkKeys, copy : DashboardLinks]

\* The inductive invariant: TypeOK does not say that a cache tells the truth once
\* its events are delivered, nor that a worker in the middle of a reconcile holds
\* an object and not Absent; without the two a status update, which copies what
\* the cache has, could write anything.
IInv ==
  /\ ns \in NamespaceObjects /\ cm \in ConfigObjects /\ dnc \in OperandObjects
  /\ dls \in [LinkKeys -> LinkObjects] /\ deps \in [Apps -> DeploymentObjects]
  /\ qns \in BOOLEAN /\ qcm \in BOOLEAN /\ qdnc \in BOOLEAN /\ qdl \in SUBSET LinkKeys
  /\ nsw \in NsWorkers /\ cmw \in CmWorkers /\ dncw \in DncWorkers /\ dlw \in DlWorkers
  /\ budget \in 0 .. MaxDisturbances

----------------------------------------------------------------------------
\* Every operation on an object keeps it typed and coherent.
LEMMA CoherentOps ==
  ASSUME NEW Body, NEW Holders, "cache" \in Holders, NEW o \in ObjectsOf(Body, Holders),
         NEW b \in Body \cup {Absent}
  PROVE  /\ Listed(b) \in ObjectsOf(Body, Holders)
         /\ Put(o, b) \in ObjectsOf(Body, Holders)
         /\ Deliver(o) \in ObjectsOf(Body, Holders)
         /\ Save(o, b) \in ObjectsOf(Body, Holders)
BY DEF ObjectsOf, Coherent, ObjectType, Listed, Put, Deliver, Save

LEMMA NamespaceOps ==
  ASSUME NEW o \in NamespaceObjects, NEW b \in BOOLEAN
  PROVE  /\ Listed(b) \in NamespaceObjects
         /\ Put(o, b) \in NamespaceObjects
         /\ Deliver(o) \in NamespaceObjects
         /\ Save(o, b) \in NamespaceObjects
BY DEF NamespaceObjects, Coherent, Listed, Put, Deliver, Save

LEMMA ConfigOps ==
  ASSUME NEW o \in ConfigObjects, NEW b \in Configs \cup {Malformed, Absent}
  PROVE  /\ Listed(b) \in ConfigObjects /\ Put(o, b) \in ConfigObjects
         /\ Deliver(o) \in ConfigObjects /\ Save(o, b) \in ConfigObjects
<1>1. b \in (Configs \cup {Malformed}) \cup {Absent}
  OBVIOUS
<1>. QED
  BY <1>1, CoherentOps DEF ConfigObjects

LEMMA OperandOps ==
  ASSUME NEW o \in OperandObjects, NEW b \in Operands \cup {Absent}
  PROVE  /\ Listed(b) \in OperandObjects /\ Put(o, b) \in OperandObjects
         /\ Deliver(o) \in OperandObjects /\ Save(o, b) \in OperandObjects
BY CoherentOps DEF OperandObjects

LEMMA DeploymentOps ==
  ASSUME NEW o \in DeploymentObjects, NEW b \in Deployments \cup {Absent}
  PROVE  /\ Listed(b) \in DeploymentObjects /\ Put(o, b) \in DeploymentObjects
         /\ Deliver(o) \in DeploymentObjects /\ Save(o, b) \in DeploymentObjects
BY CoherentOps DEF DeploymentObjects

LEMMA LinkOps ==
  ASSUME NEW o \in LinkObjects, NEW b \in DashboardLinks \cup {Absent}
  PROVE  /\ Listed(b) \in LinkObjects /\ Put(o, b) \in LinkObjects
         /\ Deliver(o) \in LinkObjects /\ Save(o, b) \in LinkObjects
         /\ Fetch(o, "dlr") \in LinkObjects /\ Release(o, "dlr") \in LinkObjects
         /\ Erase(o) \in LinkObjects
<1>1. /\ Listed(b) \in LinkObjects /\ Put(o, b) \in LinkObjects
      /\ Deliver(o) \in LinkObjects /\ Save(o, b) \in LinkObjects
  BY CoherentOps DEF LinkObjects
<1>2. Fetch(o, "dlr") \in LinkObjects /\ Release(o, "dlr") \in LinkObjects
  BY DEF LinkObjects, ObjectsOf, Coherent, ObjectType, Fetch, Release
<1>3. Erase(o) \in LinkObjects
  <2>1. \A c \in DashboardLinks \cup {Absent} : Put(o, c) \in LinkObjects
    BY CoherentOps DEF LinkObjects
  <2>2. o.obj \in DashboardLinks \cup {Absent}
    BY DEF LinkObjects, ObjectsOf, ObjectType
  <2>3. o.obj # Absent => [o.obj EXCEPT !.del = TRUE] \in DashboardLinks
    BY <2>2 DEF DashboardLinks
  <2>. QED
    BY <2>1, <2>2, <2>3 DEF Erase
<1>. QED
  BY <1>1, <1>2, <1>3

\* What the parts of a typed object are.
LEMMA Parts ==
  /\ \A o \in ConfigObjects :
       o.obj \in Configs \cup {Malformed, Absent} /\ o.seen \in Configs \cup {Malformed, Absent}
  /\ \A o \in OperandObjects :
       o.obj \in Operands \cup {Absent} /\ o.seen \in Operands \cup {Absent}
  /\ \A o \in LinkObjects :
       o.obj \in DashboardLinks \cup {Absent} /\ o.seen \in DashboardLinks \cup {Absent}
  /\ \A o \in DeploymentObjects :
       o.obj \in Deployments \cup {Absent} /\ o.seen \in Deployments \cup {Absent}
  /\ \A o \in NamespaceObjects : o.obj \in BOOLEAN /\ o.seen \in BOOLEAN
BY DEF ConfigObjects, OperandObjects, LinkObjects, DeploymentObjects, NamespaceObjects,
       ObjectsOf, ObjectType

\* A copy the server accepts an update from is the server's object.
LEMMA CurrentCopies ==
  /\ \A o \in ConfigObjects : Current(o, "cache") => o.seen = o.obj /\ o.obj # Absent
  /\ \A o \in OperandObjects : Current(o, "cache") => o.seen = o.obj /\ o.obj # Absent
  /\ \A o \in LinkObjects : Current(o, "cache") => o.seen = o.obj /\ o.obj # Absent
BY DEF ConfigObjects, OperandObjects, LinkObjects, ObjectsOf, Coherent, Current

LEMMA IInvImpliesTypeOK == IInv => TypeOK
<1>. SUFFICES ASSUME IInv PROVE TypeOK
  OBVIOUS
<1>1. /\ ns \in [obj : BOOLEAN, seen : BOOLEAN, fresh : SUBSET {"cache"}]
      /\ cm \in ObjectType(Configs \cup {Malformed}, {"cache"})
      /\ dnc \in ObjectType(Operands, {"cache"})
      /\ dls \in [LinkKeys -> ObjectType(DashboardLinks, {"cache", "dlr"})]
      /\ deps \in [Apps -> ObjectType(Deployments, {"cache"})]
  BY DEF IInv, NamespaceObjects, ConfigObjects, OperandObjects, LinkObjects,
         DeploymentObjects, ObjectsOf
<1>2. NoConfig \in Configs
  BY AppMapIs DEF NoConfig, Configs
<1>3. cmw \in [pc : {"idle", "operand", "links", "prune", "deployments"}, config : Configs,
               todo : (SUBSET (Apps \X LinkNames)) \cup (SUBSET LinkKeys) \cup (SUBSET Apps)]
  BY <1>2 DEF IInv, CmWorkers, CmIdle
<1>4. dncw \in [pc : {"idle", "label", "write", "accept", "reject"}, copy : Operands \cup {Absent}]
  BY DEF IInv, DncWorkers, DncIdle
<1>5. dlw \in [pc : {"idle", "finalizer", "label", "write", "accept", "reject", "unlink", "release"},
               key : LinkKeys \cup {Absent}, copy : DashboardLinks \cup {Absent}]
  BY DEF IInv, DlWorkers, DlIdle
<1>. QED
  BY <1>1, <1>3, <1>4, <1>5 DEF IInv, TypeOK, NsWorkers

----------------------------------------------------------------------------
(* What the controllers write is well formed *)

LEMMA ConfigParts ==
  ASSUME NEW c \in Configs
  PROVE  /\ DOMAIN c \subseteq Apps /\ c \in [DOMAIN c -> Entries]
         /\ \A n \in DOMAIN c :
              c[n].enabled \in BOOLEAN /\ c[n].text \in Text /\ c[n].links \in LinkLists
<1>1. DOMAIN c \subseteq Apps /\ c \in [DOMAIN c -> Entries]
  BY AppMapIs DEF Configs
<1>2. \A e \in Entries : e.enabled \in BOOLEAN /\ e.text \in Text /\ e.links \in LinkLists
  BY DEF Entries
<1>. QED
  BY <1>1, <1>2

LEMMA ConfigsAre ==
  /\ NoConfig \in Configs
  /\ \A A \in SUBSET Apps : \A c \in [A -> Entries] : c \in Configs
BY AppMapIs DEF NoConfig, Configs

LEMMA NewBodies ==
  /\ \A s \in Specs : \A i \in {"configmap", "live", "user"} : NewOperand(s, i) \in Operands
  /\ \A u \in Urls \cup {NoUrl} : \A i \in BOOLEAN : NewLink(u, i) \in DashboardLinks
  /\ \A apps \in AppMaps(Declarations) : ImportedSpec(apps) \in Specs
BY DEF NewOperand, NewLink, ImportedSpec, Operands, DashboardLinks, Specs, Modes

LEMMA OperandParts ==
  ASSUME NEW d \in Operands
  PROVE  /\ d.spec \in Specs /\ d.source \in {"configmap", "live", "user"}
         /\ d.ready \in {"Unknown", "True", "False"}
         /\ \A s \in Specs : \A r \in {"Unknown", "True", "False"} :
              [spec |-> s, source |-> d.source, ready |-> r] \in Operands
         /\ \A s \in Specs : [d EXCEPT !.spec = s] \in Operands
BY DEF Operands

LEMMA LinkParts ==
  ASSUME NEW l \in DashboardLinks
  PROVE  /\ l.url \in Urls \cup {NoUrl}
         /\ \A u \in Urls \cup {NoUrl} : [l EXCEPT !.url = u] \in DashboardLinks
         /\ [l EXCEPT !.imported = FALSE] \in DashboardLinks
         /\ [l EXCEPT !.final = TRUE] \in DashboardLinks
         /\ \A r \in {"True", "False"} : WithStatus(l, r) \in DashboardLinks
BY DEF DashboardLinks, WithStatus

LEMMA DiscoveredIs == Discovered \in Configs
<1>1. Discovered \in [{a \in Apps : deps[a].seen # Absent} -> Entries]
  BY DiscoveryAssumption DEF Discovered
<1>. QED
  BY <1>1, ConfigsAre

\* Live import declares what the deployments show.
LEMMA LiveOperandTyped ==
  ASSUME IInv, NEW m \in Namings
  PROVE  LiveOperand(m) \in Operands \cup {Absent}
<1>1. \A a \in LiveApps : AppConfigOf(a) \in Declarations
  <2>. SUFFICES ASSUME NEW a \in LiveApps PROVE AppConfigOf(a) \in Declarations
    OBVIOUS
  <2>1. a \in Apps /\ deps[a].seen \in Deployments
    <3>1. a \in Apps /\ deps[a].seen # Absent /\ deps[a] \in DeploymentObjects
      BY DEF LiveApps, IInv
    <3>. QED
      BY <3>1, Parts
  <2>2. deps[a].seen.text \in Text /\ deps[a].seen.links \in LinkLists
    BY <2>1 DEF Deployments
  <2>3. FillText(deps[a].seen.text, Unannotated[a], Fields) \in Text
    BY <2>1, <2>2, FillTextIs, DiscoveryAssumption
  <2>. QED
    BY <2>2, <2>3 DEF AppConfigOf, Declarations
<1>n. \A e \in Declarations : Normalized(e, m) \in Declarations
  <2>. SUFFICES ASSUME NEW e \in Declarations PROVE Normalized(e, m) \in Declarations
    OBVIOUS
  <2>1. m \in [DisplayNames -> LiveApps] /\ LiveApps \subseteq Apps
    BY DEF Namings, LiveApps
  <2>2. \A f \in Fields : f = "appGroup" /\ e.text[f] \in DOMAIN m => m[e.text[f]] \in Texts
    BY <2>1, NamesAssumption
  <2>3. \A f \in Fields : e.text[f] \in Texts \cup {Blank}
    BY DEF Declarations, Text
  <2>4. Normalized(e, m).text \in Text
    BY <2>2, <2>3 DEF Normalized, Text
  <2>. QED
    BY <2>4 DEF Normalized, Declarations
<1>2. LiveSpec(m) \in Specs
  <2>. DEFINE apps == [a \in LiveApps |-> Normalized(AppConfigOf(a), m)]
  <2>1. apps \in [LiveApps -> Declarations]
    BY <1>1, <1>n
  <2>2. apps \in AppMaps(Declarations)
    BY <2>1, AppMapIs DEF LiveApps
  <2>. QED
    BY <2>2, NewBodies DEF LiveSpec
<1>3. dnc.seen \in Operands \cup {Absent}
  BY Parts DEF IInv
<1>4. dnc.seen # Absent => [spec |-> LiveSpec(m), source |-> "live", ready |-> dnc.seen.ready] \in Operands
  BY <1>2, <1>3 DEF Operands
<1>5. NewOperand(LiveSpec(m), "live") \in Operands
  BY <1>2, NewBodies
<1>. QED
  BY <1>3, <1>4, <1>5 DEF LiveOperand

LEMMA GeneratedTyped == IInv /\ cm.seen # Malformed => Generated \in Configs
<1>. SUFFICES ASSUME IInv, cm.seen # Malformed PROVE Generated \in Configs
  OBVIOUS
<1>1. cm.seen \in Configs \cup {Absent}
  BY Parts DEF IInv
<1>. QED
  BY <1>1, DiscoveredIs, CompletedKeeps DEF Generated, MergedByNamespace

LEMMA ImportedOperandTyped ==
  IInv /\ cmw.config \in Configs => ImportedOperand \in Operands
<1>. SUFFICES ASSUME IInv, cmw.config \in Configs PROVE ImportedOperand \in Operands
  OBVIOUS
<1>1. CmrSpec \in Specs
  BY DeclaredIs, NewBodies DEF CmrSpec
<1>2. dnc.seen \in Operands \cup {Absent}
  BY Parts DEF IInv
<1>3. dnc.seen # Absent =>
        [spec |-> CmrSpec, source |-> "configmap", ready |-> dnc.seen.ready] \in Operands
  BY <1>1, <1>2 DEF Operands
<1>4. NewOperand(CmrSpec, "configmap") \in Operands
  BY <1>1, NewBodies
<1>. QED
  BY <1>2, <1>3, <1>4 DEF ImportedOperand

LEMMA ImportedLinkTyped ==
  ASSUME IInv, cmw.config \in Configs, NEW al \in LinksOf(cmw.config)
  PROVE  ImportOf(al) \in LinkKeys /\ ImportedLink(al) \in DashboardLinks
<1>1. al \in Apps \X LinkNames /\ CmrUrl(al) \in Urls
  BY ConfigParts DEF LinksOf, CmrUrl
<1>2. ImportOf(al) \in LinkKeys
  BY <1>1 DEF ImportOf, LinkKeys
<1>3. dls[ImportOf(al)].seen \in DashboardLinks \cup {Absent}
  <2>1. dls[ImportOf(al)] \in LinkObjects
    BY <1>2 DEF IInv
  <2>. QED
    BY <2>1, Parts
<1>4. dls[ImportOf(al)].seen # Absent =>
        [dls[ImportOf(al)].seen EXCEPT !.url = CmrUrl(al)] \in DashboardLinks
  BY <1>1, <1>3, LinkParts
<1>5. NewLink(CmrUrl(al), TRUE) \in DashboardLinks
  BY <1>1, NewBodies
<1>. QED
  BY <1>2, <1>3, <1>4, <1>5 DEF ImportedLink

LEMMA AppliedTyped ==
  ASSUME NEW d \in Deployments, NEW a \in Apps, NEW e \in Entries
  PROVE  Applied(d, a, e) \in Deployments
<1>1. /\ d.text \in Text /\ e.enabled \in BOOLEAN /\ e.text \in Text /\ e.links \in LinkLists
  BY DEF Deployments, Entries
<1>2. FillText(AppliedText(a, e), d.text, Fields) \in Text
  <2>1. AppliedText(a, e) \in Text
    BY <1>1, NamesAssumption DEF AppliedText, Text
  <2>. QED
    BY <1>1, <2>1, FillTextIs
<1>3. Complete(e.links) \in LinkLists
  BY <1>1 DEF Complete, LinkLists
<1>. QED
  BY <1>1, <1>2, <1>3 DEF Applied, Deployments

LEMMA LoadedTyped == IInv /\ cm.seen # Malformed => Loaded(cm.seen) \in Configs
BY Parts, ConfigsAre DEF IInv, Loaded

LEMMA DncrDesiredTyped ==
  IInv /\ cm.seen # Malformed /\ dncw.copy \in Operands => DncrDesired \in Configs
<1>. SUFFICES ASSUME IInv, cm.seen # Malformed, dncw.copy \in Operands PROVE DncrDesired \in Configs
  OBVIOUS
<1>. DEFINE c == Loaded(cm.seen)
            spec == dncw.copy.spec
<1>1. c \in Configs /\ Discovered \in Configs
  BY LoadedTyped, DiscoveredIs
<1>2. spec.mode \in Modes /\ spec.apps \in AppMaps(Declarations)
  BY OperandParts DEF Specs
<1>3. MergedByOperand(c, Discovered) \in Configs
  BY <1>1, CompletedKeeps DEF MergedByOperand
<1>4. \A base \in Configs : Overlay(base, spec.apps) \in Configs
  BY <1>2, OverlayContains
<1>. HIDE DEF c, spec
<1>5. Desired(c, Discovered, spec) \in Configs
  <2>1. CASE spec.mode = "None"
    BY <2>1, <1>1, <1>4 DEF Desired
  <2>2. CASE spec.mode = "Replace"
    BY <2>2, <1>1, <1>4 DEF Desired
  <2>3. CASE spec.mode = "Merge"
    BY <2>3, <1>3, <1>4 DEF Desired
  <2>. QED
    BY <1>2, <2>1, <2>2, <2>3 DEF Modes
<1>. QED
  BY <1>5 DEF DncrDesired, c, spec

LEMMA WithLinkTyped ==
  ASSUME NEW e \in Entries, NEW l \in LinkNames, NEW u \in Urls \cup {NoUrl}
  PROVE  WithLink(e, l, u) \in Entries
<1>1. e.links \in LinkLists
  BY DEF Entries
<1>2. [e.links EXCEPT ![l] = u] \in LinkLists
  BY <1>1 DEF LinkLists
<1>. QED
  BY <1>2 DEF WithLink, Entries

LEMMA DlrDesiredTyped ==
  ASSUME IInv, cm.seen # Malformed, dlw.key \in LinkKeys, dlw.copy \in DashboardLinks
  PROVE  DlrDesired \in Configs
<1>. DEFINE c == Loaded(cm.seen)
<1>1. c \in Configs
  BY LoadedTyped
<1>2. DOMAIN c \subseteq Apps /\ c \in [DOMAIN c -> Entries]
  BY <1>1, ConfigParts
<1>3. DlrApp \in Apps /\ DlrName \in LinkNames
  BY DEF LinkKeys, DlrApp, DlrName
<1>. HIDE DEF c
<1>4. DlrEntry(c) \in Entries
  BY <1>2, <1>3, DiscoveryAssumption DEF DlrEntry
<1>5. WithLink(DlrEntry(c), DlrName, dlw.copy.url) \in Entries
  BY <1>3, <1>4, WithLinkTyped, LinkParts
<1>6. [n \in DOMAIN c \cup {DlrApp} |->
         IF n = DlrApp THEN WithLink(DlrEntry(c), DlrName, dlw.copy.url) ELSE c[n]]
      \in [DOMAIN c \cup {DlrApp} -> Entries]
  BY <1>2, <1>5
<1>7. DOMAIN c \cup {DlrApp} \in SUBSET Apps
  BY <1>2, <1>3
<1>. QED
  BY <1>6, <1>7, ConfigsAre DEF DlrDesired, c

LEMMA WithoutLinkTyped ==
  ASSUME NEW c \in Configs, NEW n, NEW l \in LinkNames
  PROVE  WithoutLink(c, n, l) \in Configs
<1>1. DOMAIN c \subseteq Apps /\ c \in [DOMAIN c -> Entries]
  BY ConfigParts
<1>2. n \in DOMAIN c => WithLink(c[n], l, NoUrl) \in Entries
  BY <1>1, WithLinkTyped
<1>3. n \in DOMAIN c => [c EXCEPT ![n] = WithLink(c[n], l, NoUrl)] \in [DOMAIN c -> Entries]
  BY <1>1, <1>2
<1>. QED
  BY <1>1, <1>3, ConfigsAre DEF WithoutLink

----------------------------------------------------------------------------
(* The invariant is inductive *)

LEMMA InitIInv == Init => IInv
<1>. SUFFICES ASSUME Init PROVE IInv
  OBVIOUS
<1>1. PICK c \in InitialClusters :
        /\ ns = Listed(c.labelled)
        /\ cm = Listed(c.cm)
        /\ deps = [a \in Apps |-> Listed(c.deployed[a])]
  BY DEF Init
<1>2. c.labelled \in BOOLEAN /\ c.cm \in Configs \cup {Absent}
  BY SpecsAssumption
<1>3. ns \in NamespaceObjects
  BY <1>1, <1>2 DEF NamespaceObjects, Coherent, Listed
<1>4. cm \in ConfigObjects
  BY <1>1, <1>2 DEF ConfigObjects, ObjectsOf, ObjectType, Coherent, Listed
<1>5. c.deployed \in [Apps -> Deployments \cup {Absent}]
  BY SpecsAssumption
<1>6. deps \in [Apps -> DeploymentObjects]
  BY <1>1, <1>5 DEF DeploymentObjects, ObjectsOf, ObjectType, Coherent, Listed
<1>7. dnc \in OperandObjects /\ dls \in [LinkKeys -> LinkObjects]
  BY DEF Init, OperandObjects, LinkObjects, ObjectsOf, ObjectType, Coherent, Listed
<1>8. nsw \in NsWorkers /\ cmw \in CmWorkers /\ dncw \in DncWorkers /\ dlw \in DlWorkers
  BY DEF Init, NsWorkers, CmWorkers, DncWorkers, DlWorkers, NsIdle
<1>9. budget \in 0 .. MaxDisturbances
  BY ClusterDisturbancesAssumption DEF Init
<1>. QED
  BY <1>3, <1>4, <1>6, <1>7, <1>8, <1>9 DEF Init, IInv

\* A disturbance spends budget.
LEMMA DisturbTyped ==
  IInv => /\ budget \in 0 .. MaxDisturbances
          /\ \A kind : Disturb(kind) => budget' \in 0 .. MaxDisturbances
BY ClusterDisturbancesAssumption DEF IInv, Disturb

LEMMA InformersStep == IInv /\ Informers => IInv'
<1>. SUFFICES ASSUME IInv, Informers PROVE IInv'
  OBVIOUS
<1>1. CASE DeliverNamespace
  BY <1>1, NamespaceOps DEF DeliverNamespace, IInv, Workers
<1>2. CASE DeliverConfigMap
  BY <1>2, ConfigOps DEF DeliverConfigMap, IInv, Workers
<1>3. CASE DeliverOperand
  BY <1>3, OperandOps DEF DeliverOperand, IInv, Workers
<1>4. ASSUME NEW k \in LinkKeys, DeliverLink(k) PROVE IInv'
  <2>1. Deliver(dls[k]) \in LinkObjects
    BY LinkOps DEF IInv
  <2>2. [dls EXCEPT ![k] = Deliver(dls[k])] \in [LinkKeys -> LinkObjects]
    BY <2>1 DEF IInv
  <2>. QED
    BY <1>4, <2>2 DEF DeliverLink, IInv, Workers
<1>5. ASSUME NEW a \in Apps, DeliverDeployment(a) PROVE IInv'
  <2>1. Deliver(deps[a]) \in DeploymentObjects
    BY DeploymentOps DEF IInv
  <2>2. [deps EXCEPT ![a] = Deliver(deps[a])] \in [Apps -> DeploymentObjects]
    BY <2>1 DEF IInv
  <2>. QED
    BY <1>5, <2>2 DEF DeliverDeployment, IInv, Workers
<1>. QED
  BY <1>1, <1>2, <1>3, <1>4, <1>5 DEF Informers

LEMMA NsrStep == IInv /\ (Nsr \/ NsrApiError) => IInv'
<1>. SUFFICES ASSUME IInv, Nsr \/ NsrApiError PROVE IInv'
  OBVIOUS
<1>. USE DEF NsrElse
<1>0. ns.seen \in BOOLEAN
  BY Parts DEF IInv
<1>1. CASE NsrGet
  BY <1>1, <1>0 DEF NsrGet, IInv, NsWorkers
<1>n. \A pc \in {"import", "config"} : [nsw EXCEPT !.pc = pc] \in NsWorkers
  BY DEF IInv, NsWorkers
<1>i. NsIdle \in NsWorkers
  BY DEF NsIdle, NsWorkers
<1>2. CASE NsrImport
  <2>1. \A m \in Namings : Save(dnc, LiveOperand(m)) \in OperandObjects
    BY LiveOperandTyped, OperandOps DEF IInv
  <2>2. nsw' \in NsWorkers /\ qns' \in BOOLEAN
    BY <1>2, <1>n, <1>i DEF NsrImport, NsrFails, NsrGoto, NsrDone, IInv
  <2>. QED
    BY <1>2, <2>1, <2>2 DEF NsrImport, IInv
<1>3. CASE NsrConfig
  <2>1. cm' \in ConfigObjects
    <3>1. CASE cm.seen = Malformed
      BY <1>3, <3>1 DEF NsrConfig, IInv
    <3>2. CASE cm.seen # Malformed
      <4>1. Save(cm, Generated) \in ConfigObjects
        BY <3>2, GeneratedTyped, ConfigOps DEF IInv
      <4>. QED
        BY <1>3, <3>2, <4>1 DEF NsrConfig
    <3>. QED
      BY <3>1, <3>2
  <2>2. nsw' \in NsWorkers /\ qns' \in BOOLEAN
    BY <1>3, <1>i DEF NsrConfig, NsrFails, NsrDone, IInv
  <2>. QED
    BY <1>3, <2>1, <2>2 DEF NsrConfig, IInv
<1>4. CASE NsrApiError
  BY <1>4, <1>i, DisturbTyped DEF NsrApiError, NsrFails, IInv, Objects
<1>. QED
  BY <1>1, <1>2, <1>3, <1>4 DEF Nsr

\* Where CmrGoto goes, the worker holds what is left to do there.
LEMMA CmrGotoTyped ==
  ASSUME cmw \in CmWorkers, cmw # CmIdle, NEW pc, NEW todo, CmrGoto(pc, todo),
         \/ pc = "links" /\ todo \subseteq LinksOf(cmw.config)
         \/ pc = "prune" /\ todo \subseteq LinkKeys
         \/ pc = "deployments" /\ todo \subseteq DOMAIN cmw.config
  PROVE  cmw' \in CmWorkers
<1>1. cmw.config \in Configs
  BY DEF CmWorkers
<1>2. DOMAIN cmw.config \subseteq Apps
  BY <1>1, ConfigParts
<1>3. LinksOf(cmw.config) \subseteq Apps \X LinkNames
  BY <1>2 DEF LinksOf
<1>4. pc = "links" =>
        [pc |-> pc, config |-> cmw.config, todo |-> todo] \in CmWorkers
  BY <1>1, <1>3 DEF CmWorkers
<1>5. pc = "prune" =>
        [pc |-> pc, config |-> cmw.config, todo |-> todo] \in CmWorkers
  BY <1>1 DEF CmWorkers
<1>6. pc = "deployments" =>
        [pc |-> pc, config |-> cmw.config, todo |-> todo] \in CmWorkers
  BY <1>1, <1>2 DEF CmWorkers
<1>7. [pc |-> "deployments", config |-> cmw.config, todo |-> DOMAIN cmw.config] \in CmWorkers
  BY <1>1, <1>2 DEF CmWorkers
<1>8. CmIdle \in CmWorkers
  BY DEF CmWorkers
<1>. QED
  BY <1>4, <1>5, <1>6, <1>7, <1>8 DEF CmrGoto

\* What the worker holds, by the place it is at.
LEMMA CmWorkerHolds ==
  ASSUME cmw \in CmWorkers, cmw # CmIdle
  PROVE  /\ cmw.config \in Configs /\ cmw.pc # "idle"
         /\ cmw.pc = "links" => cmw.todo \subseteq LinksOf(cmw.config)
         /\ cmw.pc = "prune" => cmw.todo \subseteq LinkKeys
         /\ cmw.pc = "deployments" => cmw.todo \subseteq DOMAIN cmw.config
BY DEF CmWorkers

LEMMA CmrStep == IInv /\ (Cmr \/ CmrApiError) => IInv'
<1>. SUFFICES ASSUME IInv, Cmr \/ CmrApiError PROVE IInv'
  OBVIOUS
<1>. USE DEF CmrElse
<1>w. cmw \in CmWorkers /\ CmIdle \in CmWorkers /\ qcm \in BOOLEAN
  BY DEF IInv, CmWorkers
<1>i. cmw.pc # "idle" => cmw # CmIdle
  BY DEF CmIdle
<1>1. CASE CmrGet
  <2>1. IsConfig(cm.seen) => cm.seen \in Configs
    BY Parts DEF IInv, IsConfig
  <2>2. cmw' \in CmWorkers /\ qcm' \in BOOLEAN
    BY <1>1, <1>w, <2>1 DEF CmrGet, CmWorkers
  <2>. QED
    BY <1>1, <2>2 DEF CmrGet, IInv
<1>2. CASE CmrOperand
  <2>1. cmw # CmIdle
    BY <1>2, <1>i DEF CmrOperand
  <2>2. Save(dnc, ImportedOperand) \in OperandObjects
    BY <2>1, <1>w, CmWorkerHolds, ImportedOperandTyped, OperandOps DEF IInv
  <2>3. cmw' \in CmWorkers /\ qcm' \in BOOLEAN
    <3>1. CASE CmrGoto("links", LinksOf(cmw.config))
      BY <3>1, <1>w, <2>1, CmrGotoTyped DEF CmrGoto
    <3>2. CASE CmrFails
      BY <3>2, <1>w DEF CmrFails
    <3>. QED
      BY <1>2, <3>1, <3>2 DEF CmrOperand
  <2>. QED
    BY <1>2, <2>2, <2>3 DEF CmrOperand, IInv
<1>3. CASE CmrLink
  <2>1. PICK al \in cmw.todo :
          /\ cmw.pc = "links"
          /\ dls' = [dls EXCEPT ![ImportOf(al)] = Save(dls[ImportOf(al)], ImportedLink(al))]
          /\ IF Saved(dls[ImportOf(al)], ImportedLink(al)) THEN CmrGoto("links", cmw.todo \ {al})
                                                           ELSE CmrFails
          /\ UNCHANGED <<ns, cm, qns, qdnc, qdl, nsw, dncw, dlw, budget>>
          /\ UNCHANGED <<dnc, deps>>
    BY <1>3 DEF CmrLink
  <2>2. cmw # CmIdle
    BY <2>1, <1>i
  <2>3. cmw.config \in Configs /\ cmw.todo \subseteq LinksOf(cmw.config)
    BY <2>1, <2>2, <1>w, CmWorkerHolds
  <2>4. ImportOf(al) \in LinkKeys /\ ImportedLink(al) \in DashboardLinks
    BY <2>1, <2>3, ImportedLinkTyped
  <2>5. Save(dls[ImportOf(al)], ImportedLink(al)) \in LinkObjects
    BY <2>4, LinkOps DEF IInv
  <2>6. dls' \in [LinkKeys -> LinkObjects]
    BY <2>1, <2>5 DEF IInv
  <2>7. cmw' \in CmWorkers /\ qcm' \in BOOLEAN
    <3>1. CASE CmrGoto("links", cmw.todo \ {al})
      <4>1. cmw.todo \ {al} \subseteq LinksOf(cmw.config)
        BY <2>3
      <4>2. cmw' \in CmWorkers
        BY <3>1, <4>1, <1>w, <2>2, CmrGotoTyped
      <4>. QED
        BY <3>1, <4>2, <1>w DEF CmrGoto
    <3>2. CASE CmrFails
      BY <3>2, <1>w DEF CmrFails
    <3>. QED
      BY <2>1, <3>1, <3>2
  <2>. QED
    BY <2>1, <2>6, <2>7 DEF IInv
<1>4. CASE CmrList
  <2>1. cmw # CmIdle
    BY <1>4, <1>i DEF CmrList
  <2>2. Superfluous \subseteq LinkKeys
    BY DEF Superfluous
  <2>3. cmw' \in CmWorkers /\ qcm' \in BOOLEAN
    <3>1. CmrGoto("prune", Superfluous)
      BY <1>4 DEF CmrList
    <3>2. cmw' \in CmWorkers
      BY <3>1, <2>1, <2>2, <1>w, CmrGotoTyped
    <3>. QED
      BY <3>1, <3>2, <1>w DEF CmrGoto
  <2>. QED
    BY <1>4, <2>3 DEF CmrList, IInv
<1>5. CASE CmrPrune
  <2>1. PICK k \in cmw.todo :
          /\ cmw.pc = "prune"
          /\ dls' = [dls EXCEPT ![k] = Erase(dls[k])]
          /\ CmrGoto("prune", cmw.todo \ {k})
          /\ UNCHANGED <<ns, cm, qns, qdnc, qdl, nsw, dncw, dlw, budget>>
          /\ UNCHANGED <<dnc, deps>>
    BY <1>5 DEF CmrPrune
  <2>2. cmw # CmIdle
    BY <2>1, <1>i
  <2>3. cmw.todo \subseteq LinkKeys
    BY <2>1, <2>2, <1>w, CmWorkerHolds
  <2>4. Erase(dls[k]) \in LinkObjects
    BY <2>1, <2>3, LinkOps DEF IInv
  <2>5. dls' \in [LinkKeys -> LinkObjects]
    BY <2>1, <2>4 DEF IInv
  <2>6. cmw' \in CmWorkers
    <3>1. cmw.todo \ {k} \subseteq LinkKeys
      BY <2>3
    <3>. QED
      BY <2>1, <2>2, <3>1, <1>w, CmrGotoTyped
  <2>. QED
    BY <2>1, <2>5, <2>6, <1>w DEF IInv, CmrGoto
<1>6. CASE CmrApply
  <2>1. PICK a \in cmw.todo :
          /\ cmw.pc = "deployments"
          /\ deps' = IF deps[a].seen = Absent THEN deps
                     ELSE [deps EXCEPT ![a] = Save(deps[a], Applied(deps[a].seen, a, cmw.config[a]))]
          /\ CmrGoto("deployments", cmw.todo \ {a})
          /\ UNCHANGED <<ns, cm, qns, qdnc, qdl, nsw, dncw, dlw, budget>>
          /\ UNCHANGED <<dnc, dls>>
    BY <1>6 DEF CmrApply
  <2>2. cmw # CmIdle
    BY <2>1, <1>i
  <2>3. cmw.config \in Configs /\ cmw.todo \subseteq DOMAIN cmw.config
    BY <2>1, <2>2, <1>w, CmWorkerHolds
  <2>4. a \in Apps /\ cmw.config[a] \in Entries
    BY <2>1, <2>3, ConfigParts
  <2>5. deps[a] \in DeploymentObjects /\ deps[a].seen \in Deployments \cup {Absent}
    BY <2>4, Parts DEF IInv
  <2>6. deps[a].seen # Absent =>
          Save(deps[a], Applied(deps[a].seen, a, cmw.config[a])) \in DeploymentObjects
    BY <2>4, <2>5, AppliedTyped, DeploymentOps
  <2>7. deps' \in [Apps -> DeploymentObjects]
    BY <2>1, <2>6 DEF IInv
  <2>8. cmw' \in CmWorkers
    <3>1. cmw.todo \ {a} \subseteq DOMAIN cmw.config
      BY <2>3
    <3>. QED
      BY <2>1, <2>2, <3>1, <1>w, CmrGotoTyped
  <2>. QED
    BY <2>1, <2>7, <2>8, <1>w DEF IInv, CmrGoto
<1>7. CASE CmrApiError
  <2>1. cmw # CmIdle
    BY <1>7 DEF CmrApiError
  <2>2. cmw' \in CmWorkers /\ qcm' \in BOOLEAN
    <3>1. ASSUME cmw.pc = "deployments", NEW a \in cmw.todo, CmrGoto("deployments", cmw.todo \ {a})
          PROVE  cmw' \in CmWorkers
      <4>1. cmw.todo \ {a} \subseteq DOMAIN cmw.config
        BY <3>1, <2>1, <1>w, CmWorkerHolds
      <4>. QED
        BY <3>1, <4>1, <2>1, <1>w, CmrGotoTyped
    <3>2. CASE CmrFails
      BY <3>2, <1>w DEF CmrFails
    <3>. QED
      BY <1>7, <1>w, <3>1, <3>2 DEF CmrApiError, CmrGoto
  <2>3. budget' \in 0 .. MaxDisturbances
    BY <1>7, DisturbTyped DEF CmrApiError
  <2>. QED
    BY <1>7, <2>2, <2>3 DEF CmrApiError, IInv, Objects
<1>. QED
  BY <1>1, <1>2, <1>3, <1>4, <1>5, <1>6, <1>7 DEF Cmr

\* The status update writes what the cache has, and only when that is current.
LEMMA DncrStatusTyped ==
  ASSUME IInv, NEW r \in {"True", "False"}, DncrStatus(r)
  PROVE  dnc' \in OperandObjects /\ dncw' \in DncWorkers
<1>1. dnc \in OperandObjects
  BY DEF IInv
<1>2. CASE Current(dnc, "cache")
  <2>1. dnc.seen \in Operands
    BY <1>1, <1>2, Parts, CurrentCopies
  <2>2. [spec |-> dnc.seen.spec, source |-> dnc.seen.source, ready |-> r] \in Operands
    BY <2>1, OperandParts
  <2>3. Put(dnc, [spec |-> dnc.seen.spec, source |-> dnc.seen.source, ready |-> r]) \in OperandObjects
    BY <1>1, <2>2, OperandOps
  <2>. QED
    BY <1>2, <2>3 DEF DncrStatus, DncWorkers
<1>3. CASE ~Current(dnc, "cache")
  BY <1>1, <1>3 DEF DncrStatus, DncWorkers
<1>. QED
  BY <1>2, <1>3

LEMMA DncrStep == IInv /\ (Dncr \/ DncrApiError) => IInv'
<1>. SUFFICES ASSUME IInv, Dncr \/ DncrApiError PROVE IInv'
  OBVIOUS
<1>. USE DEF DncrElse
<1>w. dncw \in DncWorkers /\ qdnc \in BOOLEAN
  BY DEF IInv
<1>h. dncw.pc # "idle" =>
        /\ dncw.copy \in Operands
        /\ \A pc \in {"write", "accept", "reject"} : [dncw EXCEPT !.pc = pc] \in DncWorkers
  BY <1>w DEF DncWorkers, DncIdle
<1>1. CASE DncrGet
  <2>1. dnc.seen \in Operands \cup {Absent}
    BY Parts DEF IInv
  <2>2. dncw' \in DncWorkers /\ qdnc' \in BOOLEAN
    BY <1>1, <2>1 DEF DncrGet, DncWorkers
  <2>. QED
    BY <1>1, <2>2 DEF DncrGet, IInv
<1>2. CASE DncrLabel
  <2>1. Save(ns, TRUE) \in NamespaceObjects
    BY NamespaceOps DEF IInv
  <2>2. dncw' \in DncWorkers
    BY <1>2, <1>h DEF DncrLabel, DncrGoto
  <2>. QED
    BY <1>2, <2>1, <2>2 DEF DncrLabel, DncrGoto, IInv
<1>3. CASE DncrWrite
  <2>1. dncw' \in DncWorkers
    BY <1>3, <1>h DEF DncrWrite, DncrGoto
  <2>2. cm' \in ConfigObjects
    <3>1. CASE cm.seen = Malformed
      BY <1>3, <3>1 DEF DncrWrite, IInv
    <3>2. CASE cm.seen # Malformed
      <4>1. dncw.copy \in Operands
        BY <1>3, <1>h DEF DncrWrite
      <4>2. Save(cm, DncrDesired) \in ConfigObjects
        BY <3>2, <4>1, DncrDesiredTyped, ConfigOps DEF IInv
      <4>. QED
        BY <1>3, <3>2, <4>2 DEF DncrWrite
    <3>. QED
      BY <3>1, <3>2
  <2>. QED
    BY <1>3, <2>1, <2>2 DEF DncrWrite, DncrGoto, IInv
<1>4. CASE DncrAccept
  <2>1. dnc' \in OperandObjects /\ dncw' \in DncWorkers
    BY <1>4, DncrStatusTyped DEF DncrAccept
  <2>2. qdnc' \in BOOLEAN
    BY <1>4, <1>w DEF DncrAccept
  <2>. QED
    BY <1>4, <2>1, <2>2 DEF DncrAccept, IInv
<1>5. CASE DncrReject
  <2>1. dnc' \in OperandObjects /\ dncw' \in DncWorkers
    BY <1>5, DncrStatusTyped DEF DncrReject
  <2>. QED
    BY <1>5, <2>1 DEF DncrReject, IInv
<1>6. CASE DncrApiError
  <2>1. dncw' \in DncWorkers /\ qdnc' \in BOOLEAN
    BY <1>6, <1>w, <1>h DEF DncrApiError, DncWorkers
  <2>2. budget' \in 0 .. MaxDisturbances
    BY <1>6, DisturbTyped DEF DncrApiError
  <2>. QED
    BY <1>6, <2>1, <2>2 DEF DncrApiError, IInv, Objects
<1>. QED
  BY <1>1, <1>2, <1>3, <1>4, <1>5, <1>6 DEF Dncr

\* Writing the link and returning keeps everything typed.
LEMMA DlrReturnTyped ==
  ASSUME IInv, dlw.key \in LinkKeys, NEW h, NEW b, DlrReturn(h, b),
         Current(dls[dlw.key], h) => b \in DashboardLinks \cup {Absent}
  PROVE  /\ dls' \in [LinkKeys -> LinkObjects]
         /\ qdl' \in SUBSET LinkKeys /\ dlw' \in DlWorkers
<1>1. dls[dlw.key] \in LinkObjects
  BY DEF IInv
<1>2. \A o \in LinkObjects : Release(o, "dlr") \in LinkObjects
  BY LinkOps
<1>3. Current(dls[dlw.key], h) => Put(dls[dlw.key], b) \in LinkObjects
  BY <1>1, LinkOps
<1>4. Release(IF Current(dls[dlw.key], h) THEN Put(dls[dlw.key], b) ELSE dls[dlw.key], "dlr")
        \in LinkObjects
  BY <1>1, <1>2, <1>3
<1>5. dls' \in [LinkKeys -> LinkObjects]
  BY <1>4 DEF DlrReturn, Key, IInv
<1>. QED
  BY <1>5 DEF DlrReturn, Key, IInv, DlWorkers

LEMMA DlrStep == IInv /\ (Dlr \/ DlrApiError) => IInv'
<1>. SUFFICES ASSUME IInv, Dlr \/ DlrApiError PROVE IInv'
  OBVIOUS
<1>. USE DEF DlrElse
<1>w. dlw \in DlWorkers /\ qdl \subseteq LinkKeys
  BY DEF IInv
<1>h. dlw.pc # "idle" =>
        /\ dlw.key \in LinkKeys /\ dlw.copy \in DashboardLinks
        /\ \A pc \in {"write", "accept", "reject", "release"} : [dlw EXCEPT !.pc = pc] \in DlWorkers
  BY <1>w DEF DlWorkers, DlIdle
<1>i. dlw # DlIdle => dlw.pc # "idle"
  BY <1>w DEF DlWorkers
<1>1. ASSUME NEW k \in LinkKeys, DlrGet(k) PROVE IInv'
  <2>1. dls[k] \in LinkObjects /\ dls[k].seen \in DashboardLinks \cup {Absent}
    BY Parts DEF IInv
  <2>2. Branch(dls[k].seen) # "idle" =>
          /\ dls[k].seen \in DashboardLinks
          /\ Branch(dls[k].seen) \in {"unlink", "reject", "finalizer", "label"}
    BY <2>1 DEF Branch
  <2>3. [dls EXCEPT ![k] = Fetch(dls[k], "dlr")] \in [LinkKeys -> LinkObjects]
    BY <2>1, LinkOps DEF IInv
  <2>4. Branch(dls[k].seen) # "idle" =>
          [pc |-> Branch(dls[k].seen), key |-> k, copy |-> dls[k].seen] \in DlWorkers
    BY <2>2 DEF DlWorkers
  <2>5. dls' \in [LinkKeys -> LinkObjects] /\ dlw' \in DlWorkers /\ qdl' \in SUBSET LinkKeys
    BY <1>1, <1>w, <2>3, <2>4 DEF DlrGet, IInv
  <2>. QED
    BY <1>1, <2>5 DEF DlrGet, IInv
<1>2. CASE DlrAddFinalizer
  <2>1. dlw.key \in LinkKeys /\ [dlw.copy EXCEPT !.final = TRUE] \in DashboardLinks
    BY <1>2, <1>h, LinkParts DEF DlrAddFinalizer
  <2>2. /\ dls' \in [LinkKeys -> LinkObjects]
        /\ qdl' \in SUBSET LinkKeys /\ dlw' \in DlWorkers
    BY <1>2, <2>1, DlrReturnTyped DEF DlrAddFinalizer
  <2>. QED
    BY <1>2, <2>2 DEF DlrAddFinalizer, IInv
<1>3. CASE DlrLabel
  <2>1. Save(ns, TRUE) \in NamespaceObjects
    BY NamespaceOps DEF IInv
  <2>2. dlw' \in DlWorkers
    BY <1>3, <1>h DEF DlrLabel, DlrGoto
  <2>. QED
    BY <1>3, <2>1, <2>2 DEF DlrLabel, DlrGoto, IInv
<1>4. CASE DlrWrite
  <2>1. dlw' \in DlWorkers /\ dlw.key \in LinkKeys /\ dlw.copy \in DashboardLinks
    BY <1>4, <1>h DEF DlrWrite, DlrGoto
  <2>2. cm' \in ConfigObjects
    <3>1. CASE cm.seen = Malformed
      BY <1>4, <3>1 DEF DlrWrite, IInv
    <3>2. CASE cm.seen # Malformed
      <4>1. Save(cm, DlrDesired) \in ConfigObjects
        BY <3>2, <2>1, DlrDesiredTyped, ConfigOps DEF IInv
      <4>. QED
        BY <1>4, <3>2, <4>1 DEF DlrWrite
    <3>. QED
      BY <3>1, <3>2
  <2>. QED
    BY <1>4, <2>1, <2>2 DEF DlrWrite, DlrGoto, IInv
<1>5. CASE DlrAccept
  <2>1. dlw.key \in LinkKeys
    BY <1>5, <1>h DEF DlrAccept
  <2>2. Current(dls[dlw.key], "cache") => dls[dlw.key].seen \in DashboardLinks
    BY <2>1, Parts, CurrentCopies DEF IInv
  <2>3. Current(dls[dlw.key], "cache") => WithStatus(dls[dlw.key].seen, "True") \in DashboardLinks
    BY <2>2, LinkParts
  <2>4. DlrReturn("cache", WithStatus(dls[dlw.key].seen, "True"))
    BY <1>5 DEF DlrAccept, Key
  <2>5. /\ dls' \in [LinkKeys -> LinkObjects]
        /\ qdl' \in SUBSET LinkKeys /\ dlw' \in DlWorkers
    BY <2>1, <2>3, <2>4, DlrReturnTyped
  <2>. QED
    BY <1>5, <2>5 DEF DlrAccept, IInv
<1>6. CASE DlrReject
  <2>1. dlw.key \in LinkKeys
    BY <1>6, <1>h DEF DlrReject
  <2>2. dls[dlw.key] \in LinkObjects
    BY <2>1 DEF IInv
  <2>3. Current(dls[dlw.key], "cache") => WithStatus(dls[dlw.key].seen, "False") \in DashboardLinks
    BY <2>2, Parts, CurrentCopies, LinkParts
  <2>4. Current(dls[dlw.key], "cache") =>
          Put(dls[dlw.key], WithStatus(dls[dlw.key].seen, "False")) \in LinkObjects
    BY <2>2, <2>3, LinkOps
  <2>5. Release(IF Current(dls[dlw.key], "cache")
                  THEN Put(dls[dlw.key], WithStatus(dls[dlw.key].seen, "False"))
                  ELSE dls[dlw.key], "dlr") \in LinkObjects
    BY <2>2, <2>4, LinkOps
  <2>6. dls' \in [LinkKeys -> LinkObjects]
    BY <1>6, <2>5 DEF DlrReject, Key, IInv
  <2>7. qdl' \in SUBSET LinkKeys /\ dlw' \in DlWorkers
    BY <1>6, <1>w, <2>1 DEF DlrReject, Key, DlWorkers
  <2>. QED
    BY <1>6, <2>6, <2>7 DEF DlrReject, IInv
<1>7. CASE DlrUnlink
  <2>1. dlw' \in DlWorkers
    BY <1>7, <1>h DEF DlrUnlink, DlrGoto
  <2>2. DlrName \in LinkNames
    BY <1>7, <1>h DEF DlrUnlink, DlrName, LinkKeys
  <2>3. cm' \in ConfigObjects
    <3>1. CASE cm.seen = Malformed \/ cm.seen = Absent
      BY <1>7, <3>1 DEF DlrUnlink, IInv
    <3>2. CASE cm.seen # Malformed /\ cm.seen # Absent
      <4>1. cm.seen \in Configs
        BY <3>2, Parts DEF IInv
      <4>2. Save(cm, WithoutLink(cm.seen, DlrApp, DlrName)) \in ConfigObjects
        BY <2>2, <4>1, WithoutLinkTyped, ConfigOps DEF IInv
      <4>. QED
        BY <1>7, <3>2, <4>2 DEF DlrUnlink
    <3>. QED
      BY <3>1, <3>2
  <2>. QED
    BY <1>7, <2>1, <2>3 DEF DlrUnlink, DlrGoto, IInv
<1>8. CASE DlrRelease
  <2>1. dlw.key \in LinkKeys
    BY <1>8, <1>h DEF DlrRelease
  <2>2. /\ dls' \in [LinkKeys -> LinkObjects]
        /\ qdl' \in SUBSET LinkKeys /\ dlw' \in DlWorkers
    BY <1>8, <2>1, DlrReturnTyped DEF DlrRelease
  <2>. QED
    BY <1>8, <2>2 DEF DlrRelease, IInv
<1>9. CASE DlrApiError
  <2>1. dlw.key \in LinkKeys
    BY <1>9, <1>h, <1>i DEF DlrApiError
  <2>2. [dls EXCEPT ![dlw.key] = Release(dls[dlw.key], "dlr")] \in [LinkKeys -> LinkObjects]
    BY <2>1, LinkOps DEF IInv
  <2>3. dls' \in [LinkKeys -> LinkObjects] /\ qdl' \in SUBSET LinkKeys /\ dlw' \in DlWorkers
    BY <1>9, <1>w, <1>h, <1>i, <2>1, <2>2 DEF DlrApiError, DlrGoto, Key, DlWorkers, IInv
  <2>4. budget' \in 0 .. MaxDisturbances
    BY <1>9, DisturbTyped DEF DlrApiError
  <2>. QED
    BY <1>9, <2>3, <2>4 DEF DlrApiError, IInv
<1>. QED
  BY <1>1, <1>2, <1>3, <1>4, <1>5, <1>6, <1>7, <1>8, <1>9 DEF Dlr

LEMMA DisturbancesStep == IInv /\ Disturbances => IInv'
<1>. SUFFICES ASSUME IInv, Disturbances PROVE IInv'
  OBVIOUS
<1>. USE DEF Queues, Workers, Objects
<1>1. CASE UserLabelsNamespace
  <2>1. (~ns.obj) \in BOOLEAN
    OBVIOUS
  <2>2. Put(ns, ~ns.obj) \in NamespaceObjects
    BY <2>1, NamespaceOps DEF IInv
  <2>. QED
    BY <1>1, <2>2, DisturbTyped DEF UserLabelsNamespace, IInv
<1>2. ASSUME NEW b \in Configs \cup {Malformed, Absent}, UserWritesConfigMap(b) PROVE IInv'
  <2>1. Put(cm, b) \in ConfigObjects
    BY ConfigOps DEF IInv
  <2>. QED
    BY <1>2, <2>1, DisturbTyped DEF UserWritesConfigMap, IInv
<1>3. CASE UserEditsConfigMap
  <2>1. cm.obj \in Configs \cup {Malformed, Absent}
    BY Parts DEF IInv
  <2>2. ASSUME NEW a \in Apps, NEW e \in UserEntries, NEW c \in Configs,
               UserWritesConfigMap([n \in DOMAIN c \cup {a} |-> IF n = a THEN e ELSE c[n]])
        PROVE  IInv'
    <3>1. DOMAIN c \cup {a} \in SUBSET Apps /\ c \in [DOMAIN c -> Entries] /\ e \in Entries
      BY ConfigParts, SpecsAssumption
    <3>2. [n \in DOMAIN c \cup {a} |-> IF n = a THEN e ELSE c[n]] \in [DOMAIN c \cup {a} -> Entries]
      BY <3>1
    <3>3. [n \in DOMAIN c \cup {a} |-> IF n = a THEN e ELSE c[n]] \in Configs
      BY <3>1, <3>2, ConfigsAre
    <3>. QED
      BY <2>2, <3>3, <1>2
  <2>3. (IF IsConfig(cm.obj) THEN cm.obj ELSE NoConfig) \in Configs
    BY <2>1, ConfigsAre DEF IsConfig
  <2>4. ASSUME IsConfig(cm.obj), NEW a \in DOMAIN cm.obj,
               UserWritesConfigMap([n \in (DOMAIN cm.obj) \ {a} |-> cm.obj[n]])
        PROVE  IInv'
    <3>1. cm.obj \in Configs
      BY <2>1, <2>4 DEF IsConfig
    <3>2. (DOMAIN cm.obj) \ {a} \in SUBSET Apps /\ cm.obj \in [DOMAIN cm.obj -> Entries]
      BY <3>1, ConfigParts
    <3>3. [n \in (DOMAIN cm.obj) \ {a} |-> cm.obj[n]] \in [(DOMAIN cm.obj) \ {a} -> Entries]
      BY <3>2
    <3>4. [n \in (DOMAIN cm.obj) \ {a} |-> cm.obj[n]] \in Configs
      BY <3>2, <3>3, ConfigsAre
    <3>. QED
      BY <2>4, <3>4, <1>2
  <2>5. UserWritesConfigMap(Malformed) => IInv'
    BY <1>2
  <2>6. UserWritesConfigMap(Absent) => IInv'
    BY <1>2
  <2>. QED
    BY <1>3, <2>2, <2>3, <2>4, <2>5, <2>6 DEF UserEditsConfigMap
<1>4. CASE UserEditsOperand
  <2>1. dnc \in OperandObjects /\ dnc.obj \in Operands \cup {Absent}
    BY Parts DEF IInv
  <2>2. \A s \in UserSpecs :
          (IF dnc.obj = Absent THEN NewOperand(s, "user") ELSE [dnc.obj EXCEPT !.spec = s]) \in Operands
    BY <2>1, SpecsAssumption, NewBodies, OperandParts
  <2>3. dnc' \in OperandObjects
    BY <1>4, <2>1, <2>2, OperandOps DEF UserEditsOperand
  <2>. QED
    BY <1>4, <2>3, DisturbTyped DEF UserEditsOperand, IInv
<1>5. CASE UserAddsLink
  <2>1. PICK k \in LinkKeys, u \in Urls :
          /\ Disturb("newlink")
          /\ dls' = [dls EXCEPT ![k] = Put(dls[k], NewLink(u, FALSE))]
          /\ UNCHANGED <<ns, cm, dnc, deps, Queues, Workers>>
    BY <1>5 DEF UserAddsLink
  <2>2. Put(dls[k], NewLink(u, FALSE)) \in LinkObjects
    BY NewBodies, LinkOps DEF IInv
  <2>3. dls' \in [LinkKeys -> LinkObjects]
    BY <2>1, <2>2 DEF IInv
  <2>. QED
    BY <2>1, <2>3, DisturbTyped DEF IInv
<1>6. CASE UserEditsLink
  <2>1. PICK k \in LinkKeys :
          /\ Disturb("link")
          /\ dls[k].obj # Absent
          /\ \/ \E u \in Urls \cup {NoUrl} :
                  dls' = [dls EXCEPT ![k] = Put(dls[k], [dls[k].obj EXCEPT !.url = u])]
             \/ dls' = [dls EXCEPT ![k] = Put(dls[k], [dls[k].obj EXCEPT !.imported = FALSE])]
             \/ dls' = [dls EXCEPT ![k] = Erase(dls[k])]
          /\ UNCHANGED <<ns, cm, dnc, deps, Queues, Workers>>
    BY <1>6 DEF UserEditsLink
  <2>2. dls[k] \in LinkObjects /\ dls[k].obj \in DashboardLinks
    BY <2>1, Parts DEF IInv
  <2>3. \A u \in Urls \cup {NoUrl} : Put(dls[k], [dls[k].obj EXCEPT !.url = u]) \in LinkObjects
    BY <2>2, LinkParts, LinkOps
  <2>4. Put(dls[k], [dls[k].obj EXCEPT !.imported = FALSE]) \in LinkObjects
    BY <2>2, LinkParts, LinkOps
  <2>5. Erase(dls[k]) \in LinkObjects
    BY <2>2, LinkOps
  <2>6. dls' \in [LinkKeys -> LinkObjects]
    BY <2>1, <2>3, <2>4, <2>5 DEF IInv
  <2>. QED
    BY <2>1, <2>6, DisturbTyped DEF IInv
<1>7. CASE Rollout
  <2>1. PICK a \in Apps :
          /\ Disturb("deployment")
          /\ \/ deps' = [deps EXCEPT ![a] = Put(deps[a],
                  [shown |-> FALSE, text |-> ZeroEntry.text, links |-> NoLinks])]
             \/ deps' = [deps EXCEPT ![a] = Put(deps[a], Absent)]
          /\ UNCHANGED <<ns, cm, dnc, dls, Queues, Workers>>
    BY <1>7 DEF Rollout, NewDeployment
  <2>2. [shown |-> FALSE, text |-> ZeroEntry.text, links |-> NoLinks] \in Deployments
    BY ZeroEntryType DEF Deployments, Entries, NoLinks, LinkLists
  <2>3. deps' \in [Apps -> DeploymentObjects]
    BY <2>1, <2>2, DeploymentOps DEF IInv
  <2>. QED
    BY <2>1, <2>3, DisturbTyped DEF IInv
<1>8. CASE Resync
  <2>1. qns' \in BOOLEAN /\ qcm' \in BOOLEAN /\ qdnc' \in BOOLEAN /\ qdl' \in SUBSET LinkKeys
    BY <1>8 DEF Resync, Enqueued, IInv
  <2>. QED
    BY <1>8, <2>1, DisturbTyped DEF Resync, IInv
<1>9. CASE Restart
  <2>1. ns' \in NamespaceObjects
    BY <1>9, NamespaceOps, Parts DEF Restart, IInv
  <2>2. cm' \in ConfigObjects
    <3>1. cm.obj \in Configs \cup {Malformed, Absent}
      BY Parts DEF IInv
    <3>. QED
      BY <1>9, <3>1, ConfigOps DEF Restart, IInv
  <2>3. dnc' \in OperandObjects
    BY <1>9, OperandOps, Parts DEF Restart, IInv
  <2>4. dls' \in [LinkKeys -> LinkObjects]
    <3>1. \A k \in LinkKeys : dls[k] \in LinkObjects
      BY DEF IInv
    <3>2. \A k \in LinkKeys : dls[k].obj \in DashboardLinks \cup {Absent}
      BY <3>1, Parts
    <3>3. \A k \in LinkKeys : Listed(dls[k].obj) \in LinkObjects
      BY <3>1, <3>2, LinkOps
    <3>. QED
      BY <1>9, <3>3 DEF Restart
  <2>5. deps' \in [Apps -> DeploymentObjects]
    <3>1. \A a \in Apps : Listed(deps[a].obj) \in DeploymentObjects
      BY DeploymentOps, Parts DEF IInv
    <3>. QED
      BY <1>9, <3>1 DEF Restart
  <2>6. nsw' \in NsWorkers /\ cmw' \in CmWorkers /\ dncw' \in DncWorkers /\ dlw' \in DlWorkers
    BY <1>9 DEF Restart, NsWorkers, NsIdle, CmWorkers, DncWorkers, DlWorkers
  <2>7. qns' \in BOOLEAN /\ qcm' \in BOOLEAN /\ qdnc' \in BOOLEAN /\ qdl' \in SUBSET LinkKeys
    BY <1>9 DEF Restart
  <2>8. budget' \in 0 .. MaxDisturbances
    BY <1>9, DisturbTyped DEF Restart
  <2>. QED
    BY <2>1, <2>2, <2>3, <2>4, <2>5, <2>6, <2>7, <2>8 DEF IInv
<1>. QED
  BY <1>1, <1>3, <1>4, <1>5, <1>6, <1>7, <1>8, <1>9 DEF Disturbances, Users

LEMMA StepIInv == IInv /\ [Next]_vars => IInv'
<1>1. IInv /\ UNCHANGED vars => IInv'
  BY DEF vars, IInv
<1>. QED
  BY <1>1, InformersStep, NsrStep, CmrStep, DncrStep, DlrStep, DisturbancesStep
     DEF Next, Controllers, ApiErrors

----------------------------------------------------------------------------
\* Whatever four controllers, users and faults do, every variable holds the kind
\* of value the code gives it.
THEOREM TypeCorrect == Spec => []TypeOK
<1>1. Spec => []IInv
  BY InitIInv, StepIInv, PTL DEF Spec
<1>. QED
  BY <1>1, IInvImpliesTypeOK, PTL

----------------------------------------------------------------------------
\* What saving does to the object on the server: nothing, or it was the cached
\* copy, and is now b.
LEMMA SaveEffect ==
  ASSUME NEW Body, NEW Holders, NEW o \in ObjectsOf(Body, Holders), NEW b
  PROVE  \/ Save(o, b).obj = o.obj
         \/ Save(o, b).obj = b /\ o.seen = o.obj
         \/ Save(o, b).obj = b /\ o.obj = Absent
BY DEF ObjectsOf, ObjectType, Coherent, Save, Accepted, Current, Put

\* The steps of NSR: only NsrConfig writes the ConfigMap.
LEMMA NsrWritesBy ==
  IInv /\ [Next]_vars /\ nsw # nsw' /\ ~Disturbed => NsrGet \/ NsrImport \/ NsrConfig
<1>. SUFFICES ASSUME IInv, Next, nsw # nsw', budget' = budget
              PROVE  NsrGet \/ NsrImport \/ NsrConfig
  BY DEF vars, Disturbed
<1>1. ~Informers
  BY DEF Informers, DeliverNamespace, DeliverConfigMap, DeliverOperand, DeliverLink,
         DeliverDeployment, Workers
<1>2. ~Cmr
  BY DEF Cmr, CmrElse, CmrGet, CmrOperand, CmrLink, CmrList, CmrPrune, CmrApply
<1>3. ~Dncr
  BY DEF Dncr, DncrElse, DncrGet, DncrLabel, DncrWrite, DncrAccept, DncrReject
<1>4. ~Dlr
  BY DEF Dlr, DlrElse, DlrGet, DlrAddFinalizer, DlrLabel, DlrWrite, DlrAccept, DlrReject,
         DlrUnlink, DlrRelease
<1>5. \A kind : ~Disturb(kind)
  BY DEF Disturb, IInv
<1>6. ~Disturbances
  BY <1>5 DEF Disturbances, Users, UserLabelsNamespace, UserEditsConfigMap, UserWritesConfigMap,
         UserEditsOperand, UserAddsLink, UserEditsLink, Rollout, Resync, Restart
<1>7. ~ApiErrors
  BY <1>5 DEF ApiErrors, NsrApiError, CmrApiError, DncrApiError, DlrApiError
<1>. QED
  BY <1>1, <1>2, <1>3, <1>4, <1>6, <1>7 DEF Next, Controllers, Nsr

LEMMA KeepsItself == \A c : Keeps(c, c)
BY DEF Keeps

\* When NSR's write is taken, it is the merge of what was there.
LEMMA NsrConfigKeeps ==
  ASSUME IInv, NsrConfig, IsConfig(cm.obj), cm'.obj # cm.obj
  PROVE  IsConfig(cm'.obj) /\ Keeps(cm.obj, cm'.obj)
<1>1. cm.seen # Malformed /\ cm' = Save(cm, Generated)
  BY DEF NsrConfig
<1>2. cm \in ObjectsOf(Configs \cup {Malformed}, {"cache"})
  BY DEF IInv, ConfigObjects
<1>3. cm'.obj = Generated /\ cm.seen = cm.obj
  BY <1>1, <1>2, SaveEffect DEF IsConfig
<1>4. cm.obj \in Configs
  BY Parts DEF IInv, IsConfig
<1>5. Generated = Completed(cm.obj, Discovered, Fields \cap {"primaryRoute"})
  BY <1>3 DEF Generated, MergedByNamespace, IsConfig
<1>6. Generated \in Configs /\ Keeps(cm.obj, Generated)
  BY <1>4, <1>5, DiscoveredIs, CompletedKeeps
<1>. QED
  BY <1>3, <1>6, ClusterAbsentAssumption, SpecsAssumption DEF IsConfig

\* NSR never takes from an entry of the ConfigMap, whoever writes in between: it
\* works on its cached copy, and the server takes the result only when that copy
\* is what it has.
THEOREM EntriesAreKept == Spec => EntriesKept
<1>1. Spec => []IInv
  BY InitIInv, StepIInv, PTL DEF Spec
<1>2. IInv /\ [Next]_vars
        => [nsw # nsw' /\ ~Disturbed /\ IsConfig(cm.obj)
              => IsConfig(cm'.obj) /\ Keeps(cm.obj, cm'.obj)]_vars
  <2>. SUFFICES ASSUME IInv, [Next]_vars, nsw # nsw', ~Disturbed, IsConfig(cm.obj)
                PROVE  IsConfig(cm'.obj) /\ Keeps(cm.obj, cm'.obj)
    OBVIOUS
  <2>1. NsrGet \/ NsrImport \/ NsrConfig
    BY NsrWritesBy
  <2>2. CASE cm'.obj = cm.obj
    BY <2>2, KeepsItself
  <2>3. CASE NsrConfig /\ cm'.obj # cm.obj
    BY <2>3, NsrConfigKeeps
  <2>. QED
    BY <2>1, <2>2, <2>3 DEF NsrGet, NsrElse, NsrImport
<1>. QED
  BY <1>1, <1>2, PTL DEF Spec, EntriesKept

----------------------------------------------------------------------------
\* Importing leaves a user's operand as it is: what it saves is what it has read.
LEMMA SaveKeepsUserOperand ==
  ASSUME NEW o \in OperandObjects, NEW b, o.obj # Absent, o.obj.source = "user",
         o.seen # Absent /\ o.seen.source = "user" => b = o.seen
  PROVE  Save(o, b).obj = o.obj
<1>1. o \in ObjectsOf(Operands, {"cache"})
  BY DEF OperandObjects
<1>. QED
  BY <1>1, SaveEffect

\* The steps of the controllers, when nobody disturbs them.
LEMMA ControllersOnly ==
  IInv /\ Next /\ budget' = budget => Informers \/ Nsr \/ Cmr \/ Dncr \/ Dlr
<1>. SUFFICES ASSUME IInv, Next, budget' = budget
              PROVE  Informers \/ Nsr \/ Cmr \/ Dncr \/ Dlr
  OBVIOUS
<1>1. \A kind : ~Disturb(kind)
  BY DEF Disturb, IInv
<1>2. ~Disturbances
  BY <1>1 DEF Disturbances, Users, UserLabelsNamespace, UserEditsConfigMap, UserWritesConfigMap,
         UserEditsOperand, UserAddsLink, UserEditsLink, Rollout, Resync, Restart
<1>3. ~ApiErrors
  BY <1>1 DEF ApiErrors, NsrApiError, CmrApiError, DncrApiError, DlrApiError
<1>. QED
  BY <1>2, <1>3 DEF Next, Controllers

\* No import takes over or rewrites an operand that is a user's own, and its own
\* controller writes nothing but the status.
THEOREM UserOperandsKept == Spec => UserOperandKept
<1>1. Spec => []IInv
  BY InitIInv, StepIInv, PTL DEF Spec
<1>2. IInv /\ [Next]_vars
        => [~Disturbed /\ dnc.obj # Absent /\ dnc.obj.source = "user"
              => dnc'.obj # Absent /\ dnc'.obj.source = "user" /\ dnc'.obj.spec = dnc.obj.spec]_vars
  <2>. SUFFICES ASSUME IInv, Next, budget' = budget, dnc.obj # Absent, dnc.obj.source = "user"
                PROVE  dnc'.obj # Absent /\ dnc'.obj.source = "user" /\ dnc'.obj.spec = dnc.obj.spec
    BY DEF Disturbed, vars
  <2>0. dnc \in OperandObjects
    BY DEF IInv
  <2>1. CASE dnc'.obj = dnc.obj
    BY <2>1
  <2>2. CASE Informers
    <3>1. Deliver(dnc).obj = dnc.obj
      BY DEF Deliver
    <3>. QED
      BY <2>1, <2>2, <3>1 DEF Informers, DeliverNamespace, DeliverConfigMap, DeliverOperand,
           DeliverLink, DeliverDeployment
  <2>3. CASE Nsr
    <3>1. dnc.seen # Absent /\ dnc.seen.source = "user" => \A m : LiveOperand(m) = dnc.seen
      BY DEF LiveOperand
    <3>2. \A m : Save(dnc, LiveOperand(m)).obj = dnc.obj
      BY <2>0, <3>1, SaveKeepsUserOperand
    <3>. QED
      BY <2>1, <2>3, <3>2 DEF Nsr, NsrGet, NsrImport, NsrConfig, NsrElse
  <2>4. CASE Cmr
    <3>1. dnc.seen # Absent /\ dnc.seen.source = "user" => ImportedOperand = dnc.seen
      BY DEF ImportedOperand
    <3>2. Save(dnc, ImportedOperand).obj = dnc.obj
      BY <2>0, <3>1, SaveKeepsUserOperand
    <3>. QED
      BY <2>1, <2>4, <3>2 DEF Cmr, CmrGet, CmrOperand, CmrLink, CmrList, CmrPrune, CmrApply, CmrElse
  <2>5. CASE Dncr
    <3>1. CASE DncrAccept \/ DncrReject
      <4>1. PICK r \in {"True", "False"} : DncrStatus(r)
        BY <3>1 DEF DncrAccept, DncrReject
      <4>2. Current(dnc, "cache") =>
              dnc' = Put(dnc, [spec |-> dnc.obj.spec, source |-> "user", ready |-> r])
        BY <2>0, <4>1, CurrentCopies DEF DncrStatus
      <4>3. ~Current(dnc, "cache") => dnc' = dnc
        BY <4>1 DEF DncrStatus
      <4>4. [spec |-> dnc.obj.spec, source |-> "user", ready |-> r] # Absent
        <5>1. dnc.obj \in Operands
          BY <2>0, Parts
        <5>2. [spec |-> dnc.obj.spec, source |-> "user", ready |-> r] \in Operands
          BY <5>1 DEF Operands
        <5>. QED
          BY <5>2, ClusterAbsentAssumption
      <4>. QED
        BY <4>2, <4>3, <4>4 DEF Put
    <3>2. CASE DncrGet \/ DncrLabel \/ DncrWrite
      BY <2>1, <3>2 DEF DncrGet, DncrLabel, DncrWrite, DncrGoto
    <3>. QED
      BY <2>5, <3>1, <3>2 DEF Dncr
  <2>6. CASE Dlr
    BY <2>1, <2>6 DEF Dlr, DlrElse, DlrGet, DlrAddFinalizer, DlrLabel, DlrWrite, DlrAccept,
         DlrReject, DlrUnlink, DlrRelease
  <2>. QED
    BY <2>2, <2>3, <2>4, <2>5, <2>6, ControllersOnly
<1>. QED
  BY <1>1, <1>2, PTL DEF Spec, UserOperandKept
=============================================================================
