------------------------- MODULE NamespacePipeline -------------------------
(***************************************************************************)
(* The four controllers of a namespace at work on the same objects: the    *)
(* ConfigMap is imported into operands, the operands are written back into *)
(* it, and neither of the two directions knows of the other.               *)
(***************************************************************************)
EXTENDS NamespaceController, ConfigMapController, OperandController, LinkController

\* The operator starts on a cluster with some deployments, annotated or not, a
\* namespace that is labelled or not, and possibly a ConfigMap that somebody wrote.
Init ==
  /\ \E c \in InitialClusters :
       /\ ns = Listed(c.labelled)
       /\ cm = Listed(c.cm)
       /\ deps = [a \in Apps |-> Listed(c.deployed[a])]
  /\ dnc = Listed(Absent)
  /\ dls = [k \in LinkKeys |-> Listed(Absent)]
  /\ qns = TRUE /\ qcm = (cm.obj # Absent) /\ qdnc = FALSE /\ qdl = {}
  /\ nsw = NsIdle /\ cmw = CmIdle /\ dncw = DncIdle /\ dlw = DlIdle
  /\ budget = MaxDisturbances

Controllers == Nsr \/ Cmr \/ Dncr \/ Dlr

ApiErrors == NsrApiError \/ CmrApiError \/ DncrApiError \/ DlrApiError

Next == Informers \/ Controllers \/ Disturbances \/ ApiErrors

Spec == Init /\ [][Next]_vars

\* Watches deliver, a worker whose queue is not empty works, and its queue is
\* first in first out: every key has its turn, however often others are requeued.
Fairness ==
  /\ WF_vars(DeliverNamespace) /\ WF_vars(DeliverConfigMap) /\ WF_vars(DeliverOperand)
  /\ \A k \in LinkKeys : WF_vars(DeliverLink(k))
  /\ \A a \in Apps : WF_vars(DeliverDeployment(a))
  /\ WF_vars(Nsr) /\ WF_vars(Cmr) /\ WF_vars(Dncr) /\ WF_vars(Dlr)
  /\ \A k \in LinkKeys : SF_vars(DlrGet(k))

FairSpec == Spec /\ Fairness

----------------------------------------------------------------------------
(* Properties *)

TypeOK ==
  /\ ns \in [obj : BOOLEAN, seen : BOOLEAN, fresh : SUBSET {"cache"}]
  /\ cm \in ObjectType(Configs \cup {Malformed}, {"cache"})
  /\ dnc \in ObjectType(Operands, {"cache"})
  /\ dls \in [LinkKeys -> ObjectType(DashboardLinks, {"cache", "dlr"})]
  /\ deps \in [Apps -> ObjectType(Deployments, {"cache"})]
  /\ qns \in BOOLEAN /\ qcm \in BOOLEAN /\ qdnc \in BOOLEAN /\ qdl \subseteq LinkKeys
  /\ nsw \in [pc : {"idle", "import", "config"}, labelled : BOOLEAN]
  /\ cmw \in [pc : {"idle", "operand", "links", "prune", "deployments"}, config : Configs,
              todo : (SUBSET (Apps \X LinkNames)) \cup (SUBSET LinkKeys) \cup (SUBSET Apps)]
  /\ dncw \in [pc : {"idle", "label", "write", "accept", "reject"}, copy : Operands \cup {Absent}]
  /\ dlw \in [pc : {"idle", "finalizer", "label", "write", "accept", "reject", "unlink", "release"},
              key : LinkKeys \cup {Absent}, copy : DashboardLinks \cup {Absent}]
  /\ budget \in 0..MaxDisturbances

\* Nothing is on its way and no controller that runs has anything to do.
Quiescent ==
  /\ "nsr" \in Running => ~qns
  /\ "cmr" \in Running => ~qcm
  /\ "dncr" \in Running => ~qdnc
  /\ "dlr" \in Running => qdl = {}
  /\ nsw = NsIdle /\ cmw = CmIdle /\ dncw = DncIdle /\ dlw = DlIdle
  /\ Settled(ns) /\ Settled(cm) /\ Settled(dnc)
  /\ \A k \in LinkKeys : Settled(dls[k])
  /\ \A a \in Apps : Settled(deps[a])

\* When nothing is left to do, the ConfigMap says all that the operand imported
\* from it declares, incomplete links apart, which the import drops: no
\* interleaving of import, overlay and edits of either leaves a declaration out.
OperandApplied ==
  Quiescent /\ {"cmr", "dncr"} \subseteq Running
    /\ IsConfig(cm.obj) /\ dnc.obj # Absent /\ dnc.obj.source = "configmap"
    => Contains(Declared(cm.obj), Declared(dnc.obj.spec.apps))

\* When nothing is left to do, an imported link points where the ConfigMap says,
\* and the ConfigMap has it.
ImportedLinksAgree ==
  Quiescent /\ {"cmr", "dlr"} \subseteq Running /\ IsConfig(cm.obj)
    => \A k \in LinkKeys :
         dls[k].obj # Absent /\ dls[k].obj.imported
           => EntryOf(cm.obj, k[1]).links[k[2]] = dls[k].obj.url

\* When nothing is left to do, every operand is reconciled and says so: no error
\* and no deletion is left behind.
Reported ==
  Quiescent =>
    /\ "dncr" \in Running /\ dnc.obj # Absent => dnc.obj.ready = "True"
    /\ "dlr" \in Running =>
         \A k \in LinkKeys : dls[k].obj # Absent =>
           dls[k].obj.ready = "True" /\ dls[k].obj.final /\ ~dls[k].obj.del

\* Did anybody else than a controller act so far?
DisturbedYet == budget # MaxDisturbances

\* No two of the apps are displayed by one name, and none by that of a deployment of another.
NamesOfTheirOwn(apps) ==
  "displayName" \in Fields =>
    \A a, b \in DOMAIN apps :
      a # b => apps[a].text["displayName"] \notin {apps[b].text["displayName"], b}

\* When the controllers, left alone, have nothing left to do, an operand imported from
\* deployments declares what those that are shown say, and the ConfigMap says all of
\* it: the two directions of the pipeline have not come to rest on different values.
\* So it is for apps with names of their own. If two are displayed by one name, or by
\* each other's, imports rename their groups back and forth, and a lagging cache hides it.
LiveStateAgrees ==
  /\ Quiescent /\ ~DisturbedYet /\ dnc.obj # Absent /\ dnc.obj.source = "live"
  /\ NamesOfTheirOwn(dnc.obj.spec.apps)
  => /\ \E m \in Namings : dnc.obj.spec = LiveSpec(m)
     /\ IsConfig(cm.obj) /\ Contains(cm.obj, dnc.obj.spec.apps)

\* As long as no user edits the operand, it groups no app by the display name of
\* another of its apps, although the dashboard does: groups go by deployments,
\* whatever names the controllers write while the import runs.
GroupsNormalized ==
  /\ "operand" \notin Kinds \/ ~DisturbedYet
  /\ {"displayName", "appGroup"} \subseteq Fields
  /\ dnc.obj # Absent /\ dnc.obj.source = "live"
  => LET apps == dnc.obj.spec.apps
     IN  \A a, b \in DOMAIN apps :
           apps[a].text["appGroup"] = apps[b].text["displayName"]
             => apps[a].text["appGroup"] \in DOMAIN apps

\* Did somebody else than a controller act?
Disturbed == budget' # budget

\* NSR adds to the ConfigMap and keeps what its entries say, whatever others
\* write meanwhile.
EntriesKept ==
  [][nsw # nsw' /\ ~Disturbed /\ IsConfig(cm.obj) => IsConfig(cm'.obj) /\ Keeps(cm.obj, cm'.obj)]_vars

\* Controllers never write the spec of an operand that is a user's own, and
\* never take it over.
UserOperandKept ==
  [][~Disturbed /\ dnc.obj # Absent /\ dnc.obj.source = "user"
       => dnc'.obj # Absent /\ dnc'.obj.source = "user" /\ dnc'.obj.spec = dnc.obj.spec]_vars

\* Do users leave all entries of deployments where they are? They take some away
\* by editing the ConfigMap, or with an operand that replaces it by what discovery
\* finds: a deployment that comes back then, before the cache has the ConfigMap,
\* is taken for one that has its entry still.
EntriesLeft ==
  /\ "config" \notin Kinds
  /\ "deployment" \in Kinds /\ "operand" \in Kinds => \A s \in UserSpecs : s.mode # "Replace"

\* As long as they do, every deployment of a labelled namespace gets its entry.
DeploymentsListed ==
  Quiescent /\ "nsr" \in Running /\ ns.obj /\ EntriesLeft
    => \A a \in Apps : deps[a].obj # Absent => IsConfig(cm.obj) /\ a \in DOMAIN cm.obj

PhaseOf(l) ==
  IF l = Absent THEN "absent"
  ELSE IF l.del THEN "going"
  ELSE IF l.final THEN "kept" ELSE "new"

ImportKeys == {k \in LinkKeys : k[3] = "import"}

Lifecycle == INSTANCE LinkLifecycle WITH
  Keys <- LinkKeys, Contents <- Urls \cup {NoUrl}, None <- Absent,
  Imports <- ImportKeys, Pruned <- ImportKeys,
  links <- [k \in LinkKeys |->
    IF dls[k].obj = Absent THEN [phase |-> "absent", content |-> Absent, imported |-> FALSE]
    ELSE [phase |-> PhaseOf(dls[k].obj), content |-> dls[k].obj.url, imported |-> dls[k].obj.imported]],
  acts <- budget

\* All that the controllers make of a link is one life after another: no step calls
\* a deletion off or drops a finalizer, what users own follows no ConfigMap, and
\* only under the names of imports are links deleted that no user deletes.
HasLifecycle == Lifecycle!Spec

\* A deleted link goes, unless the ConfigMap is beyond parsing.
LinkDeletionEnds ==
  \A k \in LinkKeys :
    (dls[k].obj # Absent /\ dls[k].obj.del) ~> (dls[k].obj = Absent \/ cm.obj = Malformed)

----------------------------------------------------------------------------
(* What the documentation says and the controllers do not keep *)

\* "Deployments already labeled ... are imported ... with their current dashboard
\* annotations": what they say when the operator starts is what the operand says
\* when the controllers, left alone, have nothing left to do.
AnnotationsImported ==
  Quiescent /\ ~DisturbedYet
    => \E c \in InitialClusters : \A a \in Apps :
         c.deployed[a] # Absent /\ c.deployed[a].shown
           => /\ dnc.obj # Absent /\ a \in DOMAIN dnc.obj.spec.apps
              /\ \A f \in Fields \ {"appGroup"} : c.deployed[a].text[f] # Blank
                   => dnc.obj.spec.apps[a].text[f] = c.deployed[a].text[f]

\* "The operator will apply your changes to deployments automatically."
DeploymentsConfigured ==
  Quiescent /\ IsConfig(cm.obj)
    => \A a \in DOMAIN cm.obj : deps[a].obj # Absent => deps[a].obj.shown = cm.obj[a].enabled
=============================================================================
