---------------------------- MODULE GroupPipeline ----------------------------
(***************************************************************************)
(* The namespace pipeline with DashboardAppGroups: a fifth controller that *)
(* writes the namespace, its ConfigMap and the deployments, and that the   *)
(* other four know nothing of.                                             *)
(***************************************************************************)
EXTENDS NamespacePipeline, GroupController

allVars == <<vars, groupVars>>

\* The operator may find groups when it starts.
GroupsInit ==
  /\ Init
  /\ \E G \in SUBSET Groups, s \in [Groups -> GroupSpecs] :
       /\ dags = [g \in Groups |-> Listed(IF g \in G THEN NewGroup(s[g]) ELSE Absent)]
       /\ qdag = G
  /\ tdag = {} /\ dagw = DagIdle

\* What does not touch the groups.
Others == Informers \/ Controllers \/ ApiErrors \/ Users

GroupEvents == \E g \in Groups : DeliverGroup(g) \/ GroupTimer(g)

GroupsNext ==
  \/ Others /\ UNCHANGED groupVars
  \/ Resync /\ ResyncGroups
  \/ Restart /\ RestartGroups
  \/ Agc \/ AgcApiError \/ UserEditsGroup
  \/ GroupEvents \/ GroupTick

GroupsSpec == GroupsInit /\ [][GroupsNext]_allVars

\* As in the pipeline; a timer that runs fires, but whether a second has passed
\* between two steps is open.
GroupsFairness ==
  /\ WF_vars(DeliverNamespace) /\ WF_vars(DeliverConfigMap) /\ WF_vars(DeliverOperand)
  /\ \A a \in Apps : WF_vars(DeliverDeployment(a))
  /\ \A k \in LinkKeys : WF_vars(DeliverLink(k)) /\ SF_vars(DlrGet(k))
  /\ WF_vars(Nsr) /\ WF_vars(Cmr) /\ WF_vars(Dncr) /\ WF_vars(Dlr) /\ WF_allVars(Agc)
  /\ \A g \in Groups :
       WF_allVars(DeliverGroup(g)) /\ WF_allVars(GroupTimer(g)) /\ SF_allVars(AgcGet(g))

FairGroupsSpec == GroupsSpec /\ GroupsFairness

----------------------------------------------------------------------------
(* Properties *)

GroupsTypeOK ==
  /\ TypeOK
  /\ dags \in [Groups -> ObjectType(AppGroups, {"cache", "agc"})]
  /\ qdag \subseteq Groups /\ tdag \subseteq Groups
  /\ dagw = DagIdle \/
     dagw \in [pc : {"label", "config", "match", "deployments"}, key : Groups, spec : AppGroupSpecs,
              matched : SUBSET Apps, todo : SUBSET Apps]

\* While the operand controller does not overlay anything, no controller takes
\* from a ConfigMap that exists: neither the one that fills it nor the one that
\* sees to it that there is one.
ConfigMapKept ==
  [][~Disturbed /\ IsConfig(cm.obj) => IsConfig(cm'.obj) /\ Keeps(cm.obj, cm'.obj)]_allVars

\* Does group g claim app a?
Claims(g, a) ==
  /\ dags[g].obj # Absent /\ dags[g].obj.spec.autoLabel
  /\ dags[g].obj.spec.selector.compiles
  /\ a \in Selected(dags[g].obj.spec.selector)

Member(a, g) == deps[a].obj # Absent /\ deps[a].obj.shown /\ deps[a].obj.text["appGroup"] = g

\* A deployment that a group claims, be it there first or rolled out later, is
\* made a member of the group in the end, unless it or the claim goes away.
MembersJoin ==
  \A g \in Groups, a \in Apps :
    (Claims(g, a) /\ deps[a].obj # Absent) ~> (Member(a, g) \/ ~Claims(g, a) \/ deps[a].obj = Absent)
=============================================================================
