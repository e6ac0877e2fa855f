------------------------ MODULE GroupPipelineProofs ------------------------
(***************************************************************************)
(* Safety of the namespace pipeline with groups, on top of what holds of   *)
(* the four controllers that know nothing of them.                         *)
(***************************************************************************)
EXTENDS GroupPipeline, NamespacePipelineProofs

GroupObjects == ObjectType(AppGroups, {"cache", "agc"})
GroupWorkers ==
  [pc : {"label", "config", "match", "deployments"}, key : Groups, spec : AppGroupSpecs,
   matched : SUBSET Apps, todo : SUBSET Apps]

GroupsTyped ==
  /\ dags \in [Groups -> GroupObjects]
  /\ qdag \in SUBSET Groups /\ tdag \in SUBSET Groups
  /\ dagw \in {DagIdle} \cup GroupWorkers

\* The invariant of the pipeline survives the fifth controller: it writes well
\* formed deployments, from copies that the server takes only when they are its own.
GInv == IInv /\ GroupsTyped

----------------------------------------------------------------------------
LEMMA GroupParts ==
  ASSUME NEW o \in GroupObjects
  PROVE  /\ o.obj \in AppGroups \cup {Absent} /\ o.seen \in AppGroups \cup {Absent}
         /\ o.fresh \in SUBSET {"cache", "agc"}
BY DEF GroupObjects, ObjectType

LEMMA GroupOps ==
  ASSUME NEW o \in GroupObjects, NEW b \in AppGroups \cup {Absent}
  PROVE  /\ Listed(b) \in GroupObjects /\ Put(o, b) \in GroupObjects
         /\ Deliver(o) \in GroupObjects
         /\ Fetch(o, "agc") \in GroupObjects /\ Release(o, "agc") \in GroupObjects
BY ObjectOps DEF GroupObjects

LEMMA GroupBodies ==
  /\ \A s \in AppGroupSpecs : NewGroup(s) \in AppGroups
  /\ \A d \in AppGroups : d.spec \in AppGroupSpecs
  /\ \A d \in AppGroups, s \in AppGroupSpecs : [d EXCEPT !.spec = s] \in AppGroups
  /\ \A s \in AppGroupSpecs, A \in SUBSET Apps :
       [spec |-> s, matched |-> A, stamp |-> "now"] \in AppGroups
  /\ \A b \in AppGroups \cup {Absent} : Aged(b) \in AppGroups \cup {Absent}
BY DEF NewGroup, AppGroups, Aged

LEMMA GroupSpecParts ==
  ASSUME NEW s \in AppGroupSpecs
  PROVE  /\ s.selector \in Selectors /\ s.links \in LinkLists
         /\ \A f \in GroupFields : s.text[f] \in Texts \cup {Blank}
         /\ Selected(s.selector) \in SUBSET Apps
BY DEF AppGroupSpecs, Selectors, Selected

\* What a member of a group is made is a deployment as it should be.
LEMMA GroupedTyped ==
  ASSUME NEW d \in Deployments, NEW a, NEW g \in Groups, NEW s \in AppGroupSpecs
  PROVE  Grouped(d, a, g, s) \in Deployments
<1>1. d.text \in Text /\ d.links \in LinkLists
  BY DEF Deployments
<1>2. \A f \in Fields : d.text[f] \in Texts \cup {Blank}
  BY <1>1 DEF Text
<1>3. g \in Texts
  BY GroupsAssumption
<1>4. /\ s.text["category"] \in Texts \cup {Blank}
      /\ s.text["description"] \in Texts \cup {Blank}
      /\ s.text["primaryRoute"] \in Texts \cup {Blank}
  BY GroupSpecParts DEF GroupFields
<1>5. Grouped(d, a, g, s).text \in Text
  BY <1>2, <1>3, <1>4 DEF Grouped, Text
<1>6. Grouped(d, a, g, s).links \in LinkLists
  BY <1>1, GroupSpecParts DEF Grouped
<1>. QED
  BY <1>5, <1>6 DEF Grouped, Deployments

\* A worker that is not idle works for a group.
LEMMA GroupWorkerHolds ==
  ASSUME GroupsTyped, dagw.pc # "idle"
  PROVE  /\ dagw \in GroupWorkers /\ Group \in Groups /\ dagw.spec \in AppGroupSpecs
         /\ dagw.matched \in SUBSET Apps /\ dagw.todo \in SUBSET Apps
         /\ dags[Group] \in GroupObjects
<1>1. dagw \in GroupWorkers
  BY DEF GroupsTyped, DagIdle
<1>. QED
  BY <1>1 DEF GroupsTyped, GroupWorkers, Group

\* A reconcile that fails, and one that goes on.
LEMMA AgcReturns ==
  ASSUME GroupsTyped, dagw.pc # "idle"
  PROVE  /\ AgcFails => GroupsTyped'
         /\ \A pc \in {"config", "match"} : AgcGoto(pc) => GroupsTyped'
<1>1. AgcFails => GroupsTyped'
  <2>. SUFFICES ASSUME AgcFails PROVE GroupsTyped'
    OBVIOUS
  <2>1. Release(dags[Group], "agc") \in GroupObjects
    BY GroupWorkerHolds, GroupOps, GroupParts
  <2>. QED
    BY <2>1, GroupWorkerHolds DEF AgcFails, GroupsTyped
<1>2. ASSUME NEW pc \in {"config", "match"}, AgcGoto(pc) PROVE GroupsTyped'
  <2>1. [dagw EXCEPT !.pc = pc] \in GroupWorkers
    BY GroupWorkerHolds DEF GroupWorkers
  <2>. QED
    BY <1>2, <2>1 DEF AgcGoto, GroupsTyped
<1>. QED
  BY <1>1, <1>2

\* What is left to do becomes less by one.
LEMMA AgcPassesOver ==
  ASSUME GroupsTyped, dagw.pc # "idle", NEW a,
         dagw' = [dagw EXCEPT !.todo = dagw.todo \ {a}], UNCHANGED <<dags, qdag, tdag>>
  PROVE  GroupsTyped'
<1>1. [dagw EXCEPT !.todo = dagw.todo \ {a}] \in GroupWorkers
  BY GroupWorkerHolds DEF GroupWorkers
<1>. QED
  BY <1>1 DEF GroupsTyped

LEMMA AgcStep == GInv /\ (Agc \/ AgcApiError) => GInv'
<1>. SUFFICES ASSUME GInv, Agc \/ AgcApiError PROVE GInv'
  OBVIOUS
<1>. USE DEF AgcElse, Workers
<1>t. IInv /\ GroupsTyped
  BY DEF GInv
<1>1. ASSUME NEW g \in Groups, AgcGet(g) PROVE GInv'
  <2>1. IInv'
    BY <1>1, <1>t DEF AgcGet, IInv
  <2>2. CASE dags[g].seen = Absent
    BY <1>1, <1>t, <2>1, <2>2 DEF AgcGet, GroupsTyped, GInv
  <2>3. CASE dags[g].seen # Absent
    <3>1. dags[g] \in GroupObjects /\ dags[g].seen.spec \in AppGroupSpecs
      BY <1>t, <2>3, GroupParts, GroupBodies DEF GroupsTyped
    <3>2. Fetch(dags[g], "agc") \in GroupObjects
      BY <3>1, GroupOps, GroupParts
    <3>3. dagw' \in GroupWorkers
      BY <1>1, <2>3, <3>1 DEF AgcGet, GroupWorkers
    <3>. QED
      BY <1>1, <1>t, <2>1, <2>3, <3>2, <3>3 DEF AgcGet, GroupsTyped, GInv
  <2>. QED
    BY <2>2, <2>3
<1>2. CASE AgcLabel
  <2>1. Save(ns, TRUE) \in NamespaceObjects
    BY <1>t, NamespaceOps DEF IInv
  <2>2. IInv'
    BY <1>2, <1>t, <2>1 DEF AgcLabel, IInv
  <2>3. GroupsTyped'
    BY <1>2, <1>t, AgcReturns DEF AgcLabel
  <2>. QED
    BY <2>2, <2>3 DEF GInv
<1>3. CASE AgcConfig
  <2>1. Save(cm, NoConfig) \in ConfigObjects
    BY <1>t, ConfigsAre, ConfigOps DEF IInv
  <2>2. IInv'
    BY <1>3, <1>t, <2>1 DEF AgcConfig, IInv
  <2>3. GroupsTyped'
    BY <1>3, <1>t, AgcReturns DEF AgcConfig
  <2>. QED
    BY <2>2, <2>3 DEF GInv
<1>4. CASE AgcMatch
  <2>1. IInv'
    BY <1>4, <1>t DEF AgcMatch, IInv
  <2>2. CASE ~dagw.spec.selector.compiles
    BY <1>4, <1>t, <2>1, <2>2, AgcReturns DEF AgcMatch, GInv
  <2>3. CASE dagw.spec.selector.compiles
    <3>. DEFINE matched == {a \in Selected(dagw.spec.selector) : deps[a].seen # Absent}
    <3>1. Group \in Groups /\ dagw.spec \in AppGroupSpecs
      BY <1>4, <1>t, GroupWorkerHolds DEF AgcMatch
    <3>2. matched \in SUBSET Apps
      BY <3>1, GroupSpecParts
    <3>3. dagw' = [pc |-> "deployments", key |-> Group, spec |-> dagw.spec, matched |-> matched,
                   todo |-> IF dagw.spec.autoLabel THEN matched ELSE {}]
      BY <1>4, <2>3 DEF AgcMatch
    <3>. HIDE DEF matched
    <3>4. dagw' \in GroupWorkers
      BY <3>1, <3>2, <3>3 DEF GroupWorkers
    <3>. QED
      BY <1>4, <1>t, <2>1, <2>3, <3>4 DEF AgcMatch, GroupsTyped, GInv
  <2>. QED
    BY <2>2, <2>3
<1>5. CASE AgcDeployment
  <2>1. PICK a \in dagw.todo :
          /\ dagw.pc = "deployments"
          /\ deps' = IF Current(deps[a], "cache")
                       THEN [deps EXCEPT ![a] =
                              Put(deps[a], Grouped(deps[a].seen, a, Group, dagw.spec))]
                       ELSE deps
          /\ IF deps[a].seen = Absent \/ Current(deps[a], "cache")
               THEN dagw' = [dagw EXCEPT !.todo = dagw.todo \ {a}] /\ UNCHANGED <<dags, qdag, tdag>>
               ELSE AgcFails
          /\ AgcElse /\ UNCHANGED <<ns, cm>>
    BY <1>5 DEF AgcDeployment
  <2>2. a \in Apps /\ Group \in Groups /\ dagw.spec \in AppGroupSpecs
    BY <1>t, <2>1, GroupWorkerHolds
  <2>3. deps' \in [Apps -> DeploymentObjects]
    <3>1. CASE Current(deps[a], "cache")
      <4>1. deps[a] \in DeploymentObjects
        BY <1>t, <2>2 DEF IInv
      <4>2. deps[a].seen \in Deployments
        BY <3>1, <4>1, Parts DEF DeploymentObjects, ObjectsOf, Coherent, Current
      <4>3. Put(deps[a], Grouped(deps[a].seen, a, Group, dagw.spec)) \in DeploymentObjects
        BY <2>2, <4>1, <4>2, GroupedTyped, DeploymentOps
      <4>. QED
        BY <1>t, <2>1, <3>1, <4>3 DEF IInv
    <3>2. CASE ~Current(deps[a], "cache")
      BY <1>t, <2>1, <3>2 DEF IInv
    <3>. QED
      BY <3>1, <3>2
  <2>4. IInv'
    BY <1>t, <2>1, <2>3 DEF IInv
  <2>5. GroupsTyped'
    BY <1>t, <2>1, AgcReturns, AgcPassesOver
  <2>. QED
    BY <2>4, <2>5 DEF GInv
<1>6. CASE AgcStatus
  <2>1. IInv'
    BY <1>6, <1>t DEF AgcStatus, IInv
  <2>2. CASE Current(dags[Group], "agc")
    <3>. DEFINE s == [spec |-> dagw.spec, matched |-> dagw.matched, stamp |-> "now"]
    <3>1. s \in AppGroups /\ dags[Group] \in GroupObjects /\ Group \in Groups
      BY <1>6, <1>t, GroupWorkerHolds, GroupBodies DEF AgcStatus
    <3>2. /\ dags' = [dags EXCEPT ![Group] = Release(Put(dags[Group], s), "agc")]
          /\ tdag' = tdag \cup {Group} /\ dagw' = DagIdle /\ UNCHANGED qdag
      BY <1>6, <2>2 DEF AgcStatus
    <3>. HIDE DEF s
    <3>3. Put(dags[Group], s) \in GroupObjects
      BY <3>1, GroupOps
    <3>4. Release(Put(dags[Group], s), "agc") \in GroupObjects
      BY <3>1, <3>3, GroupOps
    <3>. QED
      BY <1>t, <2>1, <3>1, <3>2, <3>4 DEF GroupsTyped, GInv
  <2>3. CASE ~Current(dags[Group], "agc")
    BY <1>6, <1>t, <2>1, <2>3, AgcReturns DEF AgcStatus, GInv
  <2>. QED
    BY <2>2, <2>3
<1>7. CASE AgcApiError
  <2>1. dagw.pc # "idle"
    BY <1>7, <1>t DEF AgcApiError, GroupsTyped, GroupWorkers
  <2>2. IInv'
    BY <1>7, <1>t, DisturbTyped DEF AgcApiError, IInv, Objects, Queues
  <2>3. GroupsTyped'
    BY <1>7, <1>t, <2>1, AgcReturns, AgcPassesOver DEF AgcApiError
  <2>. QED
    BY <2>2, <2>3 DEF GInv
<1>. QED
  BY <1>1, <1>2, <1>3, <1>4, <1>5, <1>6, <1>7 DEF Agc

\* What happens to the groups besides.
LEMMA GroupOthersStep ==
  GInv /\ (UserEditsGroup \/ GroupEvents \/ GroupTick) => GInv'
<1>. SUFFICES ASSUME GInv, UserEditsGroup \/ GroupEvents \/ GroupTick PROVE GInv'
  OBVIOUS
<1>t. IInv /\ GroupsTyped
  BY DEF GInv
<1>1. CASE UserEditsGroup
  <2>1. PICK g \in Groups :
          /\ Disturb("group")
          /\ \/ \E s \in GroupSpecs :
                  dags' = [dags EXCEPT ![g] =
                    Put(dags[g], IF dags[g].obj = Absent THEN NewGroup(s)
                                                         ELSE [dags[g].obj EXCEPT !.spec = s])]
             \/ /\ dags[g].obj # Absent
                /\ dags' = [dags EXCEPT ![g] = Put(dags[g], Absent)]
          /\ UNCHANGED <<Objects, Queues, Workers, qdag, tdag, dagw>>
    BY <1>1 DEF UserEditsGroup
  <2>2. dags[g] \in GroupObjects /\ dags[g].obj \in AppGroups \cup {Absent}
    BY <1>t, GroupParts DEF GroupsTyped
  <2>3. \A s \in GroupSpecs :
          (IF dags[g].obj = Absent THEN NewGroup(s) ELSE [dags[g].obj EXCEPT !.spec = s]) \in AppGroups
    BY <2>2, GroupsAssumption, GroupBodies
  <2>4. dags' \in [Groups -> GroupObjects]
    <3>1. dags \in [Groups -> GroupObjects]
      BY <1>t DEF GroupsTyped
    <3>2. \A b \in AppGroups \cup {Absent} : Put(dags[g], b) \in GroupObjects
      BY <2>2, GroupOps
    <3>3. \A b \in AppGroups \cup {Absent} :
            [dags EXCEPT ![g] = Put(dags[g], b)] \in [Groups -> GroupObjects]
      BY <3>1, <3>2
    <3>. QED
      BY <2>1, <2>3, <3>3
  <2>5. IInv'
    BY <1>t, <2>1, DisturbTyped DEF IInv, Objects, Queues, Workers
  <2>. QED
    BY <1>t, <2>1, <2>4, <2>5 DEF GroupsTyped, GInv
<1>2. ASSUME NEW g \in Groups, DeliverGroup(g) \/ GroupTimer(g) PROVE GInv'
  <2>1. Deliver(dags[g]) \in GroupObjects
    BY <1>t, GroupOps, GroupParts DEF GroupsTyped
  <2>2. GroupsTyped'
    BY <1>2, <1>t, <2>1 DEF DeliverGroup, GroupTimer, GroupsTyped
  <2>3. IInv'
    BY <1>2, <1>t DEF DeliverGroup, GroupTimer, IInv, vars
  <2>. QED
    BY <2>2, <2>3 DEF GInv
<1>3. CASE GroupTick
  <2>1. \A g \in Groups :
          [obj |-> Aged(dags[g].obj), seen |-> Aged(dags[g].seen), fresh |-> dags[g].fresh]
            \in GroupObjects
    <3>. SUFFICES ASSUME NEW g \in Groups
                  PROVE  [obj |-> Aged(dags[g].obj), seen |-> Aged(dags[g].seen),
                          fresh |-> dags[g].fresh] \in GroupObjects
      OBVIOUS
    <3>1. dags[g] \in GroupObjects
      BY <1>t DEF GroupsTyped
    <3>2. /\ Aged(dags[g].obj) \in AppGroups \cup {Absent}
          /\ Aged(dags[g].seen) \in AppGroups \cup {Absent}
          /\ dags[g].fresh \in SUBSET {"cache", "agc"}
      BY <3>1, GroupParts, GroupBodies
    <3>. QED
      BY <3>2 DEF GroupObjects, ObjectType
  <2>2. GroupsTyped'
    BY <1>3, <1>t, <2>1 DEF GroupTick, GroupsTyped
  <2>3. IInv'
    BY <1>3, <1>t DEF GroupTick, IInv, vars
  <2>. QED
    BY <2>2, <2>3 DEF GInv
<1>. QED
  BY <1>1, <1>2, <1>3 DEF GroupEvents

LEMMA GroupsInitInv == GroupsInit => GInv
<1>. SUFFICES ASSUME GroupsInit PROVE GInv
  OBVIOUS
<1>1. PICK G \in SUBSET Groups, s \in [Groups -> GroupSpecs] :
        /\ dags = [g \in Groups |-> Listed(IF g \in G THEN NewGroup(s[g]) ELSE Absent)]
        /\ qdag = G
  BY DEF GroupsInit
<1>2. \A g \in Groups : (IF g \in G THEN NewGroup(s[g]) ELSE Absent) \in AppGroups \cup {Absent}
  BY <1>1, GroupsAssumption, GroupBodies
<1>3. \A b \in AppGroups \cup {Absent} : Listed(b) \in GroupObjects
  BY DEF Listed, GroupObjects, ObjectType
<1>4. dags \in [Groups -> GroupObjects]
  BY <1>1, <1>2, <1>3
<1>. QED
  BY <1>1, <1>4, InitIInv DEF GroupsInit, GroupsTyped, GInv

LEMMA GroupsStepInv == GInv /\ [GroupsNext]_allVars => GInv'
<1>. SUFFICES ASSUME GInv, [GroupsNext]_allVars PROVE GInv'
  OBVIOUS
<1>t. IInv /\ GroupsTyped
  BY DEF GInv
<1>1. CASE UNCHANGED allVars
  BY <1>1, <1>t DEF allVars, vars, groupVars, GInv, IInv, GroupsTyped
<1>2. CASE Others /\ UNCHANGED groupVars
  <2>1. Next
    BY <1>2 DEF Others, Next, Disturbances
  <2>. QED
    BY <1>2, <1>t, <2>1, StepIInv DEF groupVars, GroupsTyped, GInv
<1>3. CASE Resync /\ ResyncGroups
  <2>1. Next
    BY <1>3 DEF Next, Disturbances
  <2>. QED
    BY <1>3, <1>t, <2>1, StepIInv DEF ResyncGroups, GroupsTyped, GInv
<1>4. CASE Restart /\ RestartGroups
  <2>1. Next
    BY <1>4 DEF Next, Disturbances
  <2>2. \A g \in Groups : Listed(dags[g].obj) \in GroupObjects
    BY <1>t, GroupOps, GroupParts DEF GroupsTyped
  <2>3. GroupsTyped'
    BY <1>4, <1>t, <2>2 DEF RestartGroups, GroupsTyped
  <2>. QED
    BY <1>t, <2>1, <2>3, StepIInv DEF GInv
<1>. QED
  BY <1>1, <1>2, <1>3, <1>4, AgcStep, GroupOthersStep DEF GroupsNext

----------------------------------------------------------------------------
\* With a fifth controller at work, every variable still holds the kind of value
\* the code gives it: a group's labels and links make no deployment malformed.
THEOREM GroupsTypeCorrect == GroupsSpec => []GroupsTypeOK
<1>1. GroupsSpec => []GInv
  BY GroupsInitInv, GroupsStepInv, PTL DEF GroupsSpec
<1>2. GInv => GroupsTypeOK
  BY IInvImpliesTypeOK DEF GInv, GroupsTyped, GroupsTypeOK, GroupObjects, GroupWorkers
<1>. QED
  BY <1>1, <1>2, PTL

----------------------------------------------------------------------------
\* A controller that does not run is idle for good.
WritersIdle == dncw = DncIdle /\ dlw = DlIdle

LEMMA WritersStayIdle ==
  ASSUME "dncr" \notin Running, "dlr" \notin Running, WritersIdle, [GroupsNext]_allVars
  PROVE  WritersIdle' /\ ~Dncr /\ ~Dlr
<1>. USE DEF WritersIdle, DncIdle, DlIdle
<1>1. ~Dncr
  BY DEF Dncr, DncrGet, DncrLabel, DncrWrite, DncrAccept, DncrReject
<1>2. ~Dlr
  BY DEF Dlr, DlrGet, DlrAddFinalizer, DlrLabel, DlrWrite, DlrAccept, DlrReject, DlrUnlink,
         DlrRelease
<1>3. ~DncrApiError /\ ~DlrApiError
  BY DEF DncrApiError, DlrApiError
<1>4. Informers => WritersIdle'
  BY DEF Informers, DeliverNamespace, DeliverConfigMap, DeliverOperand, DeliverLink,
         DeliverDeployment, Workers
<1>5. Nsr \/ NsrApiError => WritersIdle'
  BY DEF Nsr, NsrGet, NsrImport, NsrConfig, NsrApiError, NsrElse
<1>6. Cmr \/ CmrApiError => WritersIdle'
  BY DEF Cmr, CmrGet, CmrOperand, CmrLink, CmrList, CmrPrune, CmrApply, CmrApiError, CmrElse
<1>7. Users => WritersIdle'
  BY DEF Users, UserLabelsNamespace, UserEditsConfigMap, UserWritesConfigMap, UserEditsOperand,
         UserAddsLink, UserEditsLink, Rollout, Workers
<1>8. Resync \/ Restart => WritersIdle'
  BY DEF Resync, Restart, Workers
<1>9. Agc \/ AgcApiError => WritersIdle'
  BY DEF Agc, AgcGet, AgcLabel, AgcConfig, AgcMatch, AgcDeployment, AgcStatus, AgcElse,
         AgcApiError, Workers
<1>10. UserEditsGroup \/ GroupEvents \/ GroupTick => WritersIdle'
  BY DEF UserEditsGroup, GroupEvents, DeliverGroup, GroupTimer, GroupTick, Workers, vars
<1>11. UNCHANGED allVars => WritersIdle'
  BY DEF allVars, vars
<1>. QED
  BY <1>1, <1>2, <1>3, <1>4, <1>5, <1>6, <1>7, <1>8, <1>9, <1>10, <1>11
     DEF GroupsNext, Others, Controllers, ApiErrors

\* Two controllers see to it that there is a ConfigMap, NSR to fill it and AGC to
\* have one. Where no operand is written back into it, neither ever takes from a
\* ConfigMap that exists, in whatever order they read and write: what NSR writes
\* is a merge of what is there, and what AGC writes is refused when there is one.
THEOREM ConfigMapIsKept ==
  ASSUME "dncr" \notin Running, "dlr" \notin Running
  PROVE  GroupsSpec => ConfigMapKept
<1>1. GroupsSpec => [](GInv /\ WritersIdle)
  <2>1. GroupsInit => GInv /\ WritersIdle
    BY GroupsInitInv DEF GroupsInit, Init, WritersIdle
  <2>2. GInv /\ WritersIdle /\ [GroupsNext]_allVars => (GInv /\ WritersIdle)'
    BY GroupsStepInv, WritersStayIdle
  <2>. QED
    BY <2>1, <2>2, PTL DEF GroupsSpec
<1>2. GInv /\ WritersIdle /\ [GroupsNext]_allVars
        => [~Disturbed /\ IsConfig(cm.obj) => IsConfig(cm'.obj) /\ Keeps(cm.obj, cm'.obj)]_allVars
  <2>. SUFFICES ASSUME GInv, WritersIdle, GroupsNext, budget' = budget, IsConfig(cm.obj)
                PROVE  IsConfig(cm'.obj) /\ Keeps(cm.obj, cm'.obj)
    BY DEF Disturbed
  <2>t. IInv /\ cm \in ObjectsOf(Configs \cup {Malformed}, {"cache"})
    BY DEF GInv, IInv, ConfigObjects
  <2>1. CASE cm'.obj = cm.obj
    BY <2>1, KeepsItself
  <2>2. \A kind : ~Disturb(kind)
    BY <2>t DEF Disturb, IInv
  <2>3. ~UserEditsGroup /\ ~AgcApiError /\ ~Resync /\ ~Restart
    BY <2>2 DEF UserEditsGroup, AgcApiError, Resync, Restart
  <2>4. CASE Others
    <3>1. Informers \/ Nsr \/ Cmr
      BY <2>4, <2>t, ControllersOnly, WritersStayIdle DEF Others, Next, Disturbances
    <3>2. CASE Informers
      <4>1. Deliver(cm).obj = cm.obj
        BY DEF Deliver
      <4>. QED
        BY <2>1, <3>2, <4>1 DEF Informers, DeliverNamespace, DeliverConfigMap, DeliverOperand,
             DeliverLink, DeliverDeployment
    <3>3. CASE NsrConfig /\ cm'.obj # cm.obj
      BY <2>t, <3>3, NsrConfigKeeps
    <3>4. CASE NsrGet \/ NsrImport
      BY <2>1, <3>4 DEF NsrGet, NsrImport, NsrElse
    <3>5. CASE Cmr
      BY <2>1, <3>5 DEF Cmr, CmrGet, CmrOperand, CmrLink, CmrList, CmrPrune, CmrApply, CmrElse
    <3>. QED
      BY <2>1, <3>1, <3>2, <3>3, <3>4, <3>5 DEF Nsr
  <2>5. CASE Agc
    <3>1. CASE AgcConfig
      <4>1. CASE cm.seen = Absent
        BY <2>1, <2>t, <3>1, <4>1, SaveEffect DEF AgcConfig, IsConfig
      <4>2. CASE cm.seen # Absent
        BY <2>1, <3>1, <4>2 DEF AgcConfig
      <4>. QED
        BY <4>1, <4>2
    <3>2. CASE AgcLabel \/ AgcMatch \/ AgcDeployment \/ AgcStatus \/ \E g \in Groups : AgcGet(g)
      BY <2>1, <3>2 DEF AgcGet, AgcLabel, AgcMatch, AgcDeployment, AgcStatus
    <3>. QED
      BY <2>5, <3>1, <3>2 DEF Agc
  <2>6. CASE GroupEvents \/ GroupTick
    BY <2>1, <2>6 DEF GroupEvents, DeliverGroup, GroupTimer, GroupTick, vars
  <2>. QED
    BY <2>3, <2>4, <2>5, <2>6 DEF GroupsNext
<1>. QED
  BY <1>1, <1>2, PTL DEF GroupsSpec, ConfigMapKept
=============================================================================
