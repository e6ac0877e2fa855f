--------------------------- MODULE GroupController ---------------------------
(***************************************************************************)
(* DashboardAppGroupReconciler (AGC): labels the namespace, sees to it     *)
(* that its ConfigMap exists, and makes the deployments that a group       *)
(* selects members of the group. It watches its operands only, and looks   *)
(* for new deployments when a timer of five minutes fires.                 *)
(*                                                                         *)
(* A status holds the time it was written at, to the second. All that a    *)
(* controller can tell of a time is whether it is still the same second,   *)
(* so a stamp is "now", "past", or "never", and GroupTick lets time pass.  *)
(***************************************************************************)
EXTENDS NamespaceCluster

CONSTANTS
  Groups,        \* names of DashboardAppGroups
  GroupSpecs,    \* the specs that users write
  RouteOwners    \* the apps whose name is a route's, or begins with it and a hyphen

\* Does the pattern compile, and what it matches; the names listed; the apps that
\* have all the labels.
Selectors ==
  [compiles : BOOLEAN, pattern : SUBSET Apps, names : SUBSET Apps, labels : SUBSET Apps]

GroupFields == {"category", "description", "primaryRoute"}
AppGroupSpecs ==
  [selector : Selectors, autoLabel : BOOLEAN, text : [GroupFields -> Texts \cup {Blank}],
   links : LinkLists]
AppGroups == [spec : AppGroupSpecs, matched : SUBSET Apps, stamp : {"never", "now", "past"}]

ASSUME GroupsAssumption ==
  /\ Groups \subseteq Texts
  /\ GroupSpecs \subseteq AppGroupSpecs
  /\ RouteOwners \in [Texts -> SUBSET Apps]
  /\ Absent \notin AppGroups

VARIABLES
  dags,   \* the DashboardAppGroups
  qdag,   \* those in the workqueue
  tdag,   \* those with a timer running
  dagw    \* the worker

groupVars == <<dags, qdag, tdag, dagw>>

DagIdle == [pc |-> "idle", key |-> Absent, spec |-> Absent, matched |-> {}, todo |-> {}]
NewGroup(s) == [spec |-> s, matched |-> {}, stamp |-> "never"]

----------------------------------------------------------------------------
Group == dagw.key

AgcElse == UNCHANGED <<dnc, dls, qns, qcm, qdnc, qdl, Workers, budget>>

AgcGoto(pc) == dagw' = [dagw EXCEPT !.pc = pc] /\ UNCHANGED <<dags, qdag, tdag>>

\* Reconcile drops its copy of the group, and the key is requeued.
AgcFails ==
  /\ dags' = [dags EXCEPT ![Group] = Release(dags[Group], "agc")]
  /\ qdag' = qdag \cup {Group}
  /\ dagw' = DagIdle
  /\ UNCHANGED tdag

\* (mutant) a group that is gone is worked with
AgcGetMissing(g) ==
  /\ "agc" \in Running /\ g \in qdag /\ dagw = DagIdle
  /\ qdag' = qdag \ {g}
  /\ dags' = [dags EXCEPT ![g] = Fetch(dags[g], "agc")]
  /\ dagw' = [pc |-> "label", key |-> g, spec |-> IF dags[g].seen = Absent THEN Absent ELSE dags[g].seen.spec,
              matched |-> {}, todo |-> {}]
  /\ AgcElse /\ UNCHANGED <<ns, cm, deps, tdag>>

AgcGet(g) ==
  /\ "agc" \in Running /\ g \in qdag /\ dagw = DagIdle
  /\ qdag' = qdag \ {g}
  /\ IF dags[g].seen = Absent
       THEN UNCHANGED <<dags, dagw>>
       ELSE /\ dags' = [dags EXCEPT ![g] = Fetch(dags[g], "agc")]
            /\ dagw' = [pc |-> "label", key |-> g, spec |-> dags[g].seen.spec,
                        matched |-> {}, todo |-> {}]
  /\ AgcElse /\ UNCHANGED <<ns, cm, deps, tdag>>

\* ensureNamespaceLabeled
AgcLabel ==
  /\ dagw.pc = "label"
  /\ ns' = Save(ns, TRUE)
  /\ IF Saved(ns, TRUE) THEN AgcGoto("config") ELSE AgcFails
  /\ AgcElse /\ UNCHANGED <<cm, deps>>

\* (mutant) the empty ConfigMap is applied, whether there is one or not
AgcConfigAlways ==
  /\ dagw.pc = "config"
  /\ cm' = IF cm.seen = Absent THEN Put(cm, NoConfig) ELSE cm
  /\ AgcGoto("match")
  /\ AgcElse /\ UNCHANGED <<ns, deps>>

\* ensureConfigMapExists: an empty one is created.
AgcConfig ==
  /\ dagw.pc = "config"
  /\ IF cm.seen # Absent
       THEN AgcGoto("match") /\ UNCHANGED cm
       ELSE /\ cm' = Save(cm, NoConfig)
            /\ IF Saved(cm, NoConfig) THEN AgcGoto("match") ELSE AgcFails
  /\ AgcElse /\ UNCHANGED <<ns, deps>>

Selected(sel) == sel.pattern \cup sel.names \cup sel.labels

\* findMatchingDeployments, in the cache.
AgcMatch ==
  /\ dagw.pc = "match"
  /\ IF ~dagw.spec.selector.compiles
       THEN AgcFails
       ELSE LET matched == {a \in Selected(dagw.spec.selector) : deps[a].seen # Absent}
            IN  /\ dagw' = [pc |-> "deployments", key |-> Group, spec |-> dagw.spec,
                            matched |-> matched, todo |-> IF dagw.spec.autoLabel THEN matched ELSE {}]
                /\ UNCHANGED <<dags, qdag, tdag>>
  /\ AgcElse /\ UNCHANGED <<ns, cm, deps>>

\* What labelDeployments makes of deployment d of app a: the category is always
\* written, blank or not, and the route on its owner only.
Grouped(d, a, g, s) ==
  [shown |-> TRUE,
   text |-> [f \in Fields |->
     IF f = "appGroup" THEN g
     ELSE IF f = "category" THEN s.text[f]
     ELSE IF f = "description" /\ s.text[f] # Blank THEN s.text[f]
     ELSE IF f = "primaryRoute" /\ s.text[f] # Blank THEN
       (IF a \in RouteOwners[s.text[f]] THEN s.text[f] ELSE d.text[f])
     ELSE d.text[f]],
   links |-> IF s.links = NoLinks THEN d.links ELSE s.links]

\* One round of labelDeployments. A deployment that is gone is passed over; the
\* Update is always sent, and one that is refused ends the reconcile.
AgcDeployment == \E a \in dagw.todo :
  /\ dagw.pc = "deployments"
  /\ deps' = IF Current(deps[a], "cache")
               THEN [deps EXCEPT ![a] = Put(deps[a], Grouped(deps[a].seen, a, Group, dagw.spec))]
               ELSE deps
  /\ IF deps[a].seen = Absent \/ Current(deps[a], "cache")
       THEN dagw' = [dagw EXCEPT !.todo = dagw.todo \ {a}] /\ UNCHANGED <<dags, qdag, tdag>>
       ELSE AgcFails
  /\ AgcElse /\ UNCHANGED <<ns, cm>>

\* (mutant) the reconcile is not repeated
AgcStatusOnce ==
  /\ dagw.pc = "deployments" /\ dagw.todo = {}
  /\ dags' = [dags EXCEPT ![Group] = Release(
       IF Current(dags[Group], "agc")
         THEN Put(dags[Group], [spec |-> dagw.spec, matched |-> dagw.matched, stamp |-> "now"])
         ELSE dags[Group], "agc")]
  /\ qdag' = IF Current(dags[Group], "agc") THEN qdag ELSE qdag \cup {Group}
  /\ dagw' = DagIdle
  /\ AgcElse /\ UNCHANGED <<ns, cm, deps, tdag>>

\* The status, with the time of day, is written from the copy that Reconcile
\* began with; Reconcile asks to be called again.
AgcStatus ==
  /\ dagw.pc = "deployments" /\ dagw.todo = {}
  /\ IF Current(dags[Group], "agc")
       THEN /\ dags' = [dags EXCEPT ![Group] = Release(
                 Put(dags[Group], [spec |-> dagw.spec, matched |-> dagw.matched, stamp |-> "now"]), "agc")]
            /\ tdag' = tdag \cup {Group}
            /\ dagw' = DagIdle
            /\ UNCHANGED qdag
       ELSE AgcFails
  /\ AgcElse /\ UNCHANGED <<ns, cm, deps>>

\* A failing call; a deployment that cannot be read is passed over.
AgcApiError ==
  /\ Disturb("error")
  /\ dagw # DagIdle
  /\ \/ AgcFails
     \/ \E a \in dagw.todo :
          dagw' = [dagw EXCEPT !.todo = dagw.todo \ {a}] /\ UNCHANGED <<dags, qdag, tdag>>
  /\ UNCHANGED <<Objects, Queues, Workers>>

Agc ==
  \/ \E g \in Groups : AgcGet(g)
  \/ AgcLabel \/ AgcConfig \/ AgcMatch \/ AgcDeployment \/ AgcStatus

----------------------------------------------------------------------------
DeliverGroup(g) ==
  /\ ~Settled(dags[g])
  /\ dags' = [dags EXCEPT ![g] = Deliver(dags[g])] /\ qdag' = qdag \cup {g}
  /\ UNCHANGED <<vars, tdag, dagw>>

\* RequeueAfter is over.
GroupTimer(g) ==
  /\ g \in tdag
  /\ tdag' = tdag \ {g} /\ qdag' = qdag \cup {g}
  /\ UNCHANGED <<vars, dags, dagw>>

\* The second is over.
Aged(b) == IF b # Absent /\ b.stamp = "now" THEN [b EXCEPT !.stamp = "past"] ELSE b
GroupTick ==
  /\ \E g \in Groups : Aged(dags[g].obj) # dags[g].obj \/ Aged(dags[g].seen) # dags[g].seen
  /\ dags' = [g \in Groups |->
       [obj |-> Aged(dags[g].obj), seen |-> Aged(dags[g].seen), fresh |-> dags[g].fresh]]
  /\ UNCHANGED <<vars, qdag, tdag, dagw>>

\* A user creates or edits a group, or deletes it.
UserEditsGroup == \E g \in Groups :
  /\ Disturb("group")
  /\ \/ \E s \in GroupSpecs :
          dags' = [dags EXCEPT ![g] =
            Put(dags[g], IF dags[g].obj = Absent THEN NewGroup(s) ELSE [dags[g].obj EXCEPT !.spec = s])]
     \/ /\ dags[g].obj # Absent
        /\ dags' = [dags EXCEPT ![g] = Put(dags[g], Absent)]
  /\ UNCHANGED <<Objects, Queues, Workers, qdag, tdag, dagw>>

\* What a resync and a restart do to the groups.
ResyncGroups ==
  /\ qdag' = qdag \cup {g \in Groups : dags[g].seen # Absent}
  /\ UNCHANGED <<dags, tdag, dagw>>
RestartGroups ==
  /\ dags' = [g \in Groups |-> Listed(dags[g].obj)]
  /\ qdag' = {g \in Groups : dags[g].obj # Absent}
  /\ tdag' = {} /\ dagw' = DagIdle
=============================================================================
