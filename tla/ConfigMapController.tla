------------------------ MODULE ConfigMapController ------------------------
(***************************************************************************)
(* ConfigMapReconciler (CMR) on a namespace ConfigMap: imports it into a   *)
(* DashboardNamespaceConfig and into one DashboardLink per link, deletes   *)
(* the imported links it no longer has, and labels the deployments.        *)
(*                                                                         *)
(* The order in which Go ranges over the apps is any order; a list of      *)
(* links that are to be deleted is read once and worked off call by call.  *)
(***************************************************************************)
EXTENDS NamespaceCluster

CmrElse == UNCHANGED <<ns, cm, qns, qdnc, qdl, nsw, dncw, dlw, budget>>

\* Reconcile goes on at pc, with todo left to do there; with no link to delete
\* it goes on to the deployments, and with no deployment it returns.
CmrGoto(pc, todo) ==
  /\ cmw' = IF pc # "links" /\ todo = {} /\ (pc = "deployments" \/ cmw.config = NoConfig)
               THEN CmIdle
             ELSE IF pc = "prune" /\ todo = {}
               THEN [pc |-> "deployments", config |-> cmw.config, todo |-> DOMAIN cmw.config]
             ELSE [pc |-> pc, config |-> cmw.config, todo |-> todo]
  /\ UNCHANGED qcm
CmrFails == cmw' = CmIdle /\ qcm' = TRUE

\* (mutant) what does not parse is worked with
CmrGetUnparsed ==
  /\ "cmr" \in Running /\ qcm /\ cmw = CmIdle
  /\ qcm' = FALSE
  /\ cmw' = IF cm.seen # Absent THEN [pc |-> "operand", config |-> cm.seen, todo |-> {}] ELSE CmIdle
  /\ CmrElse /\ UNCHANGED <<dnc, dls, deps>>

\* A missing ConfigMap is skipped, one that does not parse is an error.
CmrGet ==
  /\ "cmr" \in Running /\ qcm /\ cmw = CmIdle
  /\ qcm' = (cm.seen = Malformed)
  /\ cmw' = IF IsConfig(cm.seen) THEN [pc |-> "operand", config |-> cm.seen, todo |-> {}] ELSE CmIdle
  /\ CmrElse /\ UNCHANGED <<dnc, dls, deps>>

CmrSpec == ImportedSpec(Declared(cmw.config))

\* (mutant) the annotation of the operand is not looked at
ImportedOperandAny ==
  IF dnc.seen = Absent THEN NewOperand(CmrSpec, "configmap")
  ELSE [spec |-> CmrSpec, source |-> dnc.seen.source, ready |-> dnc.seen.ready]

\* The operand that the import wants: only one imported from it is updated.
ImportedOperand ==
  IF dnc.seen = Absent THEN NewOperand(CmrSpec, "configmap")
  ELSE IF dnc.seen.source = "configmap"
         THEN [spec |-> CmrSpec, source |-> "configmap", ready |-> dnc.seen.ready]
  ELSE dnc.seen

\* syncDashboardNamespaceConfig
CmrOperand ==
  /\ cmw.pc = "operand"
  /\ dnc' = Save(dnc, ImportedOperand)
  /\ IF Saved(dnc, ImportedOperand) THEN CmrGoto("links", LinksOf(cmw.config)) ELSE CmrFails
  /\ CmrElse /\ UNCHANGED <<dls, deps>>

CmrUrl(al) == cmw.config[al[1]].links[al[2]]

\* (mutant) a link that exists already is not updated
ImportedLinkOnce(al) ==
  LET seen == dls[ImportOf(al)].seen
  IN  IF seen = Absent THEN NewLink(CmrUrl(al), TRUE) ELSE seen

ImportedLink(al) ==
  LET seen == dls[ImportOf(al)].seen
  IN  IF seen = Absent THEN NewLink(CmrUrl(al), TRUE)
      ELSE IF seen.imported THEN [seen EXCEPT !.url = CmrUrl(al)]
      ELSE seen

\* upsertImportedDashboardLink, of one of the config's links.
CmrLink == \E al \in cmw.todo :
  LET k == ImportOf(al)
  IN  /\ cmw.pc = "links"
      /\ dls' = [dls EXCEPT ![k] = Save(dls[k], ImportedLink(al))]
      /\ IF Saved(dls[k], ImportedLink(al)) THEN CmrGoto("links", cmw.todo \ {al}) ELSE CmrFails
      /\ CmrElse /\ UNCHANGED <<dnc, deps>>

\* The imported links in the cache that the config does not have.
Superfluous ==
  {k \in LinkKeys :
     /\ dls[k].seen # Absent
     /\ dls[k].seen.imported
     /\ k \notin {ImportOf(al) : al \in LinksOf(cmw.config)}}

CmrList ==
  /\ cmw.pc = "links" /\ cmw.todo = {}
  /\ CmrGoto("prune", Superfluous)
  /\ CmrElse /\ UNCHANGED <<dnc, dls, deps>>

\* Delete carries no precondition: it meets whatever the server has by then.
CmrPrune == \E k \in cmw.todo :
  /\ cmw.pc = "prune"
  /\ dls' = [dls EXCEPT ![k] = Erase(dls[k])]
  /\ CmrGoto("prune", cmw.todo \ {k})
  /\ CmrElse /\ UNCHANGED <<dnc, deps>>

\* What it makes of deployment d: the other blank fields leave the annotation alone.
Applied(d, a, e) ==
  [shown |-> e.enabled, text |-> FillText(AppliedText(a, e), d.text, Fields),
   links |-> Complete(e.links)]

\* applyConfigToDeployment: without the deployment nothing is done, and an
\* Update that is refused is logged and passed over.
CmrApply == \E a \in cmw.todo :
  /\ cmw.pc = "deployments"
  /\ deps' = IF deps[a].seen = Absent THEN deps
             ELSE [deps EXCEPT ![a] = Save(deps[a], Applied(deps[a].seen, a, cmw.config[a]))]
  /\ CmrGoto("deployments", cmw.todo \ {a})
  /\ CmrElse /\ UNCHANGED <<dnc, dls>>

\* A failing call: the reconcile ends and is requeued, except that one deployment
\* that fails is passed over.
CmrApiError ==
  /\ Disturb("error")
  /\ cmw # CmIdle
  /\ IF cmw.pc = "deployments"
       THEN \E a \in cmw.todo : CmrGoto("deployments", cmw.todo \ {a})
       ELSE CmrFails
  /\ UNCHANGED <<Objects, qns, qdnc, qdl, nsw, dncw, dlw>>

Cmr == CmrGet \/ CmrOperand \/ CmrLink \/ CmrList \/ CmrPrune \/ CmrApply
=============================================================================
