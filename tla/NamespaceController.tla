------------------------ MODULE NamespaceController ------------------------
(***************************************************************************)
(* NamespaceReconciler (NSR): imports the deployments that are labelled    *)
(* already into a DashboardNamespaceConfig, then generates the ConfigMap   *)
(* of a labelled namespace, or adds to it what discovery finds.            *)
(***************************************************************************)
EXTENDS NamespaceCluster

NsrElse == UNCHANGED <<ns, dls, deps, qcm, qdnc, qdl, cmw, dncw, dlw, budget>>

\* (mutant) the error is logged and not returned
NsrFailsSilently == nsw' = NsIdle /\ UNCHANGED qns

\* Reconcile goes on at pc; it returns; it returns an error and is requeued.
NsrGoto(pc) == nsw' = [nsw EXCEPT !.pc = pc] /\ UNCHANGED qns
NsrDone == nsw' = NsIdle /\ UNCHANGED qns
NsrFails == nsw' = NsIdle /\ qns' = TRUE

NsrGet ==
  /\ "nsr" \in Running /\ qns /\ nsw = NsIdle
  /\ qns' = FALSE
  /\ nsw' = [pc |-> "import", labelled |-> ns.seen]
  /\ NsrElse /\ UNCHANGED <<cm, dnc>>

\* appConfigFromDeployment
AppConfigOf(a) ==
  [enabled |-> TRUE,
   text |-> FillText(deps[a].seen.text, Unannotated[a], Fields),
   links |-> deps[a].seen.links]

LiveApps == {a \in Apps : deps[a].seen # Absent /\ deps[a].seen.shown}

\* The map from display names to the deployment of that name: of several, the
\* last in the list, and a cache lists them in any order.
DisplayNames ==
  IF {"displayName", "appGroup"} \subseteq Fields
    THEN {AppConfigOf(a).text["displayName"] : a \in LiveApps} ELSE {}
Namings ==
  {m \in [DisplayNames -> LiveApps] :
     \A t \in DisplayNames : AppConfigOf(m[t]).text["displayName"] = t}

\* (mutant) groups are imported as they are annotated
NormalizedNot(e, m) == e

\* A group that is a display name becomes the name of that deployment.
Normalized(e, m) ==
  [enabled |-> e.enabled,
   text |-> [f \in Fields |->
     IF f = "appGroup" /\ e.text[f] \in DOMAIN m THEN m[e.text[f]] ELSE e.text[f]],
   links |-> e.links]

LiveSpec(m) == ImportedSpec([a \in LiveApps |-> Normalized(AppConfigOf(a), m)])

\* (mutant) an operand that exists already is not updated
LiveOperandOnce(m) ==
  IF LiveApps = {} THEN dnc.seen
  ELSE IF dnc.seen = Absent THEN NewOperand(LiveSpec(m), "live")
  ELSE dnc.seen

\* The operand that live import wants: one of another origin is left as it is.
LiveOperand(m) ==
  IF LiveApps = {} THEN dnc.seen
  ELSE IF dnc.seen = Absent THEN NewOperand(LiveSpec(m), "live")
  ELSE IF dnc.seen.source = "live"
         THEN [spec |-> LiveSpec(m), source |-> "live", ready |-> dnc.seen.ready]
  ELSE dnc.seen

\* syncDashboardNamespaceConfigFromLiveState, and the check of the label after it.
NsrImport == \E m \in Namings :
  /\ nsw.pc = "import"
  /\ dnc' = Save(dnc, LiveOperand(m))
  /\ IF ~Saved(dnc, LiveOperand(m)) THEN NsrFails
     ELSE IF nsw.labelled THEN NsrGoto("config")
     ELSE NsrDone
  /\ NsrElse /\ UNCHANGED cm

\* What generateConfigMap or mergeConfigMap makes of the cached ConfigMap.
Generated == IF cm.seen = Absent THEN Discovered ELSE MergedByNamespace(cm.seen, Discovered)

\* (mutant) the merged config is patched in, whatever the server has by now
NsrConfigByPatch ==
  /\ nsw.pc = "config"
  /\ IF cm.seen = Malformed
       THEN NsrFails /\ UNCHANGED cm
       ELSE /\ cm' = IF Generated # cm.seen THEN Put(cm, Generated) ELSE cm
            /\ NsrDone
  /\ NsrElse /\ UNCHANGED dnc

NsrConfig ==
  /\ nsw.pc = "config"
  /\ IF cm.seen = Malformed
       THEN NsrFails /\ UNCHANGED cm
       ELSE /\ cm' = Save(cm, Generated)
            /\ IF Saved(cm, Generated) THEN NsrDone ELSE NsrFails
  /\ NsrElse /\ UNCHANGED dnc

\* A call of a running reconcile fails for reasons of its own.
NsrApiError ==
  /\ Disturb("error")
  /\ nsw # NsIdle
  /\ NsrFails
  /\ UNCHANGED <<Objects, qcm, qdnc, qdl, cmw, dncw, dlw>>

Nsr == NsrGet \/ NsrImport \/ NsrConfig
=============================================================================
