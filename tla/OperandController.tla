------------------------- MODULE OperandController -------------------------
(***************************************************************************)
(* DashboardNamespaceConfigReconciler (DNCR): labels the namespace of an   *)
(* enabled operand, writes what the operand declares into the ConfigMap,   *)
(* and sets the operand's status.                                          *)
(***************************************************************************)
EXTENDS NamespaceCluster

DncrElse == UNCHANGED <<dls, deps, qns, qcm, qdl, nsw, cmw, dlw, budget>>

DncrGoto(pc) == dncw' = [dncw EXCEPT !.pc = pc] /\ UNCHANGED <<dnc, qdnc>>

DncrGet ==
  /\ "dncr" \in Running /\ qdnc /\ dncw = DncIdle
  /\ qdnc' = FALSE
  /\ dncw' = IF dnc.seen = Absent THEN DncIdle
             ELSE [pc |-> IF dnc.seen.spec.enabled THEN "label" ELSE "write", copy |-> dnc.seen]
  /\ DncrElse /\ UNCHANGED <<ns, cm, dnc>>

\* ensureDashboardNamespaceLabel
DncrLabel ==
  /\ dncw.pc = "label"
  /\ ns' = Save(ns, TRUE)
  /\ DncrGoto(IF Saved(ns, TRUE) THEN "write" ELSE "reject")
  /\ DncrElse /\ UNCHANGED cm

DncrDesired == Desired(Loaded(cm.seen), Discovered, dncw.copy.spec)

\* loadNamespaceConfigMap, discovery, overlay and upsertNamespaceConfigMap.
DncrWrite ==
  /\ dncw.pc = "write"
  /\ IF cm.seen = Malformed
       THEN DncrGoto("reject") /\ UNCHANGED cm
       ELSE /\ cm' = Save(cm, DncrDesired)
            /\ DncrGoto(IF Saved(cm, DncrDesired) THEN "accept" ELSE "reject")
  /\ DncrElse /\ UNCHANGED ns

\* setDashboardNamespaceConfigStatus, on the operand read again. It always
\* sends the update; without success the key is requeued.
DncrStatus(ready) ==
  /\ dnc' = IF Current(dnc, "cache")
              THEN Put(dnc, [spec |-> dnc.seen.spec, source |-> dnc.seen.source, ready |-> ready])
              ELSE dnc
  /\ dncw' = DncIdle

DncrAccept ==
  /\ dncw.pc = "accept"
  /\ DncrStatus("True")
  /\ qdnc' = (qdnc \/ ~Current(dnc, "cache"))
  /\ DncrElse /\ UNCHANGED <<ns, cm>>

\* A best-effort status, then the error.
DncrReject ==
  /\ dncw.pc = "reject"
  /\ DncrStatus("False")
  /\ qdnc' = TRUE
  /\ DncrElse /\ UNCHANGED <<ns, cm>>

\* (mutant) the error is logged and not returned
DncrApiErrorSwallowed ==
  /\ Disturb("error")
  /\ dncw # DncIdle
  /\ dncw' = DncIdle
  /\ UNCHANGED <<Objects, Queues, nsw, cmw, dlw>>

\* A failing call: an error with a status before it, or the status itself.
DncrApiError ==
  /\ Disturb("error")
  /\ dncw # DncIdle
  /\ IF dncw.pc \in {"label", "write"}
       THEN dncw' = [dncw EXCEPT !.pc = "reject"] /\ UNCHANGED qdnc
       ELSE dncw' = DncIdle /\ qdnc' = TRUE
  /\ UNCHANGED <<Objects, qns, qcm, qdl, nsw, cmw, dlw>>

Dncr == DncrGet \/ DncrLabel \/ DncrWrite \/ DncrAccept \/ DncrReject
=============================================================================
