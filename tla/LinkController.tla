-------------------------- MODULE LinkController --------------------------
(***************************************************************************)
(* DashboardLinkReconciler (DLR) on the links of namespace apps: keeps the *)
(* link in the entry of its app in the namespace ConfigMap, takes it out   *)
(* when the DashboardLink is finalized, and sets the link's status. Links  *)
(* that mirror a standalone ConfigMap are in module CustomLinkSync.        *)
(***************************************************************************)
EXTENDS NamespaceCluster

DlrElse == UNCHANGED <<dnc, deps, qns, qcm, qdnc, nsw, cmw, dncw, budget>>

\* The link of the reconcile, its app and its name in the config.
Key == dlw.key
DlrApp == dlw.key[1]
DlrName == dlw.key[2]

DlrGoto(pc) == dlw' = [dlw EXCEPT !.pc = pc] /\ UNCHANGED <<dls, qdl>>

\* Where Reconcile goes with the link it read.
Branch(l) ==
  IF l = Absent THEN "idle"
  ELSE IF l.del THEN (IF l.final THEN "unlink" ELSE "idle")
  ELSE IF l.url = NoUrl THEN "reject"
  ELSE IF ~l.final THEN "finalizer"
  ELSE "label"

DlrGet(k) ==
  /\ "dlr" \in Running /\ k \in qdl /\ dlw = DlIdle
  /\ qdl' = qdl \ {k}
  /\ IF Branch(dls[k].seen) = "idle"
       THEN UNCHANGED <<dls, dlw>>
       ELSE /\ dls' = [dls EXCEPT ![k] = Fetch(dls[k], "dlr")]
            /\ dlw' = [pc |-> Branch(dls[k].seen), key |-> k, copy |-> dls[k].seen]
  /\ DlrElse /\ UNCHANGED <<ns, cm>>

\* The link is written from the copy that h holds, and Reconcile returns; an
\* outdated copy is refused and the key requeued.
DlrReturn(h, b) ==
  /\ dls' = [dls EXCEPT ![Key] = Release(IF Current(dls[Key], h) THEN Put(dls[Key], b) ELSE dls[Key], "dlr")]
  /\ qdl' = IF Current(dls[Key], h) THEN qdl ELSE qdl \cup {Key}
  /\ dlw' = DlIdle

\* (mutant) the link as it was read is patched in, whatever it is by now
DlrAddFinalizerByPatch ==
  /\ dlw.pc = "finalizer"
  /\ dls' = [dls EXCEPT ![Key] = Release(
       IF dls[Key].obj # Absent THEN Put(dls[Key], [dlw.copy EXCEPT !.final = TRUE]) ELSE dls[Key], "dlr")]
  /\ dlw' = DlIdle
  /\ DlrElse /\ UNCHANGED <<ns, cm, qdl>>

DlrAddFinalizer ==
  /\ dlw.pc = "finalizer"
  /\ DlrReturn("dlr", [dlw.copy EXCEPT !.final = TRUE])
  /\ DlrElse /\ UNCHANGED <<ns, cm>>

\* ensureDashboardNamespaceLabel
DlrLabel ==
  /\ dlw.pc = "label"
  /\ ns' = Save(ns, TRUE)
  /\ DlrGoto(IF Saved(ns, TRUE) THEN "write" ELSE "reject")
  /\ DlrElse /\ UNCHANGED cm

\* The entry the link is merged into.
DlrEntry(c) ==
  IF DlrApp \in DOMAIN c THEN c[DlrApp]
  ELSE IF DlrApp \in DOMAIN Discovered THEN Guess[DlrApp]
  ELSE Assumed[DlrApp]

DlrDesired ==
  LET c == Loaded(cm.seen)
  IN  [n \in DOMAIN c \cup {DlrApp} |->
         IF n = DlrApp THEN WithLink(DlrEntry(c), DlrName, dlw.copy.url) ELSE c[n]]

DlrWrite ==
  /\ dlw.pc = "write"
  /\ IF cm.seen = Malformed
       THEN DlrGoto("reject") /\ UNCHANGED cm
       ELSE /\ cm' = Save(cm, DlrDesired)
            /\ DlrGoto(IF Saved(cm, DlrDesired) THEN "accept" ELSE "reject")
  /\ DlrElse /\ UNCHANGED ns

\* setDashboardLinkStatus works on the link it reads again.
WithStatus(l, ready) ==
  [url |-> l.url, imported |-> l.imported, final |-> l.final, del |-> l.del, ready |-> ready]

DlrAccept ==
  /\ dlw.pc = "accept"
  /\ DlrReturn("cache", WithStatus(dls[Key].seen, "True"))
  /\ DlrElse /\ UNCHANGED <<ns, cm>>

\* A best-effort status, then the error.
DlrReject ==
  /\ dlw.pc = "reject"
  /\ dls' = [dls EXCEPT ![Key] = Release(
       IF Current(dls[Key], "cache") THEN Put(dls[Key], WithStatus(dls[Key].seen, "False"))
                                     ELSE dls[Key], "dlr")]
  /\ qdl' = qdl \cup {Key}
  /\ dlw' = DlIdle
  /\ DlrElse /\ UNCHANGED <<ns, cm>>

\* removeLinkFromConfigMap
DlrUnlink ==
  /\ dlw.pc = "unlink"
  /\ IF cm.seen = Malformed
       THEN DlrGoto("reject") /\ UNCHANGED cm
     ELSE IF cm.seen = Absent
       THEN DlrGoto("release") /\ UNCHANGED cm
       ELSE LET b == WithoutLink(cm.seen, DlrApp, DlrName)
            IN  /\ cm' = Save(cm, b)
                /\ DlrGoto(IF Saved(cm, b) THEN "release" ELSE "reject")
  /\ DlrElse /\ UNCHANGED ns

\* RemoveFinalizer and Update: the server drops the link.
DlrRelease ==
  /\ dlw.pc = "release"
  /\ DlrReturn("dlr", Absent)
  /\ DlrElse /\ UNCHANGED <<ns, cm>>

\* (mutant) the error is logged and not returned
DlrApiErrorSwallowed ==
  /\ Disturb("error")
  /\ dlw # DlIdle
  /\ dls' = [dls EXCEPT ![Key] = Release(dls[Key], "dlr")]
  /\ dlw' = DlIdle
  /\ UNCHANGED <<ns, cm, dnc, deps, Queues, nsw, cmw, dncw>>

\* A failing call: an error with a status before it, or the write itself.
DlrApiError ==
  /\ Disturb("error")
  /\ dlw # DlIdle
  /\ IF dlw.pc \in {"label", "write", "unlink"}
       THEN DlrGoto("reject")
       ELSE /\ dls' = [dls EXCEPT ![Key] = Release(dls[Key], "dlr")]
            /\ qdl' = qdl \cup {Key}
            /\ dlw' = DlIdle
  /\ UNCHANGED <<ns, cm, dnc, deps, qns, qcm, qdnc, nsw, cmw, dncw>>

Dlr ==
  \/ \E k \in LinkKeys : DlrGet(k)
  \/ DlrAddFinalizer \/ DlrLabel \/ DlrWrite \/ DlrAccept \/ DlrReject
  \/ DlrUnlink \/ DlrRelease
=============================================================================
