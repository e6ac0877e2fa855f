--------------------- MODULE NamespaceQuiescenceProofs ---------------------
(***************************************************************************)
(* What the namespace pipeline has come to when nothing is left to do, for *)
(* any apps, links, targets, texts, and any number of disturbances.        *)
(*                                                                         *)
(* Each of the results says that two objects agree when the pipeline is at *)
(* rest. The inductive invariant behind it says that they agree or that    *)
(* work is pending which will look at both: an event on its way, a key in  *)
(* a queue, or a worker that has yet to come to the call.                  *)
(*                                                                         *)
(* Then what holds at every step: the life that the links have, and the    *)
(* groups of an operand that is imported from deployments.                 *)
(***************************************************************************)
EXTENDS NamespacePipelineProofs

\* What a reconcile holds is what the cache has, unless its key is queued anew.
InStep ==
  /\ nsw # NsIdle /\ ~qns => nsw.labelled = ns.seen
  /\ cmw # CmIdle /\ ~qcm => cmw.config = cm.seen
  /\ dncw # DncIdle /\ ~qdnc => dncw.copy = dnc.seen
  /\ dlw # DlIdle /\ dlw.key \notin qdl => dlw.copy = dls[dlw.key].seen

\* A link that is marked for deletion has the finalizer. The copy of a link that is
\* kept across steps is the server's while it is fresh, and Reconcile is where it
\* goes with such a copy.
CopyHeld ==
  /\ \A k \in LinkKeys : dls[k].obj # Absent /\ dls[k].obj.del => dls[k].obj.final
  /\ dlw # DlIdle /\ "dlr" \in dls[dlw.key].fresh => dlw.copy = dls[dlw.key].obj
  /\ dlw.pc = "finalizer" => ~dlw.copy.final
  /\ dlw.pc \in {"label", "write", "accept"} => dlw.copy.final /\ ~dlw.copy.del

\* Work that will look at the operand, and at the ConfigMap.
OperandPending == ~Settled(dnc) \/ qdnc \/ dncw.pc \in {"label", "write", "reject"}
ConfigPending == ~Settled(cm) \/ qcm
ImportPending == ConfigPending \/ cmw.pc = "operand"

OperandAgrees ==
  IsConfig(cm.obj) /\ dnc.obj # Absent /\ dnc.obj.source = "configmap"
    => \/ Contains(Declared(cm.obj), Declared(dnc.obj.spec.apps))
       \/ ImportPending \/ OperandPending

OperandReported ==
  dnc.obj # Absent => dnc.obj.ready = "True" \/ OperandPending \/ dncw.pc = "accept"

\* Work that will look at link k: at "accept" only its status is left to write.
Reconciles(k, pcs) == dlw.key = k /\ dlw.pc \in pcs
LinkPending(k) ==
  \/ ~Settled(dls[k]) \/ k \in qdl
  \/ Reconciles(k, {"finalizer", "label", "write", "reject", "unlink", "release"})

LinkReported(k) ==
  dls[k].obj # Absent =>
    /\ dls[k].obj.del => LinkPending(k)
    /\ \/ dls[k].obj.ready = "True" /\ dls[k].obj.final
       \/ LinkPending(k) \/ Reconciles(k, {"accept"})

\* An import of the ConfigMap that has yet to come to link k, to update or to delete it.
LinkToImport(k) ==
  \/ cmw.pc = "operand"
  \/ cmw.pc = "links" /\ (k \in {ImportOf(al) : al \in cmw.todo}
                          \/ k \notin {ImportOf(al) : al \in LinksOf(cmw.config)})
  \/ cmw.pc = "prune" /\ k \in cmw.todo

LinkAgrees(k) ==
  IsConfig(cm.obj) /\ dls[k].obj # Absent /\ dls[k].obj.imported
    => \/ EntryOf(cm.obj, k[1]).links[k[2]] = dls[k].obj.url
       \/ ConfigPending \/ LinkPending(k) \/ LinkToImport(k)

\* Users write no operand that replaces what is in the ConfigMap, and there is none.
NoReplace == "operand" \in Kinds => \A s \in UserSpecs : s.mode # "Replace"
Replaces(d) == d # Absent /\ d.spec.mode = "Replace"
NoneReplaces == ~Replaces(dnc.obj) /\ ~Replaces(dnc.seen) /\ ~Replaces(dncw.copy)

\* The cache knows of every deployment there is.
AllSeen == \A a \in Apps : deps[a].obj # Absent => deps[a].seen # Absent

\* What keeps the entries of deployments in the ConfigMap, and in the cache at most
\* those that it has.
EntriesStay ==
  EntriesLeft =>
    /\ NoReplace => NoneReplaces
    /\ "deployment" \notin Kinds => AllSeen
    /\ cm.obj # Malformed /\ cm.seen # Malformed
    /\ cm.seen # Absent =>
         /\ cm.obj # Absent
         /\ \A a \in DOMAIN cm.seen :
              NoReplace \/ deps[a].obj # Absent => a \in DOMAIN cm.obj

\* Work that will add an entry for deployment a.
ListPending(a) ==
  \/ ~Settled(ns) \/ ~Settled(deps[a]) \/ qns
  \/ nsw.pc = "import" \/ nsw.pc = "config"

DeploymentListed(a) ==
  EntriesLeft /\ ns.obj /\ deps[a].obj # Absent
    => (IsConfig(cm.obj) /\ a \in DOMAIN cm.obj) \/ ListPending(a)

QInv ==
  /\ IInv /\ InStep /\ CopyHeld
  /\ OperandAgrees /\ OperandReported
  /\ \A k \in LinkKeys : LinkReported(k) /\ LinkAgrees(k)
  /\ EntriesStay /\ \A a \in Apps : DeploymentListed(a)
----------------------------------------------------------------------------
(* What a step leaves, when it leaves no work pending *)

LEMMA Unsettling ==
  ASSUME NEW o, NEW b
  PROVE  /\ Put(o, b) = o \/ ~Settled(Put(o, b))
         /\ Save(o, b) = o \/ ~Settled(Save(o, b))
BY DEF Put, Save, Settled

\* What a write, or reading, leaves of link o: the cache as it is, and the link too
\* unless an event is on its way.
Kept(p, o) == p.seen = o.seen /\ (Settled(p) => p.obj = o.obj /\ Settled(o))

LEMMA LinkUnsettling ==
  ASSUME NEW o \in LinkObjects, NEW b
  PROVE  /\ Kept(o, o) /\ Kept(Put(o, b), o) /\ Kept(Save(o, b), o) /\ Kept(Erase(o), o)
         /\ Kept(Fetch(o, "dlr"), o) /\ Kept(Release(o, "dlr"), o)
         /\ Kept(Release(Put(o, b), "dlr"), o)
<1>1. o = [obj |-> o.obj, seen |-> o.seen, fresh |-> o.fresh] /\ o.fresh \subseteq {"cache", "dlr"}
  BY DEF LinkObjects, ObjectsOf, ObjectType
<1>2. \A c : \/ Put(o, c) = o
             \/ /\ ~Settled(Put(o, c)) /\ ~Settled(Release(Put(o, c), "dlr"))
                /\ Put(o, c).seen = o.seen /\ Release(Put(o, c), "dlr").seen = o.seen
  BY DEF Put, Settled, Release
<1>3. Kept(Release(o, "dlr"), o) /\ Kept(Fetch(o, "dlr"), o) /\ Kept(o, o)
  BY <1>1 DEF Kept, Settled, Release, Fetch
<1>. QED
  BY <1>2, <1>3 DEF Kept, Save, Erase

LEMMA InformersKeep ==
  ASSUME IInv, Informers
  PROVE  /\ ns' = ns \/ qns'
         /\ cm' = cm \/ qcm'
         /\ dnc' = dnc \/ qdnc'
         /\ \A k \in LinkKeys : dls'[k] = dls[k] \/ k \in qdl'
         /\ \A a \in Apps : deps'[a] = deps[a] \/ qns'
         /\ (qns => qns') /\ (qcm => qcm') /\ (qdnc => qdnc') /\ qdl \subseteq qdl'
         /\ UNCHANGED Workers
BY DEF Informers, DeliverNamespace, DeliverConfigMap, DeliverOperand, DeliverLink,
       DeliverDeployment, IInv, Workers

\* What none but the users, a resync or a restart do to the queues.
LEMMA DisturbancesKeep ==
  ASSUME IInv, Disturbances, ~Restart
  PROVE  /\ ns' = ns \/ ~Settled(ns')
         /\ cm' = cm \/ ~Settled(cm')
         /\ dnc' = dnc \/ ~Settled(dnc')
         /\ \A k \in LinkKeys : Kept(dls'[k], dls[k])
         /\ \A a \in Apps : deps'[a] = deps[a] \/ ~Settled(deps'[a])
         /\ (qns => qns') /\ (qcm => qcm') /\ (qdnc => qdnc') /\ qdl \subseteq qdl'
         /\ UNCHANGED Workers
<1>. USE DEF Queues, Objects, Workers
<1>k. \A k \in LinkKeys : dls[k] \in LinkObjects /\ Kept(dls[k], dls[k])
  BY LinkUnsettling DEF IInv
<1>1. CASE UserLabelsNamespace
  BY <1>1, <1>k, Unsettling DEF UserLabelsNamespace
<1>2. CASE UserEditsConfigMap
  <2>1. PICK b : UserWritesConfigMap(b)
    BY <1>2 DEF UserEditsConfigMap
  <2>. QED
    BY <2>1, <1>k, Unsettling DEF UserWritesConfigMap
<1>3. CASE UserEditsOperand
  BY <1>3, <1>k, Unsettling DEF UserEditsOperand
<1>4. CASE UserAddsLink
  <2>1. PICK j \in LinkKeys, u \in Urls :
          /\ dls' = [dls EXCEPT ![j] = Put(dls[j], NewLink(u, FALSE))]
          /\ UNCHANGED <<ns, cm, dnc, deps, Queues, Workers>>
    BY <1>4 DEF UserAddsLink
  <2>2. \A k \in LinkKeys : Kept(dls'[k], dls[k])
    BY <1>k, <2>1, LinkUnsettling DEF IInv
  <2>. QED
    BY <2>1, <2>2
<1>5. CASE UserEditsLink
  <2>1. PICK j \in LinkKeys :
          /\ \/ \E b : dls' = [dls EXCEPT ![j] = Put(dls[j], b)]
             \/ dls' = [dls EXCEPT ![j] = Erase(dls[j])]
          /\ UNCHANGED <<ns, cm, dnc, deps, Queues, Workers>>
    BY <1>5 DEF UserEditsLink
  <2>2. \A k \in LinkKeys : Kept(dls'[k], dls[k])
    BY <1>k, <2>1, LinkUnsettling DEF IInv
  <2>. QED
    BY <2>1, <2>2
<1>6. CASE Rollout
  BY <1>6, <1>k, Unsettling DEF Rollout, IInv
<1>7. CASE Resync
  BY <1>7, <1>k DEF Resync, Enqueued, IInv
<1>. QED
  BY <1>1, <1>2, <1>3, <1>4, <1>5, <1>6, <1>7 DEF Disturbances, Users

\* After a restart all there is is in the queues, and no reconcile is under way.
LEMMA RestartEnqueues ==
  ASSUME IInv, Restart
  PROVE  /\ qns' = TRUE
         /\ cm'.obj = cm.obj /\ (cm.obj # Absent => qcm')
         /\ dnc'.obj = dnc.obj /\ (dnc.obj # Absent => qdnc')
         /\ \A k \in LinkKeys : dls'[k].obj = dls[k].obj /\ (dls[k].obj # Absent => k \in qdl')
         /\ nsw' = NsIdle /\ cmw' = CmIdle /\ dncw' = DncIdle /\ dlw' = DlIdle
         /\ ns'.obj = ns.obj /\ \A a \in Apps : deps'[a].obj = deps[a].obj /\ deps'[a].seen = deps[a].obj
         /\ cm'.seen = cm.obj /\ dnc'.seen = dnc.obj
BY DEF Restart, Listed

LEMMA NsrKeeps ==
  ASSUME IInv, Nsr \/ NsrApiError
  PROVE  /\ cm' = cm \/ ~Settled(cm')
         /\ cm' # cm => NsrConfig
         /\ dnc' = dnc \/ ~Settled(dnc')
         /\ qns /\ ~qns' => NsrGet
         /\ UNCHANGED <<ns, dls, deps, qcm, qdnc, qdl, cmw, dncw, dlw>>
<1>. USE DEF NsrElse
<1>1. CASE NsrGet
  BY <1>1 DEF NsrGet
<1>2. CASE NsrImport
  BY <1>2, Unsettling DEF NsrImport, NsrGoto, NsrDone, NsrFails
<1>3. CASE NsrConfig
  BY <1>3, Unsettling DEF NsrConfig, NsrDone, NsrFails
<1>4. CASE NsrApiError
  BY <1>4 DEF NsrApiError, NsrFails, Objects
<1>. QED
  BY <1>1, <1>2, <1>3, <1>4 DEF Nsr

LEMMA CmrKeeps ==
  ASSUME IInv, Cmr \/ CmrApiError
  PROVE  /\ dnc' = dnc \/ ~Settled(dnc')
         /\ \A k \in LinkKeys : Kept(dls'[k], dls[k])
         /\ \A a \in Apps : deps'[a] = deps[a] \/ ~Settled(deps'[a])
         /\ qcm /\ ~qcm' => CmrGet
         /\ UNCHANGED <<ns, cm, qns, qdnc, qdl, nsw, dncw, dlw>>
<1>. USE DEF CmrElse
<1>k. \A k \in LinkKeys : dls[k] \in LinkObjects /\ Kept(dls[k], dls[k])
  BY LinkUnsettling DEF IInv
<1>1. CASE CmrGet
  BY <1>1, <1>k DEF CmrGet
<1>2. CASE CmrOperand
  BY <1>2, <1>k, Unsettling DEF CmrOperand, CmrGoto, CmrFails
<1>3. CASE CmrLink
  BY <1>3, <1>k, LinkUnsettling DEF CmrLink, CmrGoto, CmrFails, IInv
<1>4. CASE CmrList
  BY <1>4, <1>k DEF CmrList, CmrGoto
<1>5. CASE CmrPrune
  BY <1>5, <1>k, LinkUnsettling DEF CmrPrune, CmrGoto, IInv
<1>6. CASE CmrApply
  BY <1>6, <1>k, Unsettling DEF CmrApply, CmrGoto, IInv
<1>7. CASE CmrApiError
  BY <1>7, <1>k DEF CmrApiError, CmrGoto, CmrFails, Objects
<1>. QED
  BY <1>1, <1>2, <1>3, <1>4, <1>5, <1>6, <1>7 DEF Cmr

LEMMA DncrKeeps ==
  ASSUME IInv, Dncr \/ DncrApiError
  PROVE  /\ ns' = ns \/ ~Settled(ns')
         /\ cm' = cm \/ ~Settled(cm')
         /\ cm' # cm => DncrWrite
         /\ dnc' = dnc \/ ~Settled(dnc')
         /\ dnc' # dnc => DncrAccept \/ DncrReject
         /\ qdnc /\ ~qdnc' => DncrGet
         /\ UNCHANGED <<dls, deps, qns, qcm, qdl, nsw, cmw, dlw>>
<1>. USE DEF DncrElse
<1>1. CASE DncrGet
  BY <1>1 DEF DncrGet
<1>2. CASE DncrLabel
  BY <1>2, Unsettling DEF DncrLabel, DncrGoto
<1>3. CASE DncrWrite
  BY <1>3, Unsettling DEF DncrWrite, DncrGoto
<1>4. CASE DncrAccept \/ DncrReject
  BY <1>4, Unsettling DEF DncrAccept, DncrReject, DncrStatus
<1>5. CASE DncrApiError
  BY <1>5 DEF DncrApiError, Objects
<1>. QED
  BY <1>1, <1>2, <1>3, <1>4, <1>5 DEF Dncr

LEMMA DlrKeeps ==
  ASSUME IInv, Dlr \/ DlrApiError
  PROVE  /\ ns' = ns \/ ~Settled(ns')
         /\ cm' = cm \/ ~Settled(cm')
         /\ cm' # cm => DlrWrite \/ DlrUnlink
         /\ \A k \in LinkKeys : Kept(dls'[k], dls[k])
         /\ \A k \in qdl : k \in qdl' \/ DlrGet(k)
         /\ UNCHANGED <<dnc, deps, qns, qcm, qdnc, nsw, cmw, dncw>>
<1>. USE DEF DlrElse
<1>k. \A k \in LinkKeys : dls[k] \in LinkObjects /\ Kept(dls[k], dls[k])
  BY LinkUnsettling DEF IInv
<1>1. ASSUME NEW k \in LinkKeys, DlrGet(k)
      PROVE  /\ ns' = ns /\ cm' = cm
             /\ \A j \in LinkKeys : Kept(dls'[j], dls[j])
             /\ qdl' = qdl \ {k}
             /\ UNCHANGED <<dnc, deps, qns, qcm, qdnc, nsw, cmw, dncw>>
  BY <1>1, <1>k, LinkUnsettling DEF DlrGet, IInv
<1>2. ASSUME NEW h, NEW b, DlrReturn(h, b) PROVE \A j \in LinkKeys : Kept(dls'[j], dls[j])
  BY <1>2, <1>k, LinkUnsettling DEF DlrReturn, Key, IInv
<1>3. CASE DlrAddFinalizer \/ DlrAccept \/ DlrRelease
  <2>1. PICK h, b : DlrReturn(h, b)
    BY <1>3 DEF DlrAddFinalizer, DlrAccept, DlrRelease
  <2>. QED
    BY <1>3, <1>2, <2>1 DEF DlrReturn, DlrAddFinalizer, DlrAccept, DlrRelease
<1>4. CASE DlrLabel
  BY <1>4, <1>k, Unsettling DEF DlrLabel, DlrGoto
<1>5. CASE DlrWrite \/ DlrUnlink
  BY <1>5, <1>k, Unsettling DEF DlrWrite, DlrUnlink, DlrGoto
<1>6. CASE DlrReject
  BY <1>6, <1>k, LinkUnsettling DEF DlrReject, Key, IInv
<1>7. CASE DlrApiError
  BY <1>7, <1>k, LinkUnsettling DEF DlrApiError, DlrGoto, Key, IInv
<1>. QED
  BY <1>1, <1>3, <1>4, <1>5, <1>6, <1>7 DEF Dlr

----------------------------------------------------------------------------
\* With no event on its way, the cache has what the server has.
LEMMA SettledIsSeen ==
  ASSUME IInv
  PROVE  /\ Settled(ns) => ns.seen = ns.obj
         /\ Settled(cm) => cm.seen = cm.obj
         /\ Settled(dnc) => dnc.seen = dnc.obj
         /\ \A k \in LinkKeys : Settled(dls[k]) => dls[k].seen = dls[k].obj
         /\ \A a \in Apps : Settled(deps[a]) => deps[a].seen = deps[a].obj
BY DEF IInv, Settled, Coherent, NamespaceObjects, ConfigObjects, OperandObjects, LinkObjects,
       DeploymentObjects, ObjectsOf

\* A call that succeeds and leaves no event on its way had nothing to write.
LEMMA SavedInVain ==
  ASSUME NEW o, NEW b, Settled(o), o.seen = o.obj, o.obj # Absent,
         Saved(o, b), Save(o, b) = o \/ Settled(Save(o, b))
  PROVE  b = o.obj
<1>1. Accepted(o)
  BY DEF Accepted, Current, Settled
<1>2. b # o.obj => Put(o, b).fresh = {} /\ o.fresh # {}
  BY DEF Put, Settled
<1>. QED
  BY <1>1, <1>2 DEF Save, Settled

\* Only an informer and a restart change what the caches have.
Cached ==
  <<ns.seen, cm.seen, dnc.seen, [k \in LinkKeys |-> dls[k].seen], [a \in Apps |-> deps[a].seen]>>

LEMMA WritesKeepSeen ==
  ASSUME NEW o, NEW b
  PROVE  Put(o, b).seen = o.seen /\ Save(o, b).seen = o.seen
BY DEF Put, Save

LEMMA CachesKeep ==
  ASSUME IInv, Next, ~Informers, ~Restart
  PROVE  UNCHANGED Cached
<1>1. \A k \in LinkKeys : Kept(dls'[k], dls[k]) => dls'[k].seen = dls[k].seen
  BY DEF Kept
<1>2. CASE Nsr \/ NsrApiError
  <2>1. ns' = ns /\ dls' = dls /\ deps' = deps
    BY <1>2, NsrKeeps
  <2>2. cm'.seen = cm.seen /\ dnc'.seen = dnc.seen
    BY <1>2, WritesKeepSeen DEF Nsr, NsrGet, NsrImport, NsrConfig, NsrApiError, Objects
  <2>. QED
    BY <2>1, <2>2 DEF Cached
<1>3. CASE Cmr \/ CmrApiError
  <2>1. ns' = ns /\ cm' = cm /\ \A k \in LinkKeys : dls'[k].seen = dls[k].seen
    BY <1>3, <1>1, CmrKeeps
  <2>2. dnc'.seen = dnc.seen
    BY <1>3, WritesKeepSeen
       DEF Cmr, CmrGet, CmrOperand, CmrLink, CmrList, CmrPrune, CmrApply, CmrApiError, Objects
  <2>3. deps' = deps \/ \E a \in Apps : \E b : deps' = [deps EXCEPT ![a] = Save(deps[a], b)]
    <3>1. CmrApply => \E a \in cmw.todo : cmw.pc = "deployments" /\
            (deps' = deps \/ \E b : deps' = [deps EXCEPT ![a] = Save(deps[a], b)])
      BY DEF CmrApply
    <3>2. cmw.pc = "deployments" => cmw.todo \subseteq Apps
      BY DEF IInv, CmWorkers, CmIdle
    <3>. QED
      BY <1>3, <3>1, <3>2
         DEF Cmr, CmrGet, CmrOperand, CmrLink, CmrList, CmrPrune, CmrApiError, Objects
  <2>4. \A a \in Apps : deps'[a].seen = deps[a].seen
    BY <2>3, WritesKeepSeen DEF IInv
  <2>. QED
    BY <2>1, <2>2, <2>4 DEF Cached
<1>4. CASE Dncr \/ DncrApiError
  <2>1. dls' = dls /\ deps' = deps
    BY <1>4, DncrKeeps
  <2>2. ns'.seen = ns.seen /\ cm'.seen = cm.seen /\ dnc'.seen = dnc.seen
    BY <1>4, WritesKeepSeen
       DEF Dncr, DncrGet, DncrLabel, DncrWrite, DncrAccept, DncrReject, DncrStatus, DncrGoto,
           DncrApiError, Objects
  <2>. QED
    BY <2>1, <2>2 DEF Cached
<1>5. CASE Dlr \/ DlrApiError
  <2>1. dnc' = dnc /\ deps' = deps /\ \A k \in LinkKeys : dls'[k].seen = dls[k].seen
    BY <1>5, <1>1, DlrKeeps
  <2>2. ns'.seen = ns.seen /\ cm'.seen = cm.seen
    BY <1>5, WritesKeepSeen
       DEF Dlr, DlrGet, DlrAddFinalizer, DlrLabel, DlrWrite, DlrAccept, DlrReject, DlrUnlink,
           DlrRelease, DlrApiError
  <2>. QED
    BY <2>1, <2>2 DEF Cached
<1>6. CASE Disturbances
  <2>1. \A k \in LinkKeys : dls'[k].seen = dls[k].seen
    BY <1>6, <1>1, DisturbancesKeep
  <2>2. ns'.seen = ns.seen /\ cm'.seen = cm.seen /\ dnc'.seen = dnc.seen
    <3>1. ns' = ns \/ \E b : ns' = Put(ns, b)
      BY <1>6
         DEF Disturbances, Users, UserLabelsNamespace, UserEditsConfigMap, UserWritesConfigMap,
             UserEditsOperand, UserAddsLink, UserEditsLink, Rollout, Resync, Objects
    <3>2. cm' = cm \/ \E b : cm' = Put(cm, b)
      BY <1>6
         DEF Disturbances, Users, UserLabelsNamespace, UserEditsConfigMap, UserWritesConfigMap,
             UserEditsOperand, UserAddsLink, UserEditsLink, Rollout, Resync, Objects
    <3>3. dnc' = dnc \/ \E b : dnc' = Put(dnc, b)
      BY <1>6
         DEF Disturbances, Users, UserLabelsNamespace, UserEditsConfigMap, UserWritesConfigMap,
             UserEditsOperand, UserAddsLink, UserEditsLink, Rollout, Resync, Objects
    <3>. QED
      BY <3>1, <3>2, <3>3, WritesKeepSeen
  <2>3. deps' = deps \/ \E a \in Apps : \E b : deps' = [deps EXCEPT ![a] = Put(deps[a], b)]
    BY <1>6
       DEF Disturbances, Users, UserLabelsNamespace, UserEditsConfigMap, UserWritesConfigMap,
           UserEditsOperand, UserAddsLink, UserEditsLink, Rollout, Resync, Objects
  <2>4. \A a \in Apps : deps'[a].seen = deps[a].seen
    BY <2>3, WritesKeepSeen DEF IInv
  <2>. QED
    BY <2>1, <2>2, <2>4 DEF Cached
<1>. QED
  BY <1>2, <1>3, <1>4, <1>5, <1>6 DEF Next, Controllers, ApiErrors

\* The steps, by who takes them.
LEMMA StepsAre ==
  ASSUME Next
  PROVE  \/ Informers \/ Restart \/ (Disturbances /\ ~Restart)
         \/ (Nsr \/ NsrApiError) \/ (Cmr \/ CmrApiError)
         \/ (Dncr \/ DncrApiError) \/ (Dlr \/ DlrApiError)
BY DEF Next, Controllers, ApiErrors

----------------------------------------------------------------------------
(* What reconciles hold *)

\* A reconcile goes on with what it holds, ends, or starts with what the cache has.
LEMMA ReconcilesHold ==
  ASSUME IInv, Next
  PROVE  /\ \/ nsw' = NsIdle \/ nsw'.labelled = ns.seen
            \/ nsw # NsIdle /\ nsw'.labelled = nsw.labelled /\ (qns => qns')
         /\ \/ cmw' = CmIdle \/ cmw'.config = cm.seen
            \/ cmw # CmIdle /\ cmw'.config = cmw.config /\ (qcm => qcm')
         /\ \/ dncw' = DncIdle \/ dncw'.copy = dnc.seen
            \/ dncw # DncIdle /\ dncw'.copy = dncw.copy /\ (qdnc => qdnc')
         /\ \/ dlw' = DlIdle \/ dlw'.copy = dls[dlw'.key].seen
            \/ dlw # DlIdle /\ dlw'.key = dlw.key /\ dlw'.copy = dlw.copy /\ qdl \subseteq qdl'
<1>1. CASE Informers
  BY <1>1, InformersKeep DEF Workers
<1>2. CASE Restart
  BY <1>2, RestartEnqueues
<1>3. CASE Disturbances /\ ~Restart
  BY <1>3, DisturbancesKeep DEF Workers
<1>4. CASE Nsr \/ NsrApiError
  <2>1. \/ nsw' = NsIdle \/ nsw'.labelled = ns.seen
        \/ nsw # NsIdle /\ nsw'.labelled = nsw.labelled /\ (qns => qns')
    BY <1>4 DEF Nsr, NsrGet, NsrImport, NsrConfig, NsrApiError, NsrGoto, NsrDone, NsrFails,
                NsIdle, IInv, NsWorkers
  <2>. QED
    BY <1>4, <2>1, NsrKeeps
<1>5. CASE Cmr \/ CmrApiError
  <2>1. \A pc, todo : CmrGoto(pc, todo) =>
          cmw' = CmIdle \/ (cmw'.config = cmw.config /\ qcm' = qcm)
    BY DEF CmrGoto
  <2>2. CmrGet \/ (cmw # CmIdle /\ (CmrFails \/ \E pc, todo : CmrGoto(pc, todo)))
    <3>1. cmw.pc # "idle" => cmw # CmIdle
      BY DEF CmIdle
    <3>2. CASE CmrOperand
      BY <3>1, <3>2 DEF CmrOperand
    <3>3. CASE CmrLink
      BY <3>1, <3>3 DEF CmrLink
    <3>4. CASE CmrList \/ CmrPrune \/ CmrApply
      BY <3>1, <3>4 DEF CmrList, CmrPrune, CmrApply
    <3>5. CASE CmrApiError
      BY <3>5 DEF CmrApiError
    <3>. QED
      BY <1>5, <3>2, <3>3, <3>4, <3>5 DEF Cmr
  <2>3. \/ cmw' = CmIdle \/ cmw'.config = cm.seen
        \/ cmw # CmIdle /\ cmw'.config = cmw.config /\ (qcm => qcm')
    BY <2>1, <2>2 DEF CmrGet, CmrFails
  <2>. QED
    BY <1>5, <2>3, CmrKeeps
<1>6. CASE Dncr \/ DncrApiError
  <2>1. \/ dncw' = DncIdle \/ dncw'.copy = dnc.seen
        \/ dncw # DncIdle /\ dncw'.copy = dncw.copy /\ (qdnc => qdnc')
    <3>1. \A pc : DncrGoto(pc) /\ dncw # DncIdle => dncw'.copy = dncw.copy /\ qdnc' = qdnc
      BY DEF DncrGoto, IInv, DncWorkers
    <3>2. dncw.pc # "idle" => dncw # DncIdle
      BY DEF DncIdle
    <3>3. CASE DncrGet
      BY <3>3 DEF DncrGet
    <3>4. CASE DncrLabel \/ DncrWrite
      BY <3>1, <3>2, <3>4 DEF DncrLabel, DncrWrite
    <3>5. CASE DncrAccept \/ DncrReject
      BY <3>5 DEF DncrAccept, DncrReject, DncrStatus
    <3>6. CASE DncrApiError
      BY <3>6 DEF DncrApiError, IInv, DncWorkers
    <3>. QED
      BY <1>6, <3>3, <3>4, <3>5, <3>6 DEF Dncr
  <2>. QED
    BY <1>6, <2>1, DncrKeeps
<1>7. CASE Dlr \/ DlrApiError
  <2>1. \A k \in LinkKeys : DlrGet(k) =>
          dlw' = dlw \/ dlw'.copy = dls[dlw'.key].seen
    BY DEF DlrGet
  <2>2. \A k \in LinkKeys : DlrGet(k) => dlw = DlIdle
    BY DEF DlrGet
  <2>3. \A pc : DlrGoto(pc) /\ dlw # DlIdle => dlw'.key = dlw.key /\ dlw'.copy = dlw.copy /\ qdl' = qdl
    BY DEF DlrGoto, IInv, DlWorkers
  <2>4. \A h, b : DlrReturn(h, b) => dlw' = DlIdle
    BY DEF DlrReturn
  <2>5. \/ dlw' = DlIdle \/ dlw'.copy = dls[dlw'.key].seen
        \/ dlw # DlIdle /\ dlw'.key = dlw.key /\ dlw'.copy = dlw.copy /\ qdl \subseteq qdl'
    <3>1. dlw.pc # "idle" => dlw # DlIdle
      BY DEF DlIdle
    <3>2. CASE \E k \in LinkKeys : DlrGet(k)
      BY <2>1, <2>2, <3>2
    <3>3. CASE DlrAddFinalizer \/ DlrAccept \/ DlrRelease
      BY <2>4, <3>3 DEF DlrAddFinalizer, DlrAccept, DlrRelease
    <3>4. CASE DlrLabel
      BY <2>3, <3>1, <3>4 DEF DlrLabel
    <3>5. CASE DlrWrite \/ DlrUnlink
      BY <2>3, <3>1, <3>5 DEF DlrWrite, DlrUnlink
    <3>6. CASE DlrReject
      BY <3>6 DEF DlrReject
    <3>7. CASE DlrApiError
      BY <2>3, <3>7 DEF DlrApiError
    <3>. QED
      BY <1>7, <3>2, <3>3, <3>4, <3>5, <3>6, <3>7 DEF Dlr
  <2>. QED
    BY <1>7, <2>5, DlrKeeps
<1>. QED
  BY <1>1, <1>2, <1>3, <1>4, <1>5, <1>6, <1>7, StepsAre

LEMMA InStepStep == IInv /\ InStep /\ Next => InStep'
<1>. SUFFICES ASSUME IInv, InStep, Next PROVE InStep'
  OBVIOUS
<1>0. IInv'
  BY StepIInv
<1>k. /\ dlw # DlIdle => dlw.key \in LinkKeys
      /\ dlw' # DlIdle => dlw'.key \in LinkKeys
  BY <1>0 DEF IInv, DlWorkers
<1>1. CASE Informers
  BY <1>1, <1>k, InformersKeep DEF InStep, Workers
<1>2. CASE Restart
  BY <1>2, RestartEnqueues DEF InStep
<1>3. CASE ~Informers /\ ~Restart
  <2>1. /\ ns'.seen = ns.seen /\ cm'.seen = cm.seen /\ dnc'.seen = dnc.seen
        /\ \A k \in LinkKeys : dls'[k].seen = dls[k].seen
    BY <1>3, CachesKeep DEF Cached
  <2>. QED
    BY <1>k, <2>1, ReconcilesHold DEF InStep
<1>. QED
  BY <1>1, <1>2, <1>3

\* What is left of link o in p is what a copy of it is of.
Held(p, o) == "dlr" \in p.fresh => "dlr" \in o.fresh /\ p.obj = o.obj
\* Nothing is marked for deletion that has no finalizer.
Marked(l) == l # Absent /\ l.del => l.final

LEMMA OpsHold ==
  ASSUME NEW o \in LinkObjects, NEW b
  PROVE  /\ Held(o, o) /\ Held(Put(o, b), o) /\ Held(Save(o, b), o) /\ Held(Erase(o), o)
         /\ Held(Deliver(o), o) /\ Held(Release(o, "dlr"), o) /\ Held(Release(Put(o, b), "dlr"), o)
<1>1. o = [obj |-> o.obj, seen |-> o.seen, fresh |-> o.fresh] /\ o.fresh \subseteq {"cache", "dlr"}
  BY DEF LinkObjects, ObjectsOf, ObjectType
<1>2. Held(o, o) /\ \A c : Held(Put(o, c), o)
  BY DEF Held, Put
<1>3. Held(Deliver(o), o) /\ Held(Release(o, "dlr"), o) /\ Held(Release(Put(o, b), "dlr"), o)
  BY <1>1 DEF Held, Deliver, Release, Put
<1>. QED
  BY <1>2, <1>3 DEF Save, Erase


LEMMA OpsMark ==
  ASSUME NEW o \in LinkObjects, Marked(o.obj), NEW b \in DashboardLinks \cup {Absent}, Marked(b)
  PROVE  /\ Marked(Put(o, b).obj) /\ Marked(Save(o, b).obj) /\ Marked(Erase(o).obj)
         /\ Marked(Deliver(o).obj) /\ Marked(Listed(o.obj).obj) /\ Marked(Fetch(o, "dlr").obj)
         /\ Marked(Release(o, "dlr").obj) /\ Marked(Release(Put(o, b), "dlr").obj)
<1>1. o = [obj |-> o.obj, seen |-> o.seen, fresh |-> o.fresh] /\ o.obj \in DashboardLinks \cup {Absent}
  BY DEF LinkObjects, ObjectsOf, ObjectType
<1>2. \A c : Put(o, c).obj = c
  BY DEF Put
<1>3. Marked(Erase(o).obj)
  <2>1. o.obj \in DashboardLinks /\ o.obj.final => Marked([o.obj EXCEPT !.del = TRUE])
    BY DEF DashboardLinks, Marked
  <2>. QED
    BY <1>1, <1>2, <2>1 DEF Erase, Marked
<1>4. \A p : p \in {o, Put(o, b)} => Release(p, "dlr").obj = p.obj /\ Fetch(p, "dlr").obj = p.obj
  BY <1>1 DEF Put, Release, Fetch
<1>. QED
  BY <1>2, <1>3, <1>4 DEF Save, Deliver, Listed

\* No controller and no user unmarks the finalizer of a link that is to be deleted.
LEMMA MarkedStep ==
  ASSUME IInv, Next, \A k \in LinkKeys : Marked(dls[k].obj), NEW k \in LinkKeys
  PROVE  Marked(dls'[k].obj)
<1>d. dls \in [LinkKeys -> LinkObjects] /\ \A j \in LinkKeys :
        /\ dls[j] \in LinkObjects
        /\ dls[j].obj \in DashboardLinks \cup {Absent} /\ dls[j].seen \in DashboardLinks \cup {Absent}
        /\ Current(dls[j], "cache") => dls[j].seen = dls[j].obj /\ dls[j].obj # Absent
  BY Parts, CurrentCopies DEF IInv
<1>n. \A u \in Urls \cup {NoUrl}, i \in BOOLEAN : NewLink(u, i) \in DashboardLinks /\ Marked(NewLink(u, i))
  BY NewBodies DEF NewLink, Marked
<1>e. \A l \in DashboardLinks : Marked(l) =>
        /\ \A u : Marked([l EXCEPT !.url = u])
        /\ Marked([l EXCEPT !.imported = FALSE])
        /\ \A r : Marked(WithStatus(l, r))
  BY ClusterAbsentAssumption DEF DashboardLinks, Marked, WithStatus
<1>u. ASSUME NEW j \in LinkKeys, NEW b \in DashboardLinks \cup {Absent}, Marked(b),
             \/ dls' = [dls EXCEPT ![j] = Put(dls[j], b)]
             \/ dls' = [dls EXCEPT ![j] = Save(dls[j], b)]
             \/ dls' = [dls EXCEPT ![j] = Erase(dls[j])]
             \/ dls' = [dls EXCEPT ![j] = Deliver(dls[j])]
             \/ dls' = [dls EXCEPT ![j] = Fetch(dls[j], "dlr")]
             \/ dls' = [dls EXCEPT ![j] = Release(dls[j], "dlr")]
             \/ dls' = [dls EXCEPT ![j] = Release(Put(dls[j], b), "dlr")]
      PROVE  Marked(dls'[k].obj)
  BY <1>d, <1>u, OpsMark
<1>a. Marked(Absent) /\ Absent \in DashboardLinks \cup {Absent}
  BY DEF Marked
<1>1. CASE dls' = dls
  BY <1>1
<1>2. CASE Informers
  <2>1. \A j \in LinkKeys : DeliverLink(j) => Marked(dls'[k].obj)
    BY <1>a, <1>u DEF DeliverLink
  <2>. QED
    BY <1>1, <1>2, <2>1 DEF Informers, DeliverNamespace, DeliverConfigMap, DeliverOperand, DeliverDeployment
<1>3. CASE Restart
  BY <1>3, RestartEnqueues
<1>4. CASE UserAddsLink
  <2>1. PICK j \in LinkKeys, u \in Urls : dls' = [dls EXCEPT ![j] = Put(dls[j], NewLink(u, FALSE))]
    BY <1>4 DEF UserAddsLink
  <2>2. NewLink(u, FALSE) \in DashboardLinks \cup {Absent} /\ Marked(NewLink(u, FALSE))
    BY <1>n
  <2>. QED
    BY <1>u, <2>1, <2>2
<1>5. CASE UserEditsLink
  <2>1. PICK j \in LinkKeys :
          /\ dls[j].obj # Absent
          /\ \/ \E u \in Urls \cup {NoUrl} :
                  dls' = [dls EXCEPT ![j] = Put(dls[j], [dls[j].obj EXCEPT !.url = u])]
             \/ dls' = [dls EXCEPT ![j] = Put(dls[j], [dls[j].obj EXCEPT !.imported = FALSE])]
             \/ dls' = [dls EXCEPT ![j] = Erase(dls[j])]
    BY <1>5 DEF UserEditsLink
  <2>2. /\ \A u \in Urls \cup {NoUrl} : Marked([dls[j].obj EXCEPT !.url = u])
        /\ Marked([dls[j].obj EXCEPT !.imported = FALSE])
    BY <1>d, <1>e, <2>1
  <2>3. /\ \A u \in Urls \cup {NoUrl} : [dls[j].obj EXCEPT !.url = u] \in DashboardLinks
        /\ [dls[j].obj EXCEPT !.imported = FALSE] \in DashboardLinks
    BY <1>d, <2>1, LinkParts
  <2>. QED
    BY <1>a, <1>u, <2>1, <2>2, <2>3
<1>6. CASE Disturbances /\ ~Restart /\ ~UserAddsLink /\ ~UserEditsLink
  BY <1>1, <1>6 DEF Disturbances, Users, UserLabelsNamespace, UserEditsConfigMap,
       UserWritesConfigMap, UserEditsOperand, Rollout, Resync, Objects
<1>7. CASE Nsr \/ NsrApiError \/ Dncr \/ DncrApiError
  BY <1>1, <1>7, NsrKeeps, DncrKeeps
<1>8. CASE CmrLink
  <2>1. PICK al \in cmw.todo : cmw.pc = "links" /\
          dls' = [dls EXCEPT ![ImportOf(al)] = Save(dls[ImportOf(al)], ImportedLink(al))]
    BY <1>8 DEF CmrLink
  <2>2. cmw.config \in Configs /\ al \in LinksOf(cmw.config)
    BY <2>1 DEF IInv, CmWorkers, CmIdle
  <2>3. ImportOf(al) \in LinkKeys /\ ImportedLink(al) \in DashboardLinks
    BY <2>2, ImportedLinkTyped
  <2>. DEFINE j == ImportOf(al)
  <2>4. CASE dls[j].seen = Absent
    <3>1. CmrUrl(al) \in Urls
      BY <2>2 DEF LinksOf, CmrUrl
    <3>2. Marked(ImportedLink(al))
      BY <1>n, <2>4, <3>1 DEF ImportedLink
    <3>. QED
      BY <1>u, <2>1, <2>3, <3>2
  <2>5. CASE dls[j].seen # Absent
    <3>1. CASE Current(dls[j], "cache")
      <4>1. dls[j].obj \in DashboardLinks /\ dls[j].seen = dls[j].obj /\ Marked(dls[j].obj)
        BY <1>d, <2>3, <3>1
      <4>2. Marked([dls[j].obj EXCEPT !.url = CmrUrl(al)])
        BY <4>1, <1>e
      <4>3. Marked(ImportedLink(al))
        BY <2>5, <4>1, <4>2 DEF ImportedLink
      <4>. QED
        BY <1>u, <2>1, <2>3, <4>3
    <3>2. CASE ~Current(dls[j], "cache")
      <4>1. Save(dls[j], ImportedLink(al)) = dls[j]
        BY <2>5, <3>2 DEF Save, Accepted
      <4>. QED
        BY <1>1, <1>d, <2>1, <2>3, <4>1
    <3>. QED
      BY <3>1, <3>2
  <2>. QED
    BY <2>4, <2>5
<1>9. CASE CmrPrune
  <2>1. PICK j \in cmw.todo : cmw.pc = "prune" /\ dls' = [dls EXCEPT ![j] = Erase(dls[j])]
    BY <1>9 DEF CmrPrune
  <2>2. j \in LinkKeys
    BY <2>1 DEF IInv, CmWorkers, CmIdle
  <2>. QED
    BY <1>a, <1>u, <2>1, <2>2
<1>10. CASE CmrGet \/ CmrOperand \/ CmrList \/ CmrApply \/ CmrApiError
  BY <1>1, <1>10 DEF CmrGet, CmrOperand, CmrList, CmrApply, CmrApiError, CmrGoto, Objects
<1>11. CASE Dlr \/ DlrApiError
  <2>k. dlw # DlIdle => Key \in LinkKeys /\ dlw.copy \in DashboardLinks
    BY DEF IInv, DlWorkers, Key
  <2>i. dlw.pc # "idle" => dlw # DlIdle
    BY DEF DlIdle
  <2>1. CASE \E j \in LinkKeys : DlrGet(j)
    BY <1>1, <1>a, <1>u, <2>1 DEF DlrGet
  <2>2. ASSUME NEW h, NEW b \in DashboardLinks \cup {Absent}, Marked(b), Key \in LinkKeys,
               DlrReturn(h, b)
        PROVE  Marked(dls'[k].obj)
    BY <1>u, <1>a, <2>2 DEF DlrReturn
  <2>3. CASE DlrAddFinalizer
    <3>1. [dlw.copy EXCEPT !.final = TRUE] \in DashboardLinks /\ Marked([dlw.copy EXCEPT !.final = TRUE])
      BY <2>3, <2>k, <2>i, LinkParts DEF DlrAddFinalizer, DashboardLinks, Marked
    <3>. QED
      BY <2>2, <2>3, <2>k, <2>i, <3>1 DEF DlrAddFinalizer
  <2>4. CASE DlrRelease
    BY <1>a, <2>2, <2>4, <2>k, <2>i DEF DlrRelease
  <2>5. ASSUME NEW r \in {"True", "False"}, Key \in LinkKeys,
               dls' = [dls EXCEPT ![Key] = Release(
                 IF Current(dls[Key], "cache") THEN Put(dls[Key], WithStatus(dls[Key].seen, r))
                                               ELSE dls[Key], "dlr")]
        PROVE  Marked(dls'[k].obj)
    <3>1. CASE Current(dls[Key], "cache")
      <4>1. dls[Key].obj \in DashboardLinks /\ dls[Key].seen = dls[Key].obj /\ Marked(dls[Key].obj)
        BY <1>d, <2>5, <3>1
      <4>2. WithStatus(dls[Key].seen, r) \in DashboardLinks /\ Marked(WithStatus(dls[Key].seen, r))
        BY <4>1, <1>e, LinkParts
      <4>. QED
        BY <1>u, <2>5, <3>1, <4>2
    <3>2. CASE ~Current(dls[Key], "cache")
      BY <1>u, <1>a, <2>5, <3>2
    <3>. QED
      BY <3>1, <3>2
  <2>6. CASE DlrAccept
    <3>1. dls' = [dls EXCEPT ![Key] = Release(
                 IF Current(dls[Key], "cache") THEN Put(dls[Key], WithStatus(dls[Key].seen, "True"))
                                               ELSE dls[Key], "dlr")]
      BY <2>6 DEF DlrAccept, DlrReturn
    <3>. QED
      BY <2>5, <2>6, <2>k, <2>i, <3>1 DEF DlrAccept
  <2>7. CASE DlrReject
    BY <2>5, <2>7, <2>k, <2>i DEF DlrReject
  <2>8. CASE DlrLabel \/ DlrWrite \/ DlrUnlink
    BY <1>1, <2>8 DEF DlrLabel, DlrWrite, DlrUnlink, DlrGoto
  <2>9. CASE DlrApiError
    BY <1>1, <1>u, <1>a, <2>9, <2>k DEF DlrApiError, DlrGoto
  <2>. QED
    BY <1>11, <2>1, <2>3, <2>4, <2>6, <2>7, <2>8, <2>9 DEF Dlr
<1>. QED
  BY <1>2, <1>3, <1>4, <1>5, <1>6, <1>7, <1>8, <1>9, <1>10, <1>11, StepsAre DEF Cmr

LEMMA CopyHeldStep == IInv /\ CopyHeld /\ Next => CopyHeld'
<1>. SUFFICES ASSUME IInv, CopyHeld, Next PROVE CopyHeld'
  OBVIOUS
<1>d. dls \in [LinkKeys -> LinkObjects] /\ \A j \in LinkKeys : dls[j] \in LinkObjects
  BY DEF IInv
<1>k. dlw # DlIdle => dlw.key \in LinkKeys /\ dlw.copy \in DashboardLinks
  BY DEF IInv, DlWorkers
<1>i. DlIdle.pc = "idle"
  BY DEF DlIdle
<1>m. \A k \in LinkKeys : dls'[k].obj # Absent /\ dls'[k].obj.del => dls'[k].obj.final
  <2>1. \A k \in LinkKeys : Marked(dls[k].obj)
    BY DEF CopyHeld, Marked
  <2>2. \A k \in LinkKeys : Marked(dls'[k].obj)
    BY <2>1, MarkedStep
  <2>. QED
    BY <2>2 DEF Marked
<1>h. (dlw' = dlw /\ \A k \in LinkKeys : Held(dls'[k], dls[k])) \/ dlw' = DlIdle => CopyHeld'
  BY <1>m, <1>k, <1>i DEF CopyHeld, Held
<1>1. ASSUME dlw' = dlw, NEW j \in LinkKeys, NEW b,
             \/ dls' = [dls EXCEPT ![j] = Put(dls[j], b)]
             \/ dls' = [dls EXCEPT ![j] = Save(dls[j], b)]
             \/ dls' = [dls EXCEPT ![j] = Erase(dls[j])]
             \/ dls' = [dls EXCEPT ![j] = Deliver(dls[j])]
      PROVE  CopyHeld'
  BY <1>1, <1>d, <1>h, OpsHold
<1>2. ASSUME dlw' = dlw, dls' = dls PROVE CopyHeld'
  BY <1>2, <1>d, <1>h, OpsHold
<1>3. CASE Informers
  BY <1>1, <1>2, <1>3 DEF Informers, DeliverNamespace, DeliverConfigMap, DeliverOperand,
       DeliverLink, DeliverDeployment, Workers
<1>4. CASE Restart
  BY <1>4, <1>h DEF Restart
<1>5. CASE Disturbances /\ ~Restart
  BY <1>1, <1>2, <1>5 DEF Disturbances, Users, UserLabelsNamespace, UserEditsConfigMap,
       UserWritesConfigMap, UserEditsOperand, UserAddsLink, UserEditsLink, Rollout, Resync,
       Objects, Workers
<1>6. CASE Nsr \/ NsrApiError \/ Dncr \/ DncrApiError
  BY <1>2, <1>6, NsrKeeps, DncrKeeps
<1>7. CASE Cmr \/ CmrApiError
  <2>0. dlw' = dlw
    BY <1>7, CmrKeeps
  <2>1. CASE CmrLink
    <3>1. PICK al \in cmw.todo : cmw.pc = "links" /\
            dls' = [dls EXCEPT ![ImportOf(al)] = Save(dls[ImportOf(al)], ImportedLink(al))]
      BY <2>1 DEF CmrLink
    <3>2. ImportOf(al) \in LinkKeys
      BY <3>1, ImportedLinkTyped DEF IInv, CmWorkers, CmIdle
    <3>. QED
      BY <1>1, <2>0, <3>1, <3>2
  <2>2. CASE CmrPrune
    <3>1. PICK j \in cmw.todo : cmw.pc = "prune" /\ dls' = [dls EXCEPT ![j] = Erase(dls[j])]
      BY <2>2 DEF CmrPrune
    <3>2. j \in LinkKeys
      BY <3>1 DEF IInv, CmWorkers, CmIdle
    <3>. QED
      BY <1>1, <2>0, <3>1, <3>2
  <2>3. CASE CmrGet \/ CmrOperand \/ CmrList \/ CmrApply \/ CmrApiError
    BY <1>2, <2>0, <2>3 DEF CmrGet, CmrOperand, CmrList, CmrApply, CmrApiError, CmrGoto, Objects
  <2>. QED
    BY <1>7, <2>1, <2>2, <2>3 DEF Cmr
<1>8. CASE Dlr \/ DlrApiError
  <2>1. ASSUME NEW k \in LinkKeys, DlrGet(k) PROVE CopyHeld'
    <3>1. CASE Branch(dls[k].seen) = "idle"
      BY <1>2, <2>1, <3>1 DEF DlrGet
    <3>2. CASE Branch(dls[k].seen) # "idle"
      <4>1. dls' = [dls EXCEPT ![k] = Fetch(dls[k], "dlr")] /\ dlw'.key = k
            /\ dlw'.copy = dls[k].seen /\ dlw'.pc = Branch(dls[k].seen)
        BY <2>1, <3>2 DEF DlrGet
      <4>2. "dlr" \in dls'[k].fresh => dlw'.copy = dls'[k].obj
        BY <1>d, <4>1 DEF Fetch, LinkObjects, ObjectsOf, ObjectType, Coherent
      <4>3. /\ dlw'.pc = "finalizer" => ~dlw'.copy.final
            /\ dlw'.pc \in {"label", "write", "accept"} => dlw'.copy.final /\ ~dlw'.copy.del
        <5>1. dls[k].seen \in DashboardLinks
          BY <1>d, <3>2, Parts DEF Branch
        <5>2. dls[k].seen.final \in BOOLEAN /\ dls[k].seen.del \in BOOLEAN
          BY <5>1 DEF DashboardLinks
        <5>. QED
          BY <4>1, <5>2 DEF Branch
      <4>. QED
        BY <1>m, <4>1, <4>2, <4>3 DEF CopyHeld
    <3>. QED
      BY <3>1, <3>2
  <2>2. ASSUME NEW pc, DlrGoto(pc), dlw # DlIdle,
               pc \in {"reject", "release"} \/ (pc \in {"write", "accept"} /\ dlw.pc \in {"label", "write"})
        PROVE  CopyHeld'
    <3>1. dlw'.pc = pc /\ dlw'.key = dlw.key /\ dlw'.copy = dlw.copy /\ dls' = dls
      BY <2>2 DEF DlrGoto, IInv, DlWorkers
    <3>. QED
      BY <1>m, <2>2, <3>1 DEF CopyHeld
  <2>3. CASE DlrLabel \/ DlrWrite \/ DlrUnlink
    <3>1. dlw # DlIdle
      BY <1>i, <2>3 DEF DlrLabel, DlrWrite, DlrUnlink
    <3>2. \/ dlw.pc = "label" /\ (DlrGoto("write") \/ DlrGoto("reject"))
          \/ dlw.pc = "write" /\ (DlrGoto("accept") \/ DlrGoto("reject"))
          \/ dlw.pc = "unlink" /\ (DlrGoto("release") \/ DlrGoto("reject"))
      BY <2>3 DEF DlrLabel, DlrWrite, DlrUnlink
    <3>. QED
      BY <2>2, <3>1, <3>2
  <2>4. CASE DlrAddFinalizer \/ DlrAccept \/ DlrReject \/ DlrRelease
    BY <1>h, <2>4 DEF DlrAddFinalizer, DlrAccept, DlrReject, DlrRelease, DlrReturn
  <2>5. CASE DlrApiError
    <3>1. dlw # DlIdle /\ (DlrGoto("reject") \/ dlw' = DlIdle)
      BY <2>5 DEF DlrApiError
    <3>. QED
      BY <1>h, <2>2, <3>1
  <2>. QED
    BY <1>8, <2>1, <2>3, <2>4, <2>5 DEF Dlr
<1>. QED
  BY <1>3, <1>4, <1>5, <1>6, <1>7, <1>8, StepsAre

----------------------------------------------------------------------------
(* Links *)

\* Steps of others than DLR leave what is pending for a link, and at what DLR is.
LEMMA LinkPendingStays ==
  ASSUME IInv, Next, ~(Dlr \/ DlrApiError), ~Restart, NEW k \in LinkKeys, ~LinkPending(k)'
  PROVE  /\ ~LinkPending(k) /\ dls'[k].obj = dls[k].obj
         /\ \A pcs : Reconciles(k, pcs)' = Reconciles(k, pcs)
<1>1. Settled(dls'[k]) /\ k \notin qdl'
  BY DEF LinkPending
<1>2. dlw' = dlw /\ k \notin qdl /\ Settled(dls[k]) /\ dls'[k].obj = dls[k].obj
  <2>1. CASE Informers
    BY <1>1, <2>1, InformersKeep DEF Workers
  <2>2. CASE Disturbances
    BY <1>1, <2>2, DisturbancesKeep DEF Workers, Kept
  <2>3. CASE Nsr \/ NsrApiError
    BY <1>1, <2>3, NsrKeeps
  <2>4. CASE Cmr \/ CmrApiError
    BY <1>1, <2>4, CmrKeeps DEF Kept
  <2>5. CASE Dncr \/ DncrApiError
    BY <1>1, <2>5, DncrKeeps
  <2>. QED
    BY <2>1, <2>2, <2>3, <2>4, <2>5, StepsAre
<1>. QED
  BY <1>2 DEF LinkPending, Reconciles

\* DLR has done its work on a link that is there still when it has written the entry:
\* with a copy of what the server has.
LEMMA LinkDone ==
  ASSUME IInv, InStep, CopyHeld, Dlr \/ DlrApiError,
         NEW k \in LinkKeys, LinkPending(k), ~LinkPending(k)', dls'[k].obj # Absent
  PROVE  /\ DlrWrite /\ dlw.key = k /\ Reconciles(k, {"accept"})'
         /\ dls'[k].obj = dls[k].obj /\ dlw.copy = dls[k].obj
<1>1. /\ Settled(dls'[k]) /\ k \notin qdl'
      /\ ~(dlw'.key = k /\ dlw'.pc \in {"finalizer", "label", "write", "reject", "unlink", "release"})
  BY DEF LinkPending, Reconciles
<1>2. Settled(dls[k]) /\ dls'[k].obj = dls[k].obj
  BY <1>1, DlrKeeps DEF Kept
<1>3. dls[k] \in LinkObjects /\ dls[k].seen = dls[k].obj /\ dls[k].obj \in DashboardLinks
      /\ Marked(dls[k].obj)
  <2>1. dls[k] \in LinkObjects /\ dls[k].obj \in DashboardLinks \cup {Absent}
    BY Parts DEF IInv
  <2>. QED
    BY <1>2, <2>1, SettledIsSeen DEF CopyHeld, Marked
<1>4. ~DlrGet(k)
  <2>. SUFFICES ASSUME DlrGet(k) PROVE FALSE
    OBVIOUS
  <2>1. Branch(dls[k].seen) \in {"unlink", "reject", "finalizer", "label"}
    BY <1>2, <1>3 DEF Branch, Marked
  <2>. QED
    BY <1>1, <2>1 DEF DlrGet
<1>5. k \notin qdl
  BY <1>1, <1>4, DlrKeeps
<1>6. dlw # DlIdle /\ dlw.key = k /\ dlw.pc \in {"finalizer", "label", "write", "reject", "unlink", "release"}
  <2>1. Reconciles(k, {"finalizer", "label", "write", "reject", "unlink", "release"})
    BY <1>2, <1>5 DEF LinkPending
  <2>. QED
    BY <2>1 DEF Reconciles, DlIdle
<1>7. dlw.copy = dls[k].obj
  BY <1>3, <1>5, <1>6 DEF InStep
<1>g. \A pc : DlrGoto(pc) => dlw'.pc = pc /\ dlw'.key = k
  BY <1>6 DEF DlrGoto, IInv, DlWorkers
<1>r. \A h, b : DlrReturn(h, b) => Current(dls[k], h) /\ dls'[k] = Release(Put(dls[k], b), "dlr")
  BY <1>1, <1>6 DEF DlrReturn, Key, IInv
<1>p. \A b : Settled(Release(Put(dls[k], b), "dlr")) => b = dls[k].obj
  BY DEF Put, Release, Settled
<1>8. ~DlrAddFinalizer
  <2>. SUFFICES ASSUME DlrAddFinalizer PROVE FALSE
    OBVIOUS
  <2>1. [dlw.copy EXCEPT !.final = TRUE] = dls[k].obj
    BY <1>1, <1>r, <1>p DEF DlrAddFinalizer
  <2>2. ~dlw.copy.final
    BY DEF DlrAddFinalizer, CopyHeld
  <2>. QED
    BY <1>3, <1>7, <2>1, <2>2 DEF DashboardLinks
<1>9. ~DlrRelease
  BY <1>1, <1>3, <1>r, <1>p, ClusterAbsentAssumption DEF DlrRelease
<1>10. ~DlrReject
  BY <1>1, <1>6 DEF DlrReject, Key
<1>11. ~DlrLabel /\ ~DlrUnlink
  BY <1>1, <1>g DEF DlrLabel, DlrUnlink
<1>12. ~DlrApiError
  BY <1>1, <1>6, <1>g DEF DlrApiError, Key
<1>13. ~DlrAccept /\ \A j \in LinkKeys : ~DlrGet(j)
  BY <1>6 DEF DlrAccept, DlrGet
<1>14. DlrWrite
  BY <1>8, <1>9, <1>10, <1>11, <1>12, <1>13 DEF Dlr
<1>15. dlw'.pc = "accept" /\ dlw'.key = k
  BY <1>1, <1>14, <1>g DEF DlrWrite
<1>. QED
  BY <1>2, <1>6, <1>7, <1>14, <1>15 DEF Reconciles

LEMMA LinkReportedStep ==
  ASSUME IInv, InStep, CopyHeld, Next, NEW k \in LinkKeys, LinkReported(k)
  PROVE  LinkReported(k)'
<1>. SUFFICES ASSUME dls'[k].obj # Absent, ~LinkPending(k)'
              PROVE  /\ ~dls'[k].obj.del
                     /\ (dls'[k].obj.ready = "True" /\ dls'[k].obj.final) \/ Reconciles(k, {"accept"})'
  BY DEF LinkReported
<1>1. CASE Restart
  BY <1>1, RestartEnqueues DEF LinkPending
<1>2. CASE ~Restart /\ ~(Dlr \/ DlrApiError)
  BY <1>2, LinkPendingStays DEF LinkReported
<1>3. CASE (Dlr \/ DlrApiError) /\ LinkPending(k)
  <2>1. dlw.pc = "write" /\ Reconciles(k, {"accept"})' /\ dls'[k].obj = dls[k].obj /\ dlw.copy = dls[k].obj
    BY <1>3, LinkDone DEF DlrWrite
  <2>. QED
    BY <2>1 DEF CopyHeld
<1>4. CASE (Dlr \/ DlrApiError) /\ ~LinkPending(k)
  <2>1. /\ Settled(dls'[k]) /\ k \notin qdl' /\ Settled(dls[k]) /\ dls'[k].obj = dls[k].obj
        /\ k \notin qdl
    BY <1>4, DlrKeeps DEF LinkPending, Kept
  <2>2. /\ ~dls[k].obj.del
        /\ (dls[k].obj.ready = "True" /\ dls[k].obj.final) \/ Reconciles(k, {"accept"})
    BY <1>4, <2>1 DEF LinkReported
  <2>3. CASE ~Reconciles(k, {"accept"})
    BY <2>1, <2>2, <2>3
  <2>4. CASE Reconciles(k, {"accept"})
    <3>1. dlw # DlIdle /\ dlw.key = k /\ dlw.pc = "accept"
      BY <2>4 DEF Reconciles, DlIdle
    <3>2. dls[k].seen = dls[k].obj /\ Current(dls[k], "cache")
      BY <2>1, SettledIsSeen DEF Settled, Current
    <3>3. dlw.copy = dls[k].obj /\ dlw.copy.final
      BY <2>1, <3>1, <3>2 DEF InStep, CopyHeld
    <3>4. ~DlrApiError
      BY <2>1, <3>1 DEF DlrApiError, Key
    <3>5. DlrAccept
      BY <1>4, <3>1, <3>4 DEF Dlr, DlrGet, DlrAddFinalizer, DlrLabel, DlrWrite, DlrReject,
           DlrUnlink, DlrRelease
    <3>6. dls'[k] = Release(Put(dls[k], WithStatus(dls[k].seen, "True")), "dlr")
      BY <3>1, <3>2, <3>5 DEF DlrAccept, DlrReturn, Key, IInv
    <3>7. WithStatus(dls[k].seen, "True") = dls[k].obj
      BY <2>1, <3>6 DEF Put, Release, Settled
    <3>8. dls[k].obj.ready = "True"
      BY <3>7 DEF WithStatus
    <3>. QED
      BY <2>1, <2>2, <3>3, <3>8
  <2>. QED
    BY <2>3, <2>4
<1>. QED
  BY <1>1, <1>2, <1>3, <1>4


\* What is pending for the ConfigMap stays, unless CMR begins to work on it.
LEMMA ConfigPendingStays ==
  ASSUME IInv, Next, IsConfig(cm'.obj), ~ConfigPending', ~(Cmr \/ CmrApiError)
  PROVE  ~ConfigPending /\ cm' = cm /\ cmw' = cmw
<1>1. Settled(cm') /\ ~qcm'
  BY DEF ConfigPending
<1>2. ~Restart
  BY <1>1, RestartEnqueues DEF IsConfig
<1>3. cm' = cm /\ cmw' = cmw /\ ~qcm
  <2>1. CASE Informers
    BY <1>1, <2>1, InformersKeep DEF Workers
  <2>2. CASE Disturbances
    BY <1>1, <1>2, <2>2, DisturbancesKeep DEF Workers
  <2>3. CASE Nsr \/ NsrApiError
    BY <1>1, <2>3, NsrKeeps
  <2>4. CASE Dncr \/ DncrApiError
    BY <1>1, <2>4, DncrKeeps
  <2>5. CASE Dlr \/ DlrApiError
    BY <1>1, <2>5, DlrKeeps
  <2>. QED
    BY <1>2, <2>1, <2>2, <2>3, <2>4, <2>5, StepsAre
<1>. QED
  BY <1>1, <1>3 DEF ConfigPending

\* A step of CMR after which no work on the ConfigMap is pending is one of a reconcile
\* under way, of what the ConfigMap says.
LEMMA CmrInStep ==
  ASSUME IInv, InStep, Cmr \/ CmrApiError, IsConfig(cm'.obj), ~ConfigPending', cmw'.pc # "operand"
  PROVE  /\ cm' = cm /\ ~ConfigPending /\ cm.seen = cm.obj /\ cm.obj \in Configs
         /\ ~CmrGet /\ ~CmrFails
         /\ cmw # CmIdle /\ cmw.config = cm.obj
<1>1. cm' = cm /\ Settled(cm) /\ ~qcm' /\ cm.seen = cm.obj
  BY CmrKeeps, SettledIsSeen DEF ConfigPending
<1>2. ~CmrGet
  BY <1>1 DEF CmrGet, IsConfig
<1>3. ~qcm
  BY <1>1, <1>2, CmrKeeps
<1>4. ~CmrFails
  BY <1>1 DEF CmrFails
<1>5. cmw # CmIdle
  <2>1. cmw.pc # "idle" => cmw # CmIdle
    BY DEF CmIdle
  <2>2. CmrOperand \/ CmrLink \/ CmrList => cmw # CmIdle
    BY <2>1 DEF CmrOperand, CmrLink, CmrList
  <2>3. CmrPrune \/ CmrApply \/ CmrApiError => cmw # CmIdle
    BY <2>1 DEF CmrPrune, CmrApply, CmrApiError
  <2>. QED
    BY <1>2, <2>2, <2>3 DEF Cmr
<1>6. cmw.config = cm.obj
  BY <1>1, <1>3, <1>5 DEF InStep
<1>7. cm.obj \in Configs
  BY <1>1, Parts DEF IInv, IsConfig
<1>. QED
  BY <1>1, <1>2, <1>3, <1>4, <1>5, <1>6, <1>7 DEF ConfigPending

LEMMA LinkAgreesStep ==
  ASSUME IInv, InStep, CopyHeld, Next, NEW k \in LinkKeys, LinkReported(k), LinkAgrees(k)
  PROVE  LinkAgrees(k)'
<1>. SUFFICES ASSUME IsConfig(cm'.obj), dls'[k].obj # Absent, dls'[k].obj.imported,
                     ~ConfigPending', ~LinkPending(k)', ~LinkToImport(k)'
              PROVE  EntryOf(cm'.obj, k[1]).links[k[2]] = dls'[k].obj.url
  BY DEF LinkAgrees
<1>0. dls[k] \in LinkObjects /\ dls[k].obj \in DashboardLinks \cup {Absent}
  BY Parts DEF IInv
<1>1. CASE Restart
  BY <1>1, RestartEnqueues DEF ConfigPending, IsConfig
<1>2. CASE ~Restart /\ ~(Cmr \/ CmrApiError) /\ ~(Dlr \/ DlrApiError)
  <2>1. ~ConfigPending /\ cm' = cm /\ cmw' = cmw
    BY <1>2, ConfigPendingStays
  <2>2. ~LinkPending(k) /\ dls'[k].obj = dls[k].obj
    BY <1>2, LinkPendingStays
  <2>3. ~LinkToImport(k)
    BY <2>1 DEF LinkToImport
  <2>. QED
    BY <2>1, <2>2, <2>3 DEF LinkAgrees
<1>3. CASE Dlr \/ DlrApiError
  <2>1. cm' = cm /\ cmw' = cmw /\ ~ConfigPending /\ cm.seen = cm.obj
    BY <1>3, DlrKeeps, SettledIsSeen DEF ConfigPending
  <2>2. ~LinkToImport(k)
    BY <2>1 DEF LinkToImport
  <2>3. dls'[k].obj = dls[k].obj
    BY <1>3, DlrKeeps DEF Kept, LinkPending
  <2>4. CASE ~LinkPending(k)
    BY <2>1, <2>2, <2>3, <2>4 DEF LinkAgrees
  <2>5. CASE LinkPending(k)
    <3>1. /\ DlrWrite /\ dlw.key = k /\ Reconciles(k, {"accept"})' /\ dlw.copy = dls[k].obj
      BY <1>3, <2>5, LinkDone
    <3>2. ~DlrGoto("reject")
      BY <3>1 DEF DlrGoto, Reconciles, IInv, DlWorkers, DlIdle
    <3>3. cm' = Save(cm, DlrDesired) /\ Saved(cm, DlrDesired)
      BY <3>1, <3>2 DEF DlrWrite
    <3>4. DlrDesired = cm.obj
      BY <2>1, <3>3, SavedInVain DEF ConfigPending, IsConfig
    <3>5. cm.obj \in Configs
      BY <2>1, Parts DEF IInv, IsConfig
    <3>6. k[1] \in Apps /\ k[2] \in LinkNames
      BY DEF LinkKeys
    <3>7. k[1] \in DOMAIN cm.obj /\ cm.obj[k[1]] = WithLink(DlrEntry(Loaded(cm.seen)), k[2], dlw.copy.url)
      <4>1. k[1] \in DOMAIN DlrDesired
               /\ DlrDesired[k[1]] = WithLink(DlrEntry(Loaded(cm.seen)), k[2], dlw.copy.url)
        BY <3>1 DEF DlrDesired, DlrApp, DlrName
      <4>. QED
        BY <3>4, <4>1
    <3>8. DlrEntry(Loaded(cm.seen)) \in Entries
      <4>1. Loaded(cm.seen) = cm.obj
        BY <2>1 DEF Loaded, IsConfig
      <4>2. cm.obj \in [DOMAIN cm.obj -> Entries]
        BY <3>5, ConfigParts
      <4>. QED
        BY <3>1, <3>6, <4>1, <4>2, DiscoveryAssumption DEF DlrEntry, DlrApp
    <3>9. WithLink(DlrEntry(Loaded(cm.seen)), k[2], dlw.copy.url).links[k[2]] = dlw.copy.url
      BY <3>6, <3>8 DEF WithLink, Entries, LinkLists
    <3>. QED
      BY <2>1, <2>3, <3>1, <3>7, <3>9 DEF EntryOf
  <2>. QED
    BY <2>4, <2>5
<1>4. CASE Cmr \/ CmrApiError
  <2>1. /\ cm' = cm /\ ~ConfigPending /\ cm.seen = cm.obj /\ cm.obj \in Configs
        /\ ~CmrGet /\ ~CmrFails /\ cmw # CmIdle /\ cmw.config = cm.obj
    <3>1. cmw'.pc # "operand"
      BY DEF LinkToImport
    <3>. QED
      BY <1>4, <3>1, CmrInStep
  <2>2. /\ ~LinkPending(k) /\ dls'[k].obj = dls[k].obj /\ dls'[k].seen = dls[k].obj
        /\ Settled(dls[k]) /\ Settled(dls'[k]) /\ dls[k].seen = dls[k].obj
    BY <1>4, CmrKeeps, SettledIsSeen DEF LinkPending, Kept, Reconciles
  <2>3. CASE ~LinkToImport(k)
    BY <2>1, <2>2, <2>3 DEF LinkAgrees
  <2>g. \A pc, todo : CmrGoto(pc, todo) /\ (todo # {} \/ pc = "links")
          => cmw' = [pc |-> pc, config |-> cmw.config, todo |-> todo]
    BY DEF CmrGoto
  <2>4. CASE cmw.pc = "operand"
    <3>1. CmrGoto("links", LinksOf(cmw.config))
      BY <1>4, <2>1, <2>4 DEF Cmr, CmrOperand, CmrLink, CmrList, CmrPrune, CmrApply, CmrApiError
    <3>2. cmw' = [pc |-> "links", config |-> cmw.config, todo |-> LinksOf(cmw.config)]
      BY <2>g, <3>1
    <3>. QED
      BY <3>2 DEF LinkToImport
  <2>5. CASE cmw.pc = "links" /\ k \notin {ImportOf(al) : al \in LinksOf(cmw.config)}
    <3>1. ~CmrLink
      <4>. SUFFICES ASSUME NEW al \in cmw.todo, CmrGoto("links", cmw.todo \ {al}) PROVE FALSE
        BY <2>1 DEF CmrLink
      <4>1. cmw' = [pc |-> "links", config |-> cmw.config, todo |-> cmw.todo \ {al}]
        BY <2>g
      <4>. QED
        BY <2>5, <4>1 DEF LinkToImport
    <3>2. CmrList
      BY <1>4, <2>1, <2>5, <3>1 DEF Cmr, CmrOperand, CmrPrune, CmrApply, CmrApiError
    <3>3. k \in Superfluous
      BY <2>2, <2>5 DEF Superfluous
    <3>4. cmw' = [pc |-> "prune", config |-> cmw.config, todo |-> Superfluous]
      BY <2>g, <3>2, <3>3 DEF CmrList
    <3>. QED
      BY <3>3, <3>4 DEF LinkToImport
  <2>6. CASE cmw.pc = "links" /\ k \in {ImportOf(al) : al \in cmw.todo}
    <3>1. PICK aj \in cmw.todo : k = ImportOf(aj)
      BY <2>6
    <3>2. CmrLink
      BY <1>4, <2>1, <2>6 DEF Cmr, CmrOperand, CmrList, CmrPrune, CmrApply, CmrApiError
    <3>3. PICK al \in cmw.todo :
            /\ dls' = [dls EXCEPT ![ImportOf(al)] = Save(dls[ImportOf(al)], ImportedLink(al))]
            /\ Saved(dls[ImportOf(al)], ImportedLink(al)) /\ CmrGoto("links", cmw.todo \ {al})
      BY <2>1, <3>2 DEF CmrLink
    <3>4. cmw' = [pc |-> "links", config |-> cmw.config, todo |-> cmw.todo \ {al}]
      BY <2>g, <3>3
    <3>5. al = aj
      BY <3>1, <3>4 DEF LinkToImport
    <3>6. ImportedLink(al) = dls[k].obj
      <4>1. dls'[k] = Save(dls[k], ImportedLink(al))
        BY <3>1, <3>3, <3>5 DEF IInv
      <4>. QED
        BY <2>2, <3>1, <3>3, <3>5, <4>1, SavedInVain
    <3>7. dls[k].obj = [dls[k].obj EXCEPT !.url = CmrUrl(al)]
      BY <2>2, <3>1, <3>5, <3>6 DEF ImportedLink
    <3>8. dls[k].obj.url = CmrUrl(al)
      BY <1>0, <2>2, <3>7 DEF DashboardLinks
    <3>9. al \in LinksOf(cmw.config)
      BY <2>6 DEF IInv, CmWorkers, CmIdle
    <3>10. k[1] = al[1] /\ k[2] = al[2]
      BY <3>1, <3>5 DEF ImportOf
    <3>. QED
      BY <2>1, <2>2, <3>8, <3>9, <3>10 DEF EntryOf, LinksOf, CmrUrl
  <2>7. CASE cmw.pc = "prune" /\ k \in cmw.todo
    <3>1. CmrPrune
      BY <1>4, <2>1, <2>7 DEF Cmr, CmrOperand, CmrLink, CmrList, CmrApply, CmrApiError
    <3>2. PICK j \in cmw.todo :
            dls' = [dls EXCEPT ![j] = Erase(dls[j])] /\ CmrGoto("prune", cmw.todo \ {j})
      BY <3>1 DEF CmrPrune
    <3>3. j = k
      <4>. SUFFICES ASSUME j # k PROVE FALSE
        OBVIOUS
      <4>1. cmw' = [pc |-> "prune", config |-> cmw.config, todo |-> cmw.todo \ {j}]
        BY <2>7, <2>g, <3>2
      <4>. QED
        BY <2>7, <4>1 DEF LinkToImport
    <3>4. dls'[k] = Erase(dls[k])
      BY <3>2, <3>3 DEF IInv
    <3>5. dls'[k] = Put(dls[k], [dls[k].obj EXCEPT !.del = TRUE])
      BY <2>2, <3>4 DEF Erase, Put
    <3>6. dls[k].obj = [dls[k].obj EXCEPT !.del = TRUE]
      BY <2>2, <3>5 DEF Put, Settled
    <3>7. dls[k].obj.del
      BY <1>0, <2>2, <3>6 DEF DashboardLinks
    <3>. QED
      BY <2>2, <3>7 DEF LinkReported
  <2>. QED
    BY <2>3, <2>4, <2>5, <2>6, <2>7 DEF LinkToImport
<1>. QED
  BY <1>1, <1>2, <1>3, <1>4

----------------------------------------------------------------------------
(* The operand *)

\* Steps of others than DNCR leave what is pending for the operand, and at what DNCR is.
LEMMA OperandPendingStays ==
  ASSUME IInv, Next, ~(Dncr \/ DncrApiError), ~Restart, ~OperandPending'
  PROVE  ~OperandPending /\ dnc' = dnc /\ dncw' = dncw
<1>1. Settled(dnc') /\ ~qdnc'
  BY DEF OperandPending
<1>2. dncw' = dncw /\ ~qdnc /\ dnc' = dnc
  <2>1. CASE Informers
    BY <1>1, <2>1, InformersKeep DEF Workers
  <2>2. CASE Disturbances
    BY <1>1, <2>2, DisturbancesKeep DEF Workers
  <2>3. CASE Nsr \/ NsrApiError
    BY <1>1, <2>3, NsrKeeps
  <2>4. CASE Cmr \/ CmrApiError
    BY <1>1, <2>4, CmrKeeps
  <2>5. CASE Dlr \/ DlrApiError
    BY <1>1, <2>5, DlrKeeps
  <2>. QED
    BY <2>1, <2>2, <2>3, <2>4, <2>5, StepsAre
<1>. QED
  BY <1>1, <1>2 DEF OperandPending

\* DNCR has done its work on an operand when it has written the ConfigMap: from a
\* copy of what the server has.
LEMMA OperandDone ==
  ASSUME IInv, InStep, Dncr \/ DncrApiError, dnc'.obj # Absent, ~OperandPending'
  PROVE  /\ dnc' = dnc /\ dnc.seen = dnc.obj /\ Current(dnc, "cache") /\ ~DncrApiError
         /\ dnc.obj \in Operands
         /\ \/ ~OperandPending /\ DncrAccept /\ dncw.pc = "accept"
            \/ DncrWrite /\ DncrGoto("accept") /\ dncw'.pc = "accept" /\ dncw.copy = dnc.obj
<1>1. Settled(dnc') /\ ~qdnc' /\ dncw'.pc \notin {"label", "write", "reject"}
  BY DEF OperandPending
<1>2. dnc' = dnc /\ dnc.seen = dnc.obj /\ Current(dnc, "cache")
  BY <1>1, DncrKeeps, SettledIsSeen DEF Settled, Current
<1>3. dnc.obj \in Operands
  BY <1>2, Parts DEF IInv
<1>4. ~DncrGet
  BY <1>1, <1>2 DEF DncrGet
<1>5. ~qdnc
  BY <1>1, <1>4, DncrKeeps
<1>i. dncw.pc # "idle" => dncw # DncIdle
  BY DEF DncIdle
<1>g. \A pc : DncrGoto(pc) /\ dncw # DncIdle => dncw'.pc = pc
  BY DEF DncrGoto, IInv, DncWorkers
<1>6. ~DncrApiError
  BY <1>1 DEF DncrApiError, IInv, DncWorkers
<1>7. ~DncrReject
  BY <1>1 DEF DncrReject
<1>8. ~DncrLabel
  BY <1>1, <1>i, <1>g DEF DncrLabel
<1>9. CASE DncrAccept
  BY <1>2, <1>3, <1>1, <1>5, <1>6, <1>9 DEF DncrAccept, OperandPending
<1>10. CASE DncrWrite
  <2>1. dncw.copy = dnc.obj
    BY <1>2, <1>5, <1>10, <1>i DEF DncrWrite, InStep
  <2>2. ~DncrGoto("reject")
    BY <1>1, <1>10, <1>i, <1>g DEF DncrWrite
  <2>3. DncrGoto("accept")
    BY <1>10, <2>2 DEF DncrWrite
  <2>4. dncw'.pc = "accept"
    BY <1>10, <1>i, <1>g, <2>3 DEF DncrWrite
  <2>. QED
    BY <1>2, <1>3, <1>6, <1>10, <2>1, <2>3, <2>4
<1>. QED
  BY <1>4, <1>6, <1>7, <1>8, <1>9, <1>10 DEF Dncr

LEMMA OperandReportedStep ==
  ASSUME IInv, InStep, Next, OperandReported
  PROVE  OperandReported'
<1>. SUFFICES ASSUME dnc'.obj # Absent, ~OperandPending', dncw'.pc # "accept"
              PROVE  dnc'.obj.ready = "True"
  BY DEF OperandReported
<1>1. CASE Restart
  BY <1>1, RestartEnqueues DEF OperandPending
<1>2. CASE ~Restart /\ ~(Dncr \/ DncrApiError)
  BY <1>2, OperandPendingStays DEF OperandReported
<1>3. CASE Dncr \/ DncrApiError
  <2>1. DncrAccept /\ dnc' = dnc /\ Current(dnc, "cache")
    BY <1>3, OperandDone
  <2>2. dnc'.obj = [spec |-> dnc.seen.spec, source |-> dnc.seen.source, ready |-> "True"]
    BY <2>1 DEF DncrAccept, DncrStatus, Put
  <2>. QED
    BY <2>2
<1>. QED
  BY <1>1, <1>2, <1>3

\* Whatever its mode, the config that an operand wants contains what it declares.
LEMMA DesiredContains ==
  ASSUME NEW c \in Configs, NEW d \in Operands
  PROVE  /\ Contains(Desired(c, Discovered, d.spec), d.spec.apps)
         /\ d.spec.apps \in AppMaps(Declarations)
<1>1. d.spec.mode \in Modes /\ d.spec.apps \in AppMaps(Declarations)
  BY OperandParts DEF Specs
<1>2. MergedByOperand(c, Discovered) \in Configs /\ Discovered \in Configs
  BY DiscoveredIs, CompletedKeeps DEF MergedByOperand
<1>3. \A base \in Configs : Contains(Overlay(base, d.spec.apps), d.spec.apps)
  BY <1>1, OverlayContains
<1>. QED
  BY <1>1, <1>2, <1>3 DEF Desired, Modes

LEMMA OperandAgreesStep ==
  ASSUME IInv, InStep, Next, OperandAgrees
  PROVE  OperandAgrees'
<1>. SUFFICES ASSUME IsConfig(cm'.obj), dnc'.obj # Absent, dnc'.obj.source = "configmap",
                     ~ImportPending', ~OperandPending'
              PROVE  Contains(Declared(cm'.obj), Declared(dnc'.obj.spec.apps))
  BY DEF OperandAgrees
<1>0. ~ConfigPending' /\ cmw'.pc # "operand" /\ Settled(cm')
  BY DEF ImportPending, ConfigPending
<1>1. CASE Restart
  BY <1>0, <1>1, RestartEnqueues DEF ConfigPending, IsConfig
<1>2. CASE ~Restart /\ ~(Cmr \/ CmrApiError) /\ ~(Dncr \/ DncrApiError)
  <2>1. ~ConfigPending /\ cm' = cm /\ cmw' = cmw
    BY <1>0, <1>2, ConfigPendingStays
  <2>2. ~OperandPending /\ dnc' = dnc
    BY <1>2, OperandPendingStays
  <2>. QED
    BY <1>0, <2>1, <2>2 DEF OperandAgrees, ImportPending
<1>3. CASE Cmr \/ CmrApiError
  <2>1. /\ cm' = cm /\ ~ConfigPending /\ cm.obj \in Configs
        /\ ~CmrGet /\ ~CmrFails /\ cmw.config = cm.obj
    BY <1>0, <1>3, CmrInStep
  <2>2. dnc' = dnc /\ Settled(dnc) /\ dnc.seen = dnc.obj /\ ~OperandPending
    BY <1>3, CmrKeeps, SettledIsSeen DEF OperandPending
  <2>3. CASE cmw.pc # "operand"
    BY <2>1, <2>2, <2>3 DEF OperandAgrees, ImportPending
  <2>4. CASE cmw.pc = "operand"
    <3>1. CmrOperand
      BY <1>3, <2>1, <2>4 DEF Cmr, CmrLink, CmrList, CmrPrune, CmrApply, CmrApiError
    <3>2. dnc' = Save(dnc, ImportedOperand) /\ Saved(dnc, ImportedOperand)
      BY <2>1, <3>1 DEF CmrOperand
    <3>3. ImportedOperand = dnc.obj
      BY <2>2, <3>2, SavedInVain
    <3>4. dnc.obj.spec.apps = Declared(cm.obj)
      BY <2>1, <2>2, <3>3 DEF ImportedOperand, CmrSpec, ImportedSpec
    <3>. QED
      BY <2>1, <2>2, <3>4, ImportContained
  <2>. QED
    BY <2>3, <2>4
<1>4. CASE Dncr \/ DncrApiError
  <2>1. cm' = cm /\ cmw' = cmw /\ ~ImportPending /\ cm.seen = cm.obj /\ Settled(cm)
    BY <1>0, <1>4, DncrKeeps, SettledIsSeen DEF ImportPending, ConfigPending
  <2>2. /\ dnc' = dnc /\ dnc.obj \in Operands
        /\ \/ ~OperandPending
           \/ DncrWrite /\ DncrGoto("accept") /\ dncw'.pc = "accept" /\ dncw.copy = dnc.obj
    BY <1>4, OperandDone
  <2>3. CASE ~OperandPending
    BY <2>1, <2>2, <2>3 DEF OperandAgrees
  <2>4. CASE DncrWrite /\ DncrGoto("accept") /\ dncw'.pc = "accept" /\ dncw.copy = dnc.obj
    <3>1. ~DncrGoto("reject")
      BY <2>4 DEF DncrGoto, DncrWrite, IInv, DncWorkers, DncIdle
    <3>2. cm' = Save(cm, DncrDesired) /\ Saved(cm, DncrDesired)
      BY <2>4, <3>1 DEF DncrWrite
    <3>3. DncrDesired = cm.obj
      BY <2>1, <3>2, SavedInVain DEF IsConfig
    <3>4. cm.obj \in Configs /\ Loaded(cm.seen) = cm.obj
      BY <2>1, Parts DEF IInv, IsConfig, Loaded
    <3>5. Contains(DncrDesired, dnc.obj.spec.apps) /\ dnc.obj.spec.apps \in AppMaps(Declarations)
      BY <2>2, <2>4, <3>4, DesiredContains DEF DncrDesired
    <3>. QED
      BY <2>1, <2>2, <3>3, <3>4, <3>5, DeclaredContains
  <2>. QED
    BY <2>2, <2>3, <2>4
<1>. QED
  BY <1>1, <1>2, <1>3, <1>4

----------------------------------------------------------------------------
(* Entries of deployments *)

\* Does the namespace need the entry of app a?
Wanted(a) == NoReplace \/ deps[a].obj # Absent

\* What a controller makes of the cached ConfigMap has all the entries that are wanted.
GrowsTo(b) ==
  b \in Configs /\ (cm.seen # Absent => \A a \in DOMAIN cm.seen : Wanted(a) => a \in DOMAIN b)

LEMMA GeneratedGrows ==
  ASSUME IInv, cm.seen # Malformed
  PROVE  GrowsTo(Generated) /\ DOMAIN Discovered \subseteq DOMAIN Generated
BY GeneratedTyped DEF GrowsTo, Generated, MergedByNamespace, Completed

LEMMA OverlayGrows ==
  ASSUME NEW c, NEW d, NEW spec, spec.mode \in Modes
  PROVE  /\ spec.mode # "Replace" => DOMAIN c \subseteq DOMAIN Desired(c, d, spec)
         /\ DOMAIN d \subseteq DOMAIN Desired(c, d, spec) \/ spec.mode = "None"
BY DEF Desired, Overlay, Modes, MergedByOperand, Completed

LEMMA DncrDesiredGrows ==
  ASSUME IInv, EntriesStay, EntriesLeft, cm.seen # Malformed, dncw.copy \in Operands
  PROVE  GrowsTo(DncrDesired)
<1>1. dncw.copy.spec.mode \in Modes /\ dncw.copy # Absent
  BY OperandParts, ClusterAbsentAssumption DEF Specs
<1>2. DncrDesired \in Configs
  BY DncrDesiredTyped
<1>3. cm.seen # Absent => Loaded(cm.seen) = cm.seen
  BY DEF Loaded
<1>4. CASE dncw.copy.spec.mode # "Replace"
  BY <1>1, <1>2, <1>3, <1>4, OverlayGrows DEF GrowsTo, DncrDesired
<1>5. CASE dncw.copy.spec.mode = "Replace"
  <2>1. ~NoReplace
    BY <1>1, <1>5 DEF EntriesStay, NoneReplaces, Replaces
  <2>2. AllSeen
    BY <2>1 DEF EntriesStay, EntriesLeft, NoReplace
  <2>3. DOMAIN Discovered \subseteq DOMAIN DncrDesired
    BY <1>1, <1>5, OverlayGrows DEF DncrDesired
  <2>4. cm.seen # Absent => DOMAIN cm.seen \subseteq Apps
    BY Parts, ConfigParts DEF IInv
  <2>. QED
    BY <1>2, <2>1, <2>2, <2>3, <2>4 DEF GrowsTo, Wanted, AllSeen, Discovered
<1>. QED
  BY <1>4, <1>5

LEMMA DlrDesiredGrows ==
  ASSUME IInv, cm.seen # Malformed, dlw # DlIdle
  PROVE  /\ GrowsTo(DlrDesired)
         /\ cm.seen # Absent => GrowsTo(WithoutLink(cm.seen, DlrApp, DlrName))
<1>1. dlw.key \in LinkKeys /\ dlw.copy \in DashboardLinks
  BY DEF IInv, DlWorkers
<1>2. DlrDesired \in Configs
  BY <1>1, DlrDesiredTyped
<1>3. cm.seen # Absent => WithoutLink(cm.seen, DlrApp, DlrName) \in Configs
  BY <1>1, WithoutLinkTyped, Parts DEF IInv, LinkKeys, DlrName
<1>. QED
  BY <1>2, <1>3 DEF GrowsTo, DlrDesired, WithoutLink, Loaded

\* All that is written to the ConfigMap has the entries that are wanted.
LEMMA ConfigWrites ==
  ASSUME IInv, EntriesStay, EntriesLeft, Next
  PROVE  cm'.obj = cm.obj \/ \E b : GrowsTo(b) /\ cm' = Save(cm, b)
<1>1. CASE Informers
  BY <1>1 DEF Informers, DeliverNamespace, DeliverConfigMap, DeliverOperand, DeliverLink,
       DeliverDeployment, Deliver
<1>2. CASE Disturbances
  <2>1. ~UserEditsConfigMap
    BY DEF EntriesLeft, UserEditsConfigMap, UserWritesConfigMap, Disturb
  <2>. QED
    BY <1>2, <2>1, RestartEnqueues
       DEF Disturbances, Users, UserLabelsNamespace, UserEditsOperand, UserAddsLink, UserEditsLink,
           Rollout, Resync, Objects
<1>3. CASE Nsr \/ NsrApiError
  BY <1>3, GeneratedGrows DEF Nsr, NsrGet, NsrImport, NsrConfig, NsrApiError, Objects
<1>4. CASE Cmr \/ CmrApiError
  BY <1>4, CmrKeeps
<1>5. CASE Dncr \/ DncrApiError
  <2>1. CASE DncrWrite
    <3>1. dncw.copy \in Operands
      BY <2>1 DEF DncrWrite, IInv, DncWorkers, DncIdle
    <3>. QED
      BY <2>1, <3>1, DncrDesiredGrows DEF DncrWrite
  <2>. QED
    BY <1>5, <2>1, DncrKeeps
<1>6. CASE Dlr \/ DlrApiError
  <2>1. CASE DlrWrite \/ DlrUnlink
    <3>1. dlw # DlIdle
      BY <2>1 DEF DlrWrite, DlrUnlink, DlIdle
    <3>. QED
      BY <2>1, <3>1, DlrDesiredGrows DEF DlrWrite, DlrUnlink
  <2>. QED
    BY <1>6, <2>1, DlrKeeps
<1>. QED
  BY <1>1, <1>2, <1>3, <1>4, <1>5, <1>6 DEF Next, Controllers, ApiErrors

LEMMA EntriesGrow ==
  ASSUME IInv, EntriesStay, EntriesLeft, Next
  PROVE  /\ cm'.obj # Malformed
         /\ cm.obj # Absent =>
              /\ cm'.obj # Absent
              /\ \A a \in DOMAIN cm.obj : Wanted(a) => a \in DOMAIN cm'.obj
<1>1. CASE cm'.obj = cm.obj
  BY <1>1 DEF EntriesStay
<1>2. CASE cm'.obj # cm.obj
  <2>1. PICK b : GrowsTo(b) /\ cm' = Save(cm, b)
    BY <1>2, ConfigWrites
  <2>2. cm \in ObjectsOf(Configs \cup {Malformed}, {"cache"})
    BY DEF IInv, ConfigObjects
  <2>3. cm'.obj = b /\ (cm.seen = cm.obj \/ cm.obj = Absent)
    BY <1>2, <2>1, <2>2, SaveEffect
  <2>4. b # Malformed /\ b # Absent
    BY <2>1, SpecsAssumption, ClusterAbsentAssumption DEF GrowsTo
  <2>. QED
    BY <2>1, <2>3, <2>4 DEF GrowsTo
<1>. QED
  BY <1>1, <1>2

\* Deployments come only by a roll-out.
LEMMA DeploymentsCome ==
  ASSUME IInv, Next, NEW a \in Apps
  PROVE  /\ deps'[a].obj # Absent => deps[a].obj # Absent \/ "deployment" \in Kinds
         /\ deps'[a].seen \in {deps[a].seen, deps[a].obj}
         /\ deps'[a].obj # Absent /\ deps'[a].seen = Absent /\ deps[a].obj # Absent
              => deps[a].seen = Absent
<1>t. deps[a] \in DeploymentObjects /\ deps \in [Apps -> DeploymentObjects]
  BY DEF IInv
<1>1. CASE Informers
  BY <1>1, <1>t DEF Informers, DeliverNamespace, DeliverConfigMap, DeliverOperand, DeliverLink,
       DeliverDeployment, Deliver
<1>2. CASE Restart
  BY <1>2, RestartEnqueues
<1>3. CASE Disturbances /\ ~Restart
  <2>1. CASE Rollout
    <3>1. "deployment" \in Kinds
      BY <2>1 DEF Rollout, Disturb
    <3>2. deps'[a].seen = deps[a].seen
      BY <2>1, <1>t DEF Rollout, Put
    <3>. QED
      BY <3>1, <3>2
  <2>. QED
    BY <1>3, <2>1 DEF Disturbances, Users, UserLabelsNamespace, UserEditsConfigMap,
       UserWritesConfigMap, UserEditsOperand, UserAddsLink, UserEditsLink, Resync, Objects
<1>4. CASE Cmr \/ CmrApiError
  <2>1. CASE CmrApply
    <3>1. PICK j \in cmw.todo : cmw.pc = "deployments" /\
            deps' = IF deps[j].seen = Absent THEN deps
                    ELSE [deps EXCEPT ![j] = Save(deps[j], Applied(deps[j].seen, j, cmw.config[j]))]
      BY <2>1 DEF CmrApply
    <3>2. j \in Apps
      BY <3>1 DEF IInv, CmWorkers, CmIdle
    <3>3. \A b : Save(deps[j], b).seen = deps[j].seen
      BY WritesKeepSeen
    <3>4. \A b : deps[j].seen # Absent => Save(deps[j], b).obj = deps[j].obj \/ deps[j].obj # Absent
      BY DEF Save, Accepted, Current
    <3>. QED
      BY <1>t, <3>1, <3>2, <3>3, <3>4
  <2>. QED
    BY <1>4, <2>1 DEF Cmr, CmrGet, CmrOperand, CmrLink, CmrList, CmrPrune, CmrApiError, Objects
<1>5. CASE Nsr \/ NsrApiError \/ Dncr \/ DncrApiError \/ Dlr \/ DlrApiError
  BY <1>5, NsrKeeps, DncrKeeps, DlrKeeps
<1>. QED
  BY <1>1, <1>2, <1>3, <1>4, <1>5, StepsAre


LEMMA OpsReplace ==
  ASSUME NEW o, NEW b, ~Replaces(o.obj), ~Replaces(o.seen), ~Replaces(b)
  PROVE  /\ ~Replaces(Put(o, b).obj) /\ ~Replaces(Put(o, b).seen)
         /\ ~Replaces(Save(o, b).obj) /\ ~Replaces(Save(o, b).seen)
         /\ ~Replaces(Deliver(o).obj) /\ ~Replaces(Deliver(o).seen)
BY DEF Put, Save, Deliver

LEMMA NoneReplacesStep ==
  ASSUME IInv, Next, NoReplace, NoneReplaces
  PROVE  NoneReplaces'
<1>1. ~Replaces(dncw'.copy)
  <2>1. ~Replaces(Absent)
    BY DEF Replaces
  <2>. QED
    BY <2>1, ReconcilesHold DEF NoneReplaces, DncIdle
<1>. SUFFICES ~Replaces(dnc'.obj) /\ ~Replaces(dnc'.seen)
  BY <1>1 DEF NoneReplaces
<1>2. ASSUME NEW b, ~Replaces(b), dnc' = Put(dnc, b) \/ dnc' = Save(dnc, b) \/ dnc' = Deliver(dnc)
      PROVE  ~Replaces(dnc'.obj) /\ ~Replaces(dnc'.seen)
  BY <1>2, OpsReplace DEF NoneReplaces
<1>3. ~Replaces(Absent) /\ ~Replaces(dnc.obj) /\ ~Replaces(dnc.seen)
  BY DEF Replaces, NoneReplaces
<1>i. \A apps : ImportedSpec(apps).mode # "Replace"
  BY DEF ImportedSpec
<1>4. CASE Informers
  BY <1>2, <1>3, <1>4 DEF Informers, DeliverNamespace, DeliverConfigMap, DeliverOperand, DeliverLink,
       DeliverDeployment
<1>5. CASE Restart
  BY <1>3, <1>5, RestartEnqueues
<1>6. CASE Disturbances /\ ~Restart
  <2>1. CASE UserEditsOperand
    <3>1. \A s \in UserSpecs : s.mode # "Replace"
      BY <2>1 DEF UserEditsOperand, Disturb, NoReplace
    <3>2. \A s \in UserSpecs : ~Replaces(NewOperand(s, "user"))
      BY <3>1 DEF Replaces, NewOperand
    <3>3. \A s \in UserSpecs : dnc.obj # Absent => ~Replaces([dnc.obj EXCEPT !.spec = s])
      BY <3>1, Parts DEF Replaces, IInv, Operands
    <3>. QED
      BY <1>2, <1>3, <2>1, <3>2, <3>3 DEF UserEditsOperand
  <2>. QED
    BY <1>3, <1>6, <2>1 DEF Disturbances, Users, UserLabelsNamespace, UserEditsConfigMap,
       UserWritesConfigMap, UserAddsLink, UserEditsLink, Rollout, Resync, Objects
<1>7. CASE Nsr \/ NsrApiError
  <2>1. \A m : ~Replaces(LiveOperand(m))
    BY <1>3, <1>i DEF Replaces, LiveOperand, NewOperand, LiveSpec
  <2>. QED
    BY <1>2, <1>3, <1>7, <2>1 DEF Nsr, NsrGet, NsrImport, NsrConfig, NsrApiError, Objects
<1>8. CASE Cmr \/ CmrApiError
  <2>1. ~Replaces(ImportedOperand)
    BY <1>3, <1>i DEF Replaces, ImportedOperand, NewOperand, CmrSpec
  <2>. QED
    BY <1>2, <1>3, <1>8, <2>1
       DEF Cmr, CmrGet, CmrOperand, CmrLink, CmrList, CmrPrune, CmrApply, CmrApiError, Objects
<1>9. CASE Dncr \/ DncrApiError
  <2>1. ASSUME NEW r, DncrStatus(r) PROVE ~Replaces(dnc'.obj) /\ ~Replaces(dnc'.seen)
    <3>1. CASE Current(dnc, "cache")
      <4>1. dnc.seen = dnc.obj /\ dnc.obj # Absent
        BY <3>1, CurrentCopies DEF IInv
      <4>2. ~Replaces([spec |-> dnc.seen.spec, source |-> dnc.seen.source, ready |-> r])
        BY <1>3, <4>1 DEF Replaces
      <4>. QED
        BY <1>2, <2>1, <3>1, <4>2 DEF DncrStatus
    <3>. QED
      BY <1>3, <2>1, <3>1 DEF DncrStatus
  <2>. QED
    BY <1>3, <1>9, <2>1
       DEF Dncr, DncrGet, DncrLabel, DncrWrite, DncrAccept, DncrReject, DncrGoto, DncrApiError, Objects
<1>10. CASE Dlr \/ DlrApiError
  BY <1>3, <1>10, DlrKeeps
<1>. QED
  BY <1>4, <1>5, <1>6, <1>7, <1>8, <1>9, <1>10, StepsAre

LEMMA EntriesStayStep == IInv /\ EntriesStay /\ Next => EntriesStay'
<1>. SUFFICES ASSUME IInv, EntriesStay, Next, EntriesLeft
              PROVE  /\ NoReplace => NoneReplaces'
                     /\ "deployment" \notin Kinds => AllSeen'
                     /\ cm'.obj # Malformed /\ cm'.seen # Malformed
                     /\ cm'.seen # Absent =>
                          /\ cm'.obj # Absent
                          /\ \A a \in DOMAIN cm'.seen :
                               NoReplace \/ deps'[a].obj # Absent => a \in DOMAIN cm'.obj
  BY DEF EntriesStay, EntriesLeft, NoReplace
<1>1. NoReplace => NoneReplaces'
  BY NoneReplacesStep DEF EntriesStay
<1>2. "deployment" \notin Kinds => AllSeen'
  BY DeploymentsCome DEF EntriesStay, AllSeen
<1>3. cm'.obj # Malformed /\ cm.obj # Malformed /\ cm.seen # Malformed
  BY EntriesGrow DEF EntriesStay
<1>4. cm'.seen \in {cm.seen, cm.obj}
  <2>1. CASE Informers
    BY <2>1 DEF Informers, DeliverNamespace, DeliverConfigMap, DeliverOperand, DeliverLink,
         DeliverDeployment, Deliver
  <2>2. CASE Restart
    BY <2>2, RestartEnqueues
  <2>. QED
    BY <2>1, <2>2, CachesKeep DEF Cached
<1>5. ASSUME cm'.seen # Absent
      PROVE  /\ cm'.obj # Absent
             /\ \A a \in DOMAIN cm'.seen :
                  NoReplace \/ deps'[a].obj # Absent => a \in DOMAIN cm'.obj
  <2>1. cm.obj # Absent
    BY <1>4, <1>5 DEF EntriesStay
  <2>2. cm'.obj # Absent /\ \A a \in DOMAIN cm.obj : Wanted(a) => a \in DOMAIN cm'.obj
    BY <2>1, EntriesGrow
  <2>3. ASSUME NEW a \in DOMAIN cm'.seen, NoReplace \/ deps'[a].obj # Absent
        PROVE  a \in DOMAIN cm'.obj
    <3>1. a \in Apps
      BY <1>3, <1>4, <1>5, <2>3, Parts, ConfigParts DEF IInv
    <3>2. Wanted(a)
      BY <2>3, <3>1, DeploymentsCome DEF Wanted, NoReplace, EntriesLeft
    <3>3. a \in DOMAIN cm.obj
      BY <1>4, <1>5, <2>3, <3>2 DEF EntriesStay, Wanted
    <3>. QED
      BY <2>2, <3>2, <3>3
  <2>. QED
    BY <2>2, <2>3
<1>. QED
  BY <1>1, <1>2, <1>3, <1>4, <1>5

LEMMA DeploymentListedStep ==
  ASSUME IInv, InStep, EntriesStay, Next, NEW a \in Apps, DeploymentListed(a)
  PROVE  DeploymentListed(a)'
<1>. SUFFICES ASSUME EntriesLeft, ns'.obj, deps'[a].obj # Absent, ~ListPending(a)'
              PROVE  IsConfig(cm'.obj) /\ a \in DOMAIN cm'.obj
  BY DEF DeploymentListed, EntriesLeft
<1>1. /\ Settled(ns') /\ Settled(deps'[a]) /\ ~qns' /\ nsw'.pc \notin {"import", "config"}
  BY DEF ListPending
<1>2. IsConfig(cm.obj) /\ a \in DOMAIN cm.obj /\ deps[a].obj # Absent
        => IsConfig(cm'.obj) /\ a \in DOMAIN cm'.obj
  BY EntriesGrow DEF IsConfig, Wanted
<1>3. CASE Restart
  BY <1>1, <1>3, RestartEnqueues
<1>4. CASE ~Restart /\ ~(Nsr \/ NsrApiError)
  <2>1. ns' = ns /\ deps'[a] = deps[a] /\ ~qns /\ nsw' = nsw
    <3>1. CASE Informers
      BY <1>1, <3>1, InformersKeep DEF Workers
    <3>2. CASE Disturbances
      BY <1>1, <1>4, <3>2, DisturbancesKeep DEF Workers
    <3>3. CASE Cmr \/ CmrApiError
      BY <1>1, <3>3, CmrKeeps
    <3>4. CASE Dncr \/ DncrApiError
      BY <1>1, <3>4, DncrKeeps
    <3>5. CASE Dlr \/ DlrApiError
      BY <1>1, <3>5, DlrKeeps
    <3>. QED
      BY <1>4, <3>1, <3>2, <3>3, <3>4, <3>5, StepsAre
  <2>2. ~ListPending(a)
    BY <1>1, <2>1 DEF ListPending
  <2>. QED
    BY <1>2, <2>1, <2>2 DEF DeploymentListed
<1>5. CASE Nsr \/ NsrApiError
  <2>1. ns' = ns /\ deps' = deps /\ ns.seen = ns.obj /\ deps[a].seen = deps[a].obj
    BY <1>1, <1>5, NsrKeeps, SettledIsSeen
  <2>2. ~NsrGet
    BY <1>1 DEF NsrGet
  <2>3. ~qns /\ ~NsrFails
    BY <1>1, <1>5, <2>2, NsrKeeps DEF NsrFails
  <2>4. ~NsrApiError
    BY <2>3 DEF NsrApiError
  <2>i. nsw.pc # "idle" => nsw # NsIdle
    BY DEF NsIdle
  <2>5. ~NsrImport
    <3>1. NsrImport => nsw.labelled
      BY <2>1, <2>3, <2>i DEF NsrImport, InStep
    <3>2. ~NsrGoto("config")
      BY <1>1 DEF NsrGoto, IInv, NsWorkers
    <3>. QED
      BY <2>3, <3>1, <3>2 DEF NsrImport
  <2>6. cm.seen # Malformed /\ cm' = Save(cm, Generated) /\ Saved(cm, Generated)
    BY <1>5, <2>2, <2>3, <2>4, <2>5 DEF Nsr, NsrConfig
  <2>7. a \in DOMAIN Generated /\ Generated \in Configs
    <3>1. a \in DOMAIN Discovered
      BY <2>1 DEF Discovered
    <3>. QED
      BY <2>6, <3>1, GeneratedGrows DEF GrowsTo
  <2>8. Generated # Malformed /\ Generated # Absent
    BY <2>7, SpecsAssumption, ClusterAbsentAssumption
  <2>9. CASE Generated = cm.seen
    <3>1. IsConfig(cm.obj) /\ a \in DOMAIN cm.obj
      BY <2>1, <2>7, <2>8, <2>9 DEF EntriesStay, IsConfig
    <3>. QED
      BY <1>2, <2>1, <3>1
  <2>10. CASE Generated # cm.seen
    <3>1. cm'.obj = Generated
      BY <2>6, <2>10 DEF Saved, Save, Put
    <3>. QED
      BY <2>7, <2>8, <3>1 DEF IsConfig
  <2>. QED
    BY <2>9, <2>10
<1>. QED
  BY <1>3, <1>4, <1>5

----------------------------------------------------------------------------
(* The invariant is inductive *)

LEMMA InitQInv == Init => QInv
<1>. SUFFICES ASSUME Init PROVE QInv
  OBVIOUS
<1>1. IInv
  BY InitIInv
<1>2. PICK c \in InitialClusters :
        /\ ns = Listed(c.labelled)
        /\ cm = Listed(c.cm)
        /\ deps = [a \in Apps |-> Listed(c.deployed[a])]
  BY DEF Init
<1>3. dnc.obj = Absent /\ dnc.seen = Absent /\ \A k \in LinkKeys : dls[k].obj = Absent
  BY DEF Init, Listed
<1>4. nsw = NsIdle /\ cmw = CmIdle /\ dncw = DncIdle /\ dlw = DlIdle /\ qns
      /\ (cm.obj # Absent => qcm)
  BY DEF Init
<1>5. InStep /\ CopyHeld
  BY <1>3, <1>4 DEF InStep, CopyHeld, DlIdle
<1>6. OperandAgrees /\ OperandReported /\ \A k \in LinkKeys : LinkReported(k) /\ LinkAgrees(k)
  BY <1>3 DEF OperandAgrees, OperandReported, LinkReported, LinkAgrees
<1>7. EntriesStay
  <2>1. NoneReplaces
    BY <1>3, <1>4 DEF NoneReplaces, Replaces, DncIdle
  <2>2. AllSeen
    BY <1>2 DEF AllSeen, Listed
  <2>3. c.cm \in Configs \cup {Absent}
    BY SpecsAssumption
  <2>4. cm.obj = c.cm /\ cm.seen = c.cm /\ c.cm # Malformed
    BY <1>2, <2>3, SpecsAssumption, ClusterAbsentAssumption DEF Listed
  <2>. QED
    BY <2>1, <2>2, <2>4 DEF EntriesStay
<1>8. \A a \in Apps : DeploymentListed(a)
  BY <1>4 DEF DeploymentListed, ListPending
<1>. QED
  BY <1>1, <1>5, <1>6, <1>7, <1>8 DEF QInv

LEMMA StepQInv == QInv /\ [Next]_vars => QInv'
<1>. SUFFICES ASSUME QInv, [Next]_vars PROVE QInv'
  OBVIOUS
<1>1. CASE Next
  <2>1. IInv' /\ InStep' /\ CopyHeld'
    BY <1>1, StepIInv, InStepStep, CopyHeldStep DEF QInv
  <2>2. OperandAgrees' /\ OperandReported'
    BY <1>1, OperandAgreesStep, OperandReportedStep DEF QInv
  <2>3. ASSUME NEW k \in LinkKeys PROVE LinkReported(k)' /\ LinkAgrees(k)'
    BY <1>1, LinkReportedStep, LinkAgreesStep DEF QInv
  <2>4. EntriesStay'
    BY <1>1, EntriesStayStep DEF QInv
  <2>5. ASSUME NEW a \in Apps PROVE DeploymentListed(a)'
    BY <1>1, DeploymentListedStep DEF QInv
  <2>. QED
    BY <2>1, <2>2, <2>3, <2>4, <2>5 DEF QInv
<1>2. CASE UNCHANGED vars
  BY <1>2
     DEF vars, QInv, IInv, InStep, CopyHeld, OperandAgrees, OperandReported, LinkReported, LinkAgrees,
         EntriesStay, DeploymentListed, OperandPending, ConfigPending, ImportPending, LinkPending,
         LinkToImport, ListPending, Reconciles, NoneReplaces, AllSeen
<1>. QED
  BY <1>1, <1>2

LEMMA AlwaysQInv == Spec => []QInv
BY InitQInv, StepQInv, PTL DEF Spec

----------------------------------------------------------------------------
\* At rest, the ConfigMap says all that the operand imported from it declares: the
\* import (ConfigMapReconciler) and the overlay (DashboardNamespaceConfigReconciler)
\* have both seen what the other has written last, whatever users edited meanwhile.
THEOREM OperandIsApplied == Spec => []OperandApplied
<1>1. QInv => OperandApplied
  BY DEF QInv, OperandApplied, OperandAgrees, Quiescent, ImportPending, ConfigPending,
         OperandPending, CmIdle, DncIdle
<1>. QED
  BY <1>1, AlwaysQInv, PTL

\* At rest, an imported link points where the ConfigMap says, and the ConfigMap has
\* it: whether the ConfigMap, the link, or both were edited, the import and the
\* write-back (ConfigMapReconciler, DashboardLinkReconciler) end in agreement.
THEOREM ImportedLinksDoAgree == Spec => []ImportedLinksAgree
<1>1. QInv => ImportedLinksAgree
  <2>. SUFFICES ASSUME QInv, Quiescent, {"cmr", "dlr"} \subseteq Running, IsConfig(cm.obj),
                       NEW k \in LinkKeys, dls[k].obj # Absent, dls[k].obj.imported
                PROVE  EntryOf(cm.obj, k[1]).links[k[2]] = dls[k].obj.url
    BY DEF ImportedLinksAgree
  <2>1. ~ConfigPending /\ ~LinkToImport(k)
    BY DEF Quiescent, ConfigPending, LinkToImport, CmIdle
  <2>2. ~LinkPending(k)
    BY DEF Quiescent, LinkPending, Reconciles, DlIdle
  <2>. QED
    BY <2>1, <2>2 DEF QInv, LinkAgrees
<1>. QED
  BY <1>1, AlwaysQInv, PTL

\* At rest, every operand and every link is reconciled and says so: an error, a
\* refused update or a deletion under way is always followed by another reconcile.
THEOREM ReconciledIsReported == Spec => []Reported
<1>1. QInv => Reported
  <2>. SUFFICES ASSUME QInv, Quiescent PROVE Reported
    BY DEF Reported
  <2>1. ASSUME "dncr" \in Running, dnc.obj # Absent PROVE dnc.obj.ready = "True"
    BY <2>1 DEF QInv, OperandReported, OperandPending, Quiescent, DncIdle
  <2>2. ASSUME "dlr" \in Running, NEW k \in LinkKeys, dls[k].obj # Absent
        PROVE  dls[k].obj.ready = "True" /\ dls[k].obj.final /\ ~dls[k].obj.del
    <3>1. ~LinkPending(k) /\ ~Reconciles(k, {"accept"})
      BY <2>2 DEF Quiescent, LinkPending, Reconciles, DlIdle
    <3>. QED
      BY <2>2, <3>1 DEF QInv, LinkReported
  <2>. QED
    BY <2>1, <2>2 DEF Reported
<1>. QED
  BY <1>1, AlwaysQInv, PTL

\* At rest, every deployment of a labelled namespace has its entry in the ConfigMap:
\* NamespaceReconciler looks at each of them with a cache that is behind, and what
\* the other controllers write meanwhile takes no entry away.
THEOREM DeploymentsAreListed == Spec => []DeploymentsListed
<1>1. QInv => DeploymentsListed
  <2>. SUFFICES ASSUME QInv, Quiescent, "nsr" \in Running, ns.obj, EntriesLeft,
                       NEW a \in Apps, deps[a].obj # Absent
                PROVE  IsConfig(cm.obj) /\ a \in DOMAIN cm.obj
    BY DEF DeploymentsListed
  <2>1. ~ListPending(a)
    BY DEF Quiescent, ListPending, NsIdle
  <2>. QED
    BY <2>1 DEF QInv, DeploymentListed
<1>. QED
  BY <1>1, AlwaysQInv, PTL
----------------------------------------------------------------------------
(* What a step makes of the links on the server *)

\* The controllers take only links for imports that bear the name of one, and delete
\* only those; and a link whose entry DLR takes away is marked for deletion.
IsImport(l) == l # Absent /\ l.imported
OriginHeld ==
  /\ \A k \in LinkKeys : IsImport(dls[k].obj) \/ IsImport(dls[k].seen) => k \in ImportKeys
  /\ cmw.pc = "prune" => cmw.todo \subseteq ImportKeys
  /\ dlw.pc \in {"unlink", "release"} => dlw.copy.del

Erases(l, b) == l # Absent /\ b = IF l.final THEN [l EXCEPT !.del = TRUE] ELSE Absent

OperatorWrites(k, l, b) ==
  \/ l = Absent /\ k \in ImportKeys /\ \E u \in Urls : b = NewLink(u, TRUE)
  \/ l # Absent /\ l.imported /\ \E u \in Urls : b = [l EXCEPT !.url = u]
  \/ l # Absent /\ ~l.final /\ b = [l EXCEPT !.final = TRUE]
  \/ l # Absent /\ \E r \in {"True", "False"} : b = WithStatus(l, r)
  \/ l # Absent /\ l.del /\ b = Absent
  \/ k \in ImportKeys /\ Erases(l, b)

UsersWrite(l, b) ==
  \/ l = Absent /\ \E u \in Urls : b = NewLink(u, FALSE)
  \/ l # Absent /\ \E u \in Urls \cup {NoUrl} : b = [l EXCEPT !.url = u]
  \/ l # Absent /\ b = [l EXCEPT !.imported = FALSE]
  \/ Erases(l, b)

SameLinks == \A k \in LinkKeys : dls'[k].obj = dls[k].obj
OnlyLink(k) == \A j \in LinkKeys : j # k => dls'[j].obj = dls[j].obj
Disturbs == budget > 0 /\ budget' = budget - 1

\* A copy that the server accepts is the link that it has.
LEMMA LinkWrites ==
  ASSUME IInv, CopyHeld, OriginHeld, Next
  PROVE  \/ (budget' = budget \/ Disturbs) /\ SameLinks
         \/ budget' = budget /\ \E k \in LinkKeys :
              OnlyLink(k) /\ OperatorWrites(k, dls[k].obj, dls'[k].obj)
         \/ Disturbs /\ \E k \in LinkKeys : OnlyLink(k) /\ UsersWrite(dls[k].obj, dls'[k].obj)
<1>. DEFINE Goal ==
       \/ (budget' = budget \/ Disturbs) /\ SameLinks
       \/ budget' = budget /\ \E k \in LinkKeys :
            OnlyLink(k) /\ OperatorWrites(k, dls[k].obj, dls'[k].obj)
       \/ Disturbs /\ \E k \in LinkKeys : OnlyLink(k) /\ UsersWrite(dls[k].obj, dls'[k].obj)
<1>. SUFFICES Goal
  OBVIOUS
<1>d. dls \in [LinkKeys -> LinkObjects] /\ \A k \in LinkKeys :
        /\ dls[k] \in LinkObjects
        /\ dls[k].obj \in DashboardLinks \cup {Absent} /\ dls[k].seen \in DashboardLinks \cup {Absent}
        /\ Current(dls[k], "cache") => dls[k].seen = dls[k].obj /\ dls[k].obj # Absent
  BY Parts, CurrentCopies DEF IInv
<1>p. \A o, b : Put(o, b).obj = b
  BY DEF Put
<1>r. ASSUME NEW o \in LinkObjects, NEW b
      PROVE  /\ Release(o, "dlr").obj = o.obj /\ Release(Put(o, b), "dlr").obj = b
             /\ Fetch(o, "dlr").obj = o.obj /\ Deliver(o).obj = o.obj
             /\ Erase(o).obj = o.obj \/ Erases(o.obj, Erase(o).obj)
  <2>1. o = [obj |-> o.obj, seen |-> o.seen, fresh |-> o.fresh]
    BY DEF LinkObjects, ObjectsOf, ObjectType
  <2>2. Release(o, "dlr").obj = o.obj /\ Fetch(o, "dlr").obj = o.obj /\ Deliver(o).obj = o.obj
    BY <2>1 DEF Release, Fetch, Deliver
  <2>3. Release(Put(o, b), "dlr").obj = b
    BY <2>2 DEF Put, Release
  <2>. QED
    BY <1>p, <2>2, <2>3 DEF Erase, Erases
<1>k. ASSUME NEW k \in LinkKeys, NEW o, dls' = [dls EXCEPT ![k] = o]
      PROVE  /\ OnlyLink(k) /\ dls'[k].obj = o.obj
             /\ o.obj = dls[k].obj => SameLinks
  <2>1. OnlyLink(k) /\ dls'[k].obj = o.obj
    BY <1>d, <1>k DEF OnlyLink
  <2>. QED
    BY <2>1 DEF OnlyLink, SameLinks
<1>ops. ASSUME NEW k \in LinkKeys, NEW o, dls' = [dls EXCEPT ![k] = o], budget' = budget,
               o.obj = dls[k].obj \/ OperatorWrites(k, dls[k].obj, o.obj)
        PROVE  Goal
  <2>1. OnlyLink(k) /\ dls'[k].obj = o.obj /\ (o.obj = dls[k].obj => SameLinks)
    BY <1>k, <1>ops
  <2>. QED
    BY <1>ops, <2>1
<1>users. ASSUME NEW k \in LinkKeys, NEW o, dls' = [dls EXCEPT ![k] = o], Disturbs,
                 o.obj = dls[k].obj \/ UsersWrite(dls[k].obj, o.obj)
          PROVE  Goal
  <2>1. OnlyLink(k) /\ dls'[k].obj = o.obj /\ (o.obj = dls[k].obj => SameLinks)
    BY <1>k, <1>users
  <2>. QED
    BY <1>users, <2>1
<1>s. dls' = dls => SameLinks
  BY DEF SameLinks
<1>. HIDE DEF Goal
<1>0. (budget' = budget \/ Disturbs) /\ dls' = dls => Goal
  BY <1>s DEF Goal
<1>1. CASE Informers
  <2>0. budget' = budget
    BY <1>1 DEF Informers, DeliverNamespace, DeliverConfigMap, DeliverOperand, DeliverLink, DeliverDeployment
  <2>1. ASSUME NEW k \in LinkKeys, DeliverLink(k) PROVE Goal
    <3>1. dls' = [dls EXCEPT ![k] = Deliver(dls[k])] /\ Deliver(dls[k]).obj = dls[k].obj
      BY <1>d, <1>r, <2>1 DEF DeliverLink
    <3>. QED
      BY <1>ops, <2>0, <3>1
  <2>2. CASE DeliverNamespace \/ DeliverConfigMap \/ DeliverOperand \/ \E a \in Apps : DeliverDeployment(a)
    BY <1>0, <2>0, <2>2 DEF DeliverNamespace, DeliverConfigMap, DeliverOperand, DeliverDeployment
  <2>. QED
    BY <1>1, <2>1, <2>2 DEF Informers
<1>2. CASE Nsr \/ Dncr
  <2>1. dls' = dls
    BY <1>2, NsrKeeps, DncrKeeps
  <2>2. budget' = budget
    BY <1>2 DEF Nsr, NsrElse, NsrGet, NsrImport, NsrConfig,
       Dncr, DncrElse, DncrGet, DncrLabel, DncrWrite, DncrAccept, DncrReject
  <2>. QED
    BY <1>0, <2>1, <2>2
<1>3. CASE Cmr
  <2>0. budget' = budget
    BY <1>3 DEF Cmr, CmrElse, CmrGet, CmrOperand, CmrLink, CmrList, CmrPrune, CmrApply
  <2>1. CASE CmrLink
    <3>1. PICK al \in cmw.todo : cmw.pc = "links" /\
            dls' = [dls EXCEPT ![ImportOf(al)] = Save(dls[ImportOf(al)], ImportedLink(al))]
      BY <2>1 DEF CmrLink
    <3>2. cmw.config \in Configs /\ al \in LinksOf(cmw.config)
      BY <3>1 DEF IInv, CmWorkers, CmIdle
    <3>3. ImportOf(al) \in LinkKeys /\ ImportOf(al) \in ImportKeys /\ CmrUrl(al) \in Urls
      BY <3>2, ImportedLinkTyped DEF ImportKeys, ImportOf, LinksOf, CmrUrl
    <3>4. PICK k : k = ImportOf(al)
      OBVIOUS
    <3>5. PICK o : o = Save(dls[k], ImportedLink(al))
      OBVIOUS
    <3>6. CASE dls[k].seen = Absent
      <4>1. ImportedLink(al) = NewLink(CmrUrl(al), TRUE)
        BY <3>4, <3>6 DEF ImportedLink
      <4>2. \/ o.obj = dls[k].obj
            \/ dls[k].obj = Absent /\ o.obj = NewLink(CmrUrl(al), TRUE)
        BY <1>p, <3>5, <3>6, <4>1 DEF Save, Accepted
      <4>3. o.obj = dls[k].obj \/ OperatorWrites(k, dls[k].obj, o.obj)
        BY <3>3, <3>4, <4>2 DEF OperatorWrites
      <4>. QED
        BY <1>ops, <2>0, <3>1, <3>3, <3>4, <3>5, <4>3
    <3>7. CASE dls[k].seen # Absent
      <4>1. \/ ImportedLink(al) = dls[k].seen
            \/ dls[k].seen.imported /\ ImportedLink(al) = [dls[k].seen EXCEPT !.url = CmrUrl(al)]
        BY <3>4, <3>7 DEF ImportedLink
      <4>2. \/ o.obj = dls[k].obj
            \/ Current(dls[k], "cache") /\ ImportedLink(al) # dls[k].seen /\ o.obj = ImportedLink(al)
        BY <1>p, <3>5, <3>7 DEF Save, Accepted
      <4>3. o.obj = dls[k].obj \/ OperatorWrites(k, dls[k].obj, o.obj)
        BY <1>d, <3>3, <3>4, <4>1, <4>2 DEF OperatorWrites
      <4>. QED
        BY <1>ops, <2>0, <3>1, <3>3, <3>4, <3>5, <4>3
    <3>. QED
      BY <3>6, <3>7
  <2>2. CASE CmrPrune
    <3>1. PICK k \in cmw.todo : cmw.pc = "prune" /\ dls' = [dls EXCEPT ![k] = Erase(dls[k])]
      BY <2>2 DEF CmrPrune
    <3>2. k \in LinkKeys /\ k \in ImportKeys
      BY <3>1 DEF IInv, CmWorkers, CmIdle, OriginHeld
    <3>3. Erase(dls[k]).obj = dls[k].obj \/ Erases(dls[k].obj, Erase(dls[k]).obj)
      BY <1>d, <1>r, <3>2
    <3>4. Erase(dls[k]).obj = dls[k].obj \/ OperatorWrites(k, dls[k].obj, Erase(dls[k]).obj)
      BY <3>2, <3>3 DEF OperatorWrites
    <3>. QED
      BY <1>ops, <2>0, <3>1, <3>2, <3>4
  <2>3. CASE CmrGet \/ CmrOperand \/ CmrList \/ CmrApply
    BY <1>0, <2>0, <2>3 DEF CmrGet, CmrOperand, CmrList, CmrApply, CmrGoto
  <2>. QED
    BY <1>3, <2>1, <2>2, <2>3 DEF Cmr
<1>4. CASE Dlr
  <2>0. budget' = budget
    BY <1>4 DEF Dlr, DlrElse, DlrGet, DlrAddFinalizer, DlrLabel, DlrWrite, DlrAccept, DlrReject,
       DlrUnlink, DlrRelease
  <2>k. dlw # DlIdle => Key \in LinkKeys /\ dlw.copy \in DashboardLinks
    BY DEF IInv, DlWorkers, Key
  <2>i. dlw.pc # "idle" => dlw # DlIdle
    BY DEF DlIdle
  <2>1. ASSUME NEW k \in LinkKeys, DlrGet(k) PROVE Goal
    <3>1. dls' = dls \/ dls' = [dls EXCEPT ![k] = Fetch(dls[k], "dlr")]
      BY <2>1 DEF DlrGet
    <3>2. Fetch(dls[k], "dlr").obj = dls[k].obj
      BY <1>d, <1>r
    <3>. QED
      BY <1>0, <1>ops, <2>0, <3>1, <3>2
  <2>2. ASSUME Key \in LinkKeys, dls' = [dls EXCEPT ![Key] = Release(dls[Key], "dlr")] PROVE Goal
    <3>1. Release(dls[Key], "dlr").obj = dls[Key].obj
      BY <1>d, <1>r, <2>2
    <3>. QED
      BY <1>ops, <2>0, <2>2, <3>1
  <2>3. ASSUME NEW b, Key \in LinkKeys, dls' = [dls EXCEPT ![Key] = Release(Put(dls[Key], b), "dlr")],
               OperatorWrites(Key, dls[Key].obj, b)
        PROVE  Goal
    <3>1. Release(Put(dls[Key], b), "dlr").obj = b
      BY <1>d, <1>r, <2>3
    <3>2. PICK o : o = Release(Put(dls[Key], b), "dlr")
      OBVIOUS
    <3>3. dls' = [dls EXCEPT ![Key] = o] /\ OperatorWrites(Key, dls[Key].obj, o.obj)
      BY <2>3, <3>1, <3>2
    <3>. QED
      BY <1>ops, <2>0, <2>3, <3>3
  <2>4. CASE DlrAddFinalizer \/ DlrRelease
    <3>1. dlw # DlIdle /\ Key \in LinkKeys
      BY <2>4, <2>k, <2>i DEF DlrAddFinalizer, DlrRelease
    <3>2. CASE Current(dls[Key], "dlr")
      <4>1. dlw.copy = dls[Key].obj /\ dls[Key].obj # Absent
        BY <3>1, <3>2 DEF Current, CopyHeld, Key
      <4>2. CASE DlrAddFinalizer
        <5>1. OperatorWrites(Key, dls[Key].obj, [dlw.copy EXCEPT !.final = TRUE])
          BY <4>1, <4>2 DEF DlrAddFinalizer, CopyHeld, OperatorWrites
        <5>. QED
          BY <2>3, <3>1, <3>2, <4>2, <5>1 DEF DlrAddFinalizer, DlrReturn
      <4>3. CASE DlrRelease
        <5>1. OperatorWrites(Key, dls[Key].obj, Absent)
          BY <4>1, <4>3 DEF DlrRelease, OriginHeld, OperatorWrites
        <5>. QED
          BY <2>3, <3>1, <3>2, <4>3, <5>1 DEF DlrRelease, DlrReturn
      <4>. QED
        BY <2>4, <4>2, <4>3
    <3>3. CASE ~Current(dls[Key], "dlr")
      BY <2>2, <2>4, <3>1, <3>3 DEF DlrAddFinalizer, DlrRelease, DlrReturn
    <3>. QED
      BY <3>2, <3>3
  <2>5. CASE DlrAccept \/ DlrReject
    <3>1. Key \in LinkKeys
      BY <2>5, <2>k, <2>i DEF DlrAccept, DlrReject
    <3>2. CASE Current(dls[Key], "cache")
      <4>1. dls[Key].seen = dls[Key].obj /\ dls[Key].obj # Absent
        BY <1>d, <3>1, <3>2
      <4>2. PICK r \in {"True", "False"} :
              dls' = [dls EXCEPT ![Key] = Release(Put(dls[Key], WithStatus(dls[Key].seen, r)), "dlr")]
        BY <2>5, <3>2 DEF DlrAccept, DlrReject, DlrReturn
      <4>3. OperatorWrites(Key, dls[Key].obj, WithStatus(dls[Key].seen, r))
        BY <4>1 DEF OperatorWrites
      <4>. QED
        BY <2>3, <3>1, <4>2, <4>3
    <3>3. CASE ~Current(dls[Key], "cache")
      BY <2>2, <2>5, <3>1, <3>3 DEF DlrAccept, DlrReject, DlrReturn
    <3>. QED
      BY <3>2, <3>3
  <2>6. CASE DlrLabel \/ DlrWrite \/ DlrUnlink
    BY <1>0, <2>0, <2>6 DEF DlrLabel, DlrWrite, DlrUnlink, DlrGoto
  <2>. QED
    BY <1>4, <2>1, <2>4, <2>5, <2>6 DEF Dlr
<1>5. CASE UserAddsLink
  <2>1. PICK k \in LinkKeys, u \in Urls :
          dls[k].obj = Absent /\ dls' = [dls EXCEPT ![k] = Put(dls[k], NewLink(u, FALSE))] /\ Disturbs
    BY <1>5 DEF UserAddsLink, Disturb, Disturbs
  <2>2. Put(dls[k], NewLink(u, FALSE)).obj = NewLink(u, FALSE)
    BY <1>p
  <2>3. UsersWrite(dls[k].obj, Put(dls[k], NewLink(u, FALSE)).obj)
    BY <2>1, <2>2 DEF UsersWrite
  <2>. QED
    BY <1>users, <2>1, <2>3
<1>6. CASE UserEditsLink
  <2>0. Disturbs
    BY <1>6 DEF UserEditsLink, Disturb, Disturbs
  <2>1. PICK k \in LinkKeys :
          /\ dls[k].obj # Absent
          /\ \/ \E u \in Urls \cup {NoUrl} :
                  dls' = [dls EXCEPT ![k] = Put(dls[k], [dls[k].obj EXCEPT !.url = u])]
             \/ dls' = [dls EXCEPT ![k] = Put(dls[k], [dls[k].obj EXCEPT !.imported = FALSE])]
             \/ dls' = [dls EXCEPT ![k] = Erase(dls[k])]
    BY <1>6 DEF UserEditsLink
  <2>2. Erase(dls[k]).obj = dls[k].obj \/ UsersWrite(dls[k].obj, Erase(dls[k]).obj)
    BY <1>d, <1>r DEF UsersWrite
  <2>3. ASSUME NEW b, dls' = [dls EXCEPT ![k] = Put(dls[k], b)], UsersWrite(dls[k].obj, b) PROVE Goal
    <3>1. PICK o : o = Put(dls[k], b)
      OBVIOUS
    <3>2. dls' = [dls EXCEPT ![k] = o] /\ UsersWrite(dls[k].obj, o.obj)
      BY <1>p, <2>3, <3>1
    <3>. QED
      BY <1>users, <2>0, <3>2
  <2>4. /\ \A u \in Urls \cup {NoUrl} : UsersWrite(dls[k].obj, [dls[k].obj EXCEPT !.url = u])
        /\ UsersWrite(dls[k].obj, [dls[k].obj EXCEPT !.imported = FALSE])
    BY <2>1 DEF UsersWrite
  <2>. QED
    BY <1>users, <2>0, <2>1, <2>2, <2>3, <2>4
<1>7. CASE Disturbances /\ ~UserAddsLink /\ ~UserEditsLink
  <2>1. Disturbs
    BY <1>7 DEF Disturbances, Users, UserLabelsNamespace, UserEditsConfigMap, UserWritesConfigMap,
       UserEditsOperand, Rollout, Resync, Restart, Disturb, Disturbs
  <2>2. SameLinks
    BY <1>7, <1>s, RestartEnqueues DEF Disturbances, Users, UserLabelsNamespace, UserEditsConfigMap,
       UserWritesConfigMap, UserEditsOperand, Rollout, Resync, Objects, SameLinks
  <2>. QED
    BY <2>1, <2>2 DEF Goal
<1>8. CASE ApiErrors
  <2>1. Disturbs
    BY <1>8 DEF ApiErrors, NsrApiError, CmrApiError, DncrApiError, DlrApiError, Disturb, Disturbs
  <2>2. CASE NsrApiError \/ CmrApiError \/ DncrApiError
    BY <1>0, <2>1, <2>2 DEF NsrApiError, CmrApiError, DncrApiError, Objects
  <2>3. CASE DlrApiError
    <3>1. Key \in LinkKeys
      BY <2>3 DEF DlrApiError, IInv, DlWorkers, Key
    <3>2. dls' = dls \/ dls' = [dls EXCEPT ![Key] = Release(dls[Key], "dlr")]
      BY <2>3 DEF DlrApiError, DlrGoto
    <3>3. Release(dls[Key], "dlr").obj = dls[Key].obj
      BY <1>d, <1>r, <3>1
    <3>. QED
      BY <1>0, <1>users, <2>1, <3>1, <3>2, <3>3
  <2>. QED
    BY <1>8, <2>2, <2>3 DEF ApiErrors
<1>. QED
  BY <1>1, <1>2, <1>3, <1>4, <1>5, <1>6, <1>7, <1>8 DEF Next, Controllers

\* Where the cache gets what it has.
LEMMA SeenFrom ==
  ASSUME IInv, Next, NEW k \in LinkKeys
  PROVE  dls'[k].seen = dls[k].seen \/ dls'[k].seen = dls[k].obj
<1>1. CASE Informers
  <2>1. \A j \in LinkKeys : DeliverLink(j) => dls'[k] = dls[k] \/ dls'[k] = Deliver(dls[k])
    BY DEF DeliverLink, IInv
  <2>2. dls'[k] = dls[k] \/ dls'[k] = Deliver(dls[k])
    BY <1>1, <2>1 DEF Informers, DeliverNamespace, DeliverConfigMap, DeliverOperand, DeliverDeployment
  <2>. QED
    BY <2>2 DEF Deliver
<1>2. CASE Restart
  <2>1. dls'[k] = Listed(dls[k].obj)
    BY <1>2 DEF Restart
  <2>. QED
    BY <2>1 DEF Listed
<1>3. CASE ~Informers /\ ~Restart
  BY <1>3, CachesKeep DEF Cached
<1>. QED
  BY <1>1, <1>2, <1>3

LEMMA OriginHeldStep == IInv /\ CopyHeld /\ OriginHeld /\ Next => OriginHeld'
<1>. SUFFICES ASSUME IInv, CopyHeld, OriginHeld, Next PROVE OriginHeld'
  OBVIOUS
<1>1. ASSUME NEW k \in LinkKeys, IsImport(dls'[k].obj) PROVE k \in ImportKeys
  <2>0. dls[k].obj \in DashboardLinks \cup {Absent} /\ (IsImport(dls[k].obj) => k \in ImportKeys)
    BY Parts DEF IInv, OriginHeld
  <2>1. \A b : Erases(dls[k].obj, b) /\ IsImport(b) => IsImport(dls[k].obj)
    BY <2>0 DEF Erases, IsImport, DashboardLinks
  <2>2. \A u : IsImport(dls[k].obj) \/ dls[k].obj = Absent \/ ~IsImport([dls[k].obj EXCEPT !.url = u])
    BY <2>0 DEF IsImport, DashboardLinks
  <2>3. dls[k].obj # Absent => ~IsImport([dls[k].obj EXCEPT !.imported = FALSE])
    BY <2>0 DEF IsImport, DashboardLinks
  <2>4. dls[k].obj # Absent /\ IsImport([dls[k].obj EXCEPT !.final = TRUE]) => IsImport(dls[k].obj)
    BY <2>0 DEF IsImport, DashboardLinks
  <2>5. \A r : dls[k].obj # Absent /\ IsImport(WithStatus(dls[k].obj, r)) => IsImport(dls[k].obj)
    BY <2>0 DEF IsImport, WithStatus
  <2>6. ~IsImport(Absent) /\ \A u : ~IsImport(NewLink(u, FALSE))
    BY DEF IsImport, NewLink
  <2>7. OperatorWrites(k, dls[k].obj, dls'[k].obj) => k \in ImportKeys
    BY <1>1, <2>0, <2>1, <2>2, <2>4, <2>5, <2>6 DEF OperatorWrites
  <2>8. UsersWrite(dls[k].obj, dls'[k].obj) => k \in ImportKeys
    BY <1>1, <2>0, <2>1, <2>2, <2>3, <2>6 DEF UsersWrite
  <2>9. \/ dls'[k].obj = dls[k].obj \/ OperatorWrites(k, dls[k].obj, dls'[k].obj)
        \/ UsersWrite(dls[k].obj, dls'[k].obj)
    BY LinkWrites DEF SameLinks, OnlyLink
  <2>. QED
    BY <1>1, <2>0, <2>7, <2>8, <2>9
<1>2. ASSUME NEW k \in LinkKeys, IsImport(dls'[k].seen) PROVE k \in ImportKeys
  BY <1>2, SeenFrom DEF OriginHeld
<1>3. cmw'.pc = "prune" => cmw'.todo \subseteq ImportKeys
  <2>1. CASE cmw' = cmw \/ cmw' = CmIdle
    BY <2>1 DEF OriginHeld, CmIdle
  <2>2. CASE Cmr \/ CmrApiError
    <3>1. ASSUME NEW pc, NEW todo, CmrGoto(pc, todo), cmw'.pc = "prune"
          PROVE  pc = "prune" /\ cmw'.todo = todo
      BY <3>1 DEF CmrGoto, CmIdle
    <3>2. CASE CmrGet
      <4>1. cmw'.pc \in {"operand", "idle"}
        BY <3>2 DEF CmrGet, CmIdle
      <4>. QED
        BY <4>1
    <3>6. CASE CmrOperand \/ CmrLink
      <4>1. CmrFails \/ \E todo : CmrGoto("links", todo)
        BY <3>6 DEF CmrOperand, CmrLink
      <4>. QED
        BY <2>1, <3>1, <4>1 DEF CmrFails
    <3>3. CASE CmrList
      BY <3>1, <3>3 DEF CmrList, Superfluous, OriginHeld, IsImport
    <3>4. CASE CmrPrune
      BY <3>1, <3>4 DEF CmrPrune, OriginHeld
    <3>5. CASE CmrApply \/ CmrApiError
      BY <2>1, <3>1, <3>5 DEF CmrApply, CmrApiError, CmrFails
    <3>. QED
      BY <2>2, <3>2, <3>3, <3>4, <3>5, <3>6 DEF Cmr
  <2>3. CASE ~(Cmr \/ CmrApiError)
    <3>1. CASE Informers
      BY <2>1, <3>1, InformersKeep DEF Workers
    <3>2. CASE Restart
      BY <2>1, <3>2, RestartEnqueues
    <3>3. CASE Disturbances /\ ~Restart
      BY <2>1, <3>3, DisturbancesKeep DEF Workers
    <3>4. CASE (Nsr \/ NsrApiError) \/ (Dncr \/ DncrApiError) \/ (Dlr \/ DlrApiError)
      BY <2>1, <3>4, NsrKeeps, DncrKeeps, DlrKeeps
    <3>. QED
      BY <2>3, <3>1, <3>2, <3>3, <3>4, StepsAre
  <2>. QED
    BY <2>2, <2>3
<1>4. dlw'.pc \in {"unlink", "release"} => dlw'.copy.del
  <2>1. CASE dlw' = dlw \/ dlw' = DlIdle
    BY <2>1 DEF OriginHeld, DlIdle
  <2>2. CASE Dlr \/ DlrApiError
    <3>1. ASSUME NEW k \in LinkKeys, DlrGet(k), dlw'.pc \in {"unlink", "release"} PROVE dlw'.copy.del
      <4>1. CASE Branch(dls[k].seen) = "idle"
        BY <2>1, <3>1, <4>1 DEF DlrGet
      <4>2. CASE Branch(dls[k].seen) # "idle"
        BY <3>1, <4>2 DEF DlrGet, Branch
      <4>. QED
        BY <4>1, <4>2
    <3>2. ASSUME NEW pc, DlrGoto(pc), dlw # DlIdle, dlw.pc = "unlink" \/ pc \notin {"unlink", "release"}
          PROVE  dlw'.pc \in {"unlink", "release"} => dlw'.copy.del
      <4>1. dlw'.pc = pc /\ dlw'.copy = dlw.copy
        BY <3>2 DEF DlrGoto, IInv, DlWorkers
      <4>. QED
        BY <3>2, <4>1 DEF OriginHeld
    <3>3. CASE DlrLabel \/ DlrWrite \/ DlrUnlink
      <4>1. dlw.pc # "idle" => dlw # DlIdle
        BY DEF DlIdle
      <4>2. dlw # DlIdle
        BY <3>3, <4>1 DEF DlrLabel, DlrWrite, DlrUnlink
      <4>3. \/ DlrGoto("write") \/ DlrGoto("accept") \/ DlrGoto("reject")
            \/ dlw.pc = "unlink" /\ DlrGoto("release")
        BY <3>3 DEF DlrLabel, DlrWrite, DlrUnlink
      <4>. QED
        BY <3>2, <4>2, <4>3
    <3>4. CASE DlrAddFinalizer \/ DlrAccept \/ DlrReject \/ DlrRelease
      BY <2>1, <3>4 DEF DlrAddFinalizer, DlrAccept, DlrReject, DlrRelease, DlrReturn
    <3>5. CASE DlrApiError
      <4>1. dlw # DlIdle /\ (DlrGoto("reject") \/ dlw' = DlIdle)
        BY <3>5 DEF DlrApiError
      <4>. QED
        BY <2>1, <3>2, <4>1
    <3>. QED
      BY <2>2, <3>1, <3>3, <3>4, <3>5 DEF Dlr
  <2>3. CASE ~(Dlr \/ DlrApiError)
    <3>1. CASE Informers
      BY <2>1, <3>1, InformersKeep DEF Workers
    <3>2. CASE Restart
      BY <2>1, <3>2, RestartEnqueues
    <3>3. CASE Disturbances /\ ~Restart
      BY <2>1, <3>3, DisturbancesKeep DEF Workers
    <3>4. CASE (Nsr \/ NsrApiError) \/ (Dncr \/ DncrApiError) \/ (Cmr \/ CmrApiError)
      BY <2>1, <3>4, NsrKeeps, DncrKeeps, CmrKeeps
    <3>. QED
      BY <2>3, <3>1, <3>2, <3>3, <3>4, StepsAre
  <2>. QED
    BY <2>2, <2>3
<1>. QED
  BY <1>1, <1>2, <1>3, <1>4 DEF OriginHeld

----------------------------------------------------------------------------
(* The links on the server have the lifecycle of LinkLifecycle *)

\* Link l as a user sees it.
LinkAs(l) ==
  IF l = Absent THEN [phase |-> "absent", content |-> Absent, imported |-> FALSE]
  ELSE [phase |-> PhaseOf(l), content |-> l.url, imported |-> l.imported]
Seen == [k \in LinkKeys |-> LinkAs(dls[k].obj)]

\* A link that is adopted says what it said, but for its origin.
LEMMA DisownedIs ==
  ASSUME NEW l, NEW p, NEW c, NEW i \in BOOLEAN,
         l = [phase |-> p, content |-> c, imported |-> i]
  PROVE  [l EXCEPT !.imported = FALSE] = [phase |-> p, content |-> c, imported |-> FALSE]
<1>1. PICK j \in BOOLEAN : j = FALSE
  OBVIOUS
<1>2. [l EXCEPT !.imported = j] = [phase |-> p, content |-> c, imported |-> j]
  OBVIOUS
<1>. QED
  BY <1>1, <1>2, Zenon

\* What an edit of the link changes of what is seen of it.
LEMMA LinkAsEdited ==
  ASSUME NEW l \in DashboardLinks
  PROVE  /\ l # Absent
         /\ LinkAs(l) = [phase |-> PhaseOf(l), content |-> l.url, imported |-> l.imported]
         /\ \A u \in Urls \cup {NoUrl} :
              LinkAs([l EXCEPT !.url = u]) = [LinkAs(l) EXCEPT !.content = u]
         /\ LinkAs([l EXCEPT !.imported = FALSE]) = [LinkAs(l) EXCEPT !.imported = FALSE]
         /\ \A r \in {"True", "False"} : LinkAs(WithStatus(l, r)) = LinkAs(l)
         /\ ~l.del => LinkAs([l EXCEPT !.final = TRUE]) = [LinkAs(l) EXCEPT !.phase = "kept"]
         /\ LinkAs([l EXCEPT !.del = TRUE]) = [LinkAs(l) EXCEPT !.phase = "going"]
<1>a. l # Absent
  BY ClusterAbsentAssumption
<1>is. ASSUME NEW b \in DashboardLinks
       PROVE  b # Absent /\ LinkAs(b) = [phase |-> PhaseOf(b), content |-> b.url, imported |-> b.imported]
  BY ClusterAbsentAssumption DEF LinkAs
<1>1. ASSUME NEW u \in Urls \cup {NoUrl}
      PROVE  LinkAs([l EXCEPT !.url = u]) = [LinkAs(l) EXCEPT !.content = u]
  <2>. DEFINE b == [l EXCEPT !.url = u]
  <2>1. b \in DashboardLinks /\ b # Absent
    BY LinkParts, <1>is
  <2>2. PhaseOf(b) = PhaseOf(l) /\ b.url = u /\ b.imported = l.imported
    BY <1>a, <2>1 DEF PhaseOf, DashboardLinks
  <2>3. LinkAs(b) = [phase |-> PhaseOf(l), content |-> u, imported |-> l.imported]
    BY <1>is, <2>1, <2>2
  <2>. HIDE DEF b
  <2>4. LinkAs(b) = [LinkAs(l) EXCEPT !.content = u]
    BY <1>is, <2>3
  <2>. QED
    BY <2>4 DEF b
<1>2. LinkAs([l EXCEPT !.imported = FALSE]) = [LinkAs(l) EXCEPT !.imported = FALSE]
  <2>. DEFINE b == [l EXCEPT !.imported = FALSE]
  <2>1. b \in DashboardLinks /\ b # Absent
    BY LinkParts, <1>is
  <2>2. PhaseOf(b) = PhaseOf(l) /\ b.url = l.url /\ b.imported = FALSE
    BY <1>a, <2>1 DEF PhaseOf, DashboardLinks
  <2>3. LinkAs(b) = [phase |-> PhaseOf(b), content |-> b.url, imported |-> b.imported]
    BY <1>is, <2>1
  <2>4. LinkAs(b) = [phase |-> PhaseOf(l), content |-> l.url, imported |-> FALSE]
    BY <2>2, <2>3, Zenon
  <2>5. l.imported \in BOOLEAN
    BY DEF DashboardLinks
  <2>6. [LinkAs(l) EXCEPT !.imported = FALSE] =
          [phase |-> PhaseOf(l), content |-> l.url, imported |-> FALSE]
    BY <1>is, <2>5, DisownedIs
  <2>. QED
    BY <2>4, <2>6
<1>3. ASSUME NEW r \in {"True", "False"} PROVE LinkAs(WithStatus(l, r)) = LinkAs(l)
  <2>1. WithStatus(l, r) \in DashboardLinks
    BY LinkParts
  <2>. QED
    BY <1>a, <1>is, <2>1 DEF WithStatus, LinkAs, PhaseOf
<1>4. ASSUME NEW b \in DashboardLinks, b.url = l.url, b.imported = l.imported, NEW p, PhaseOf(b) = p
      PROVE  LinkAs(b) = [LinkAs(l) EXCEPT !.phase = p]
  BY <1>is, <1>4
<1>5. ASSUME ~l.del PROVE LinkAs([l EXCEPT !.final = TRUE]) = [LinkAs(l) EXCEPT !.phase = "kept"]
  <2>. DEFINE b == [l EXCEPT !.final = TRUE]
  <2>1. b \in DashboardLinks /\ b # Absent
    BY LinkParts, <1>is
  <2>2. b.url = l.url /\ b.imported = l.imported /\ PhaseOf(b) = "kept"
    BY <1>5, <2>1 DEF PhaseOf, DashboardLinks
  <2>. HIDE DEF b
  <2>3. LinkAs(b) = [LinkAs(l) EXCEPT !.phase = "kept"]
    BY <1>4, <2>1, <2>2
  <2>. QED
    BY <2>3 DEF b
<1>6. LinkAs([l EXCEPT !.del = TRUE]) = [LinkAs(l) EXCEPT !.phase = "going"]
  <2>. DEFINE b == [l EXCEPT !.del = TRUE]
  <2>1. b \in DashboardLinks
    BY DEF DashboardLinks
  <2>2. b.url = l.url /\ b.imported = l.imported /\ PhaseOf(b) = "going"
    BY <1>is, <2>1 DEF PhaseOf, DashboardLinks
  <2>. HIDE DEF b
  <2>3. LinkAs(b) = [LinkAs(l) EXCEPT !.phase = "going"]
    BY <1>4, <2>1, <2>2
  <2>. QED
    BY <2>3 DEF b
<1>. QED
  BY <1>a, <1>is, <1>1, <1>2, <1>3, <1>5, <1>6

\* What a write has to show for each step of the lifecycle.
LEMMA LifecycleSteps ==
  ASSUME NEW k \in LinkKeys, OnlyLink(k)
  PROVE  LET was == LinkAs(dls[k].obj)
             is == LinkAs(dls'[k].obj)
         IN  /\ is = was => UNCHANGED Seen
             /\ was.phase = "absent" =>
                  /\ k \in ImportKeys /\ (\E u \in Urls : is = [phase |-> "new", content |-> u, imported |-> TRUE])
                       => Lifecycle!Import(k)
                  /\ (\E u \in Urls : is = [phase |-> "new", content |-> u, imported |-> FALSE])
                       => Lifecycle!Create(k)
             /\ was.phase \in {"new", "kept", "going"} =>
                  /\ (\E u \in Urls \cup {NoUrl} : is = [was EXCEPT !.content = u])
                       => Lifecycle!Edit(k) /\ (was.imported => Lifecycle!Refresh(k))
                  /\ is = [was EXCEPT !.imported = FALSE] => Lifecycle!Adopt(k)
             /\ was.phase = "new" /\ is = [was EXCEPT !.phase = "kept"] => Lifecycle!Finalize(k)
             /\ was.phase = "going" /\ is = LinkAs(Absent) => Lifecycle!Remove(k)
             /\ was.phase = "new" /\ is = LinkAs(Absent) => Lifecycle!Erase(k)
             /\ was.phase = "kept" /\ is = [was EXCEPT !.phase = "going"] => Lifecycle!Erase(k)
<1>. DEFINE was == LinkAs(dls[k].obj)
            is == LinkAs(dls'[k].obj)
<1>1. Seen[k] = was /\ Seen' = [Seen EXCEPT ![k] = is]
  BY DEF Seen, OnlyLink
<1>2. is = was => UNCHANGED Seen
  BY DEF Seen, OnlyLink
<1>. HIDE DEF was, is
<1>. USE DEF Lifecycle!Is, Lifecycle!Becomes
<1>3. ASSUME was.phase = "absent", k \in ImportKeys, NEW u \in Urls,
             is = [phase |-> "new", content |-> u, imported |-> TRUE]
      PROVE  Lifecycle!Import(k)
  BY <1>1, <1>3 DEF Lifecycle!Import, Lifecycle!New, Seen, LinkAs
<1>4. ASSUME was.phase = "absent", NEW u \in Urls,
             is = [phase |-> "new", content |-> u, imported |-> FALSE]
      PROVE  Lifecycle!Create(k)
  BY <1>1, <1>4 DEF Lifecycle!Create, Lifecycle!New, Seen, LinkAs
<1>5. ASSUME was.phase \in {"new", "kept", "going"}, NEW u \in Urls \cup {NoUrl},
             is = [was EXCEPT !.content = u]
      PROVE  Lifecycle!Edit(k) /\ (was.imported => Lifecycle!Refresh(k))
  BY <1>1, <1>5 DEF Lifecycle!Edit, Lifecycle!Refresh, Lifecycle!Says, Lifecycle!There, Seen, LinkAs
<1>6. ASSUME was.phase \in {"new", "kept", "going"}, is = [was EXCEPT !.imported = FALSE]
      PROVE  Lifecycle!Adopt(k)
  BY <1>1, <1>6 DEF Lifecycle!Adopt, Lifecycle!There, Seen, LinkAs
<1>7. was.phase = "new" /\ is = [was EXCEPT !.phase = "kept"] => Lifecycle!Finalize(k)
  BY <1>1 DEF Lifecycle!Finalize, Seen, LinkAs
<1>8. was.phase = "going" /\ is = LinkAs(Absent) => Lifecycle!Remove(k)
  BY <1>1 DEF Lifecycle!Remove, Lifecycle!Gone, Seen, LinkAs
<1>9. was.phase = "new" /\ is = LinkAs(Absent) => Lifecycle!Erase(k)
  BY <1>1 DEF Lifecycle!Erase, Lifecycle!Gone, Seen, LinkAs
<1>10. was.phase = "kept" /\ is = [was EXCEPT !.phase = "going"] => Lifecycle!Erase(k)
  BY <1>1 DEF Lifecycle!Erase, Seen, LinkAs
<1>. QED
  BY <1>2, <1>3, <1>4, <1>5, <1>6, <1>7, <1>8, <1>9, <1>10 DEF was, is

\* What is seen of a link, by what it is.
LEMMA PhasesAre ==
  /\ LinkAs(Absent).phase = "absent"
  /\ \A u \in Urls, i \in BOOLEAN :
       LinkAs(NewLink(u, i)) = [phase |-> "new", content |-> u, imported |-> i]
  /\ \A l \in DashboardLinks :
       /\ LinkAs(l).phase = IF l.del THEN "going" ELSE IF l.final THEN "kept" ELSE "new"
       /\ LinkAs(l).imported = l.imported
<1>1. LinkAs(Absent).phase = "absent"
  BY DEF LinkAs
<1>2. ASSUME NEW l \in DashboardLinks
      PROVE  /\ LinkAs(l).phase = IF l.del THEN "going" ELSE IF l.final THEN "kept" ELSE "new"
             /\ LinkAs(l).imported = l.imported
  BY ClusterAbsentAssumption DEF LinkAs, PhaseOf
<1>3. ASSUME NEW u \in Urls, NEW i \in BOOLEAN
      PROVE  LinkAs(NewLink(u, i)) = [phase |-> "new", content |-> u, imported |-> i]
  <2>1. NewLink(u, i) \in DashboardLinks
    BY NewBodies
  <2>. QED
    BY <2>1, ClusterAbsentAssumption DEF LinkAs, PhaseOf, NewLink
<1>. QED
  BY <1>1, <1>2, <1>3

\* What a controller or a user writes is a step in the life of the link, or none.
LEMMA WritesLive ==
  ASSUME IInv, CopyHeld, NEW k \in LinkKeys, OnlyLink(k)
  PROVE  /\ OperatorWrites(k, dls[k].obj, dls'[k].obj) =>
              \/ Lifecycle!Import(k) \/ Lifecycle!Refresh(k) \/ Lifecycle!Finalize(k)
              \/ Lifecycle!Remove(k) \/ (k \in ImportKeys /\ Lifecycle!Erase(k)) \/ UNCHANGED Seen
         /\ UsersWrite(dls[k].obj, dls'[k].obj) =>
              \/ Lifecycle!Create(k) \/ Lifecycle!Edit(k) \/ Lifecycle!Adopt(k)
              \/ Lifecycle!Erase(k) \/ UNCHANGED Seen
<1>. DEFINE l == dls[k].obj
            b == dls'[k].obj
<1>a. l \in DashboardLinks \cup {Absent} /\ (l # Absent /\ l.del => l.final)
  BY Parts DEF IInv, CopyHeld
<1>l. l # Absent => LinkAs(l).phase = IF l.del THEN "going" ELSE IF l.final THEN "kept" ELSE "new"
  BY <1>a, PhasesAre
<1>1. ASSUME l = Absent, NEW u \in Urls, NEW i \in BOOLEAN, b = NewLink(u, i)
      PROVE  /\ i /\ k \in ImportKeys => Lifecycle!Import(k)
             /\ ~i => Lifecycle!Create(k)
  <2>1. LinkAs(l).phase = "absent" /\ LinkAs(b) = [phase |-> "new", content |-> u, imported |-> i]
    BY <1>1, PhasesAre
  <2>2. CASE i = TRUE
    <3>1. LinkAs(b) = [phase |-> "new", content |-> u, imported |-> TRUE]
      BY <2>1, <2>2, Zenon
    <3>. QED
      BY <2>1, <2>2, <3>1, LifecycleSteps
  <2>3. CASE i = FALSE
    <3>1. LinkAs(b) = [phase |-> "new", content |-> u, imported |-> FALSE]
      BY <2>1, <2>3, Zenon
    <3>. QED
      BY <2>1, <2>3, <3>1, LifecycleSteps
  <2>. QED
    BY <2>2, <2>3
<1>2. ASSUME l # Absent, NEW u \in Urls \cup {NoUrl}, b = [l EXCEPT !.url = u]
      PROVE  Lifecycle!Edit(k) /\ (l.imported => Lifecycle!Refresh(k))
  <2>l. l \in DashboardLinks
    BY <1>a, <1>2
  <2>0. LinkAs([l EXCEPT !.url = u]) = [LinkAs(l) EXCEPT !.content = u]
    BY <2>l, LinkAsEdited
  <2>1. LinkAs(b) = [LinkAs(l) EXCEPT !.content = u] /\ LinkAs(l).imported = l.imported
    BY <1>2, <2>l, <2>0, PhasesAre
  <2>2. LinkAs(l).phase \in {"new", "kept", "going"}
    BY <1>2, <1>l
  <2>. QED
    BY <2>1, <2>2, LifecycleSteps
<1>3. ASSUME l # Absent, b = [l EXCEPT !.imported = FALSE]
      PROVE  Lifecycle!Adopt(k)
  <2>1. LinkAs(b) = [LinkAs(l) EXCEPT !.imported = FALSE]
    BY <1>a, <1>3, LinkAsEdited
  <2>2. LinkAs(l).phase \in {"new", "kept", "going"}
    BY <1>3, <1>l
  <2>. QED
    BY <2>1, <2>2, LifecycleSteps
<1>4. ASSUME l # Absent, ~l.final, b = [l EXCEPT !.final = TRUE]
      PROVE  Lifecycle!Finalize(k)
  <2>1. ~l.del /\ LinkAs(l).phase = "new"
    BY <1>a, <1>l, <1>4
  <2>2. LinkAs(b) = [LinkAs(l) EXCEPT !.phase = "kept"]
    BY <1>a, <1>4, <2>1, LinkAsEdited
  <2>. QED
    BY <2>1, <2>2, LifecycleSteps
<1>5. ASSUME l # Absent, NEW r \in {"True", "False"}, b = WithStatus(l, r)
      PROVE  UNCHANGED Seen
  <2>l. l \in DashboardLinks
    BY <1>a, <1>5
  <2>0. LinkAs(WithStatus(l, r)) = LinkAs(l)
    BY <2>l, LinkAsEdited
  <2>1. LinkAs(b) = LinkAs(l)
    BY <1>5, <2>0
  <2>. QED
    BY <2>1, LifecycleSteps
<1>6. ASSUME l # Absent, l.del, b = Absent
      PROVE  Lifecycle!Remove(k)
  BY <1>l, <1>6, LifecycleSteps
<1>7. ASSUME Erases(l, b)
      PROVE  Lifecycle!Erase(k) \/ UNCHANGED Seen
  <2>0. l # Absent /\ l \in DashboardLinks /\ b = IF l.final THEN [l EXCEPT !.del = TRUE] ELSE Absent
    BY <1>a, <1>7 DEF Erases
  <2>1. CASE ~l.final
    <3>1. LinkAs(l).phase = "new" /\ LinkAs(b) = LinkAs(Absent)
      BY <1>a, <1>l, <2>0, <2>1
    <3>. QED
      BY <3>1, LifecycleSteps
  <2>2. CASE l.final /\ ~l.del
    <3>1. LinkAs(l).phase = "kept" /\ LinkAs(b) = [LinkAs(l) EXCEPT !.phase = "going"]
      BY <1>l, <2>0, <2>2, LinkAsEdited
    <3>. QED
      BY <3>1, LifecycleSteps
  <2>3. CASE l.final /\ l.del
    <3>1. b = l
      BY <2>0, <2>3 DEF DashboardLinks
    <3>. QED
      BY <3>1, LifecycleSteps
  <2>. QED
    BY <2>1, <2>2, <2>3
<1>. QED
  BY <1>1, <1>2, <1>3, <1>4, <1>5, <1>6, <1>7 DEF OperatorWrites, UsersWrite

LEMMA LifecycleStep ==
  ASSUME IInv, CopyHeld, OriginHeld, Next
  PROVE  Lifecycle!Next \/ UNCHANGED <<Seen, budget>>
<1>1. CASE (budget' = budget \/ Disturbs) /\ SameLinks
  <2>1. UNCHANGED Seen
    BY <1>1 DEF SameLinks, Seen
  <2>. QED
    BY <1>1, <2>1 DEF Disturbs, Lifecycle!Next, Lifecycle!Users, Seen, LinkAs
<1>2. ASSUME budget' = budget, NEW k \in LinkKeys, OnlyLink(k),
             OperatorWrites(k, dls[k].obj, dls'[k].obj)
      PROVE  Lifecycle!Next \/ UNCHANGED <<Seen, budget>>
  <2>1. \/ Lifecycle!Import(k) \/ Lifecycle!Refresh(k) \/ Lifecycle!Finalize(k)
        \/ Lifecycle!Remove(k) \/ Lifecycle!Prune(k) \/ UNCHANGED Seen
    BY <1>2, WritesLive DEF Lifecycle!Prune
  <2>. QED
    BY <1>2, <2>1 DEF Lifecycle!Next, Lifecycle!Operator
<1>3. ASSUME Disturbs, NEW k \in LinkKeys, OnlyLink(k), UsersWrite(dls[k].obj, dls'[k].obj)
      PROVE  Lifecycle!Next \/ UNCHANGED <<Seen, budget>>
  <2>1. \/ Lifecycle!Create(k) \/ Lifecycle!Edit(k) \/ Lifecycle!Adopt(k)
        \/ Lifecycle!Erase(k) \/ UNCHANGED Seen
    BY <1>3, WritesLive
  <2>2. CASE UNCHANGED Seen
    BY <1>3, <2>2 DEF Disturbs, Lifecycle!Next, Lifecycle!Users, Seen, LinkAs
  <2>. QED
    BY <1>3, <2>1, <2>2 DEF Disturbs, Lifecycle!Next, Lifecycle!Users
<1>. QED
  BY <1>1, <1>2, <1>3, LinkWrites

LEMMA InitOriginHeld == Init => OriginHeld
BY DEF Init, OriginHeld, Listed, IsImport, CmIdle, DlIdle

LEMMA AlwaysOriginHeld == Spec => []OriginHeld
<1>1. IInv /\ CopyHeld /\ OriginHeld /\ [Next]_vars => OriginHeld'
  <2>1. OriginHeld /\ UNCHANGED vars => OriginHeld'
    BY DEF vars, OriginHeld
  <2>. QED
    BY <2>1, OriginHeldStep
<1>2. QInv => IInv /\ CopyHeld
  BY DEF QInv
<1>. QED
  BY <1>1, <1>2, InitOriginHeld, AlwaysQInv, PTL DEF Spec

\* Whatever four controllers, users, failing calls and restarts do in whatever order,
\* each link on the server lives the life that LinkLifecycle gives it, and no other.
THEOREM LinksHaveLifecycle == Spec => HasLifecycle
<1>1. Init => Lifecycle!Init
  BY ClusterDisturbancesAssumption DEF Init, Listed, Lifecycle!Init, Lifecycle!Gone
<1>2. QInv => IInv /\ CopyHeld
  BY DEF QInv
<1>3. ASSUME IInv, CopyHeld, OriginHeld, [Next]_vars
      PROVE  [Lifecycle!Next]_<<[k \in LinkKeys |->
                IF dls[k].obj = Absent
                  THEN [phase |-> "absent", content |-> Absent, imported |-> FALSE]
                  ELSE [phase |-> PhaseOf(dls[k].obj), content |-> dls[k].obj.url,
                        imported |-> dls[k].obj.imported]], budget>>
  <2>1. CASE UNCHANGED vars
    BY <2>1 DEF vars, PhaseOf
  <2>2. CASE Next
    BY <1>3, <2>2, LifecycleStep DEF Seen, LinkAs
  <2>. QED
    BY <1>3, <2>1, <2>2
<1>. QED
  BY <1>1, <1>2, <1>3, AlwaysQInv, AlwaysOriginHeld, PTL DEF Spec, HasLifecycle, Lifecycle!Spec
----------------------------------------------------------------------------
(* Groups of an operand imported from deployments *)

Untouched == "operand" \notin Kinds \/ ~DisturbedYet
HasGroups == {"displayName", "appGroup"} \subseteq Fields

\* No app is grouped by the display name of another.
GroupsNamed(apps) ==
  \A a, b \in DOMAIN apps :
    apps[a].text["appGroup"] = apps[b].text["displayName"]
      => apps[a].text["appGroup"] \in DOMAIN apps
Normal(d) == HasGroups /\ d # Absent /\ d.source = "live" => GroupsNamed(d.spec.apps)

\* An update rests on the cached copy, which the invariant says the same of.
NormalHeld == Untouched => Normal(dnc.obj) /\ Normal(dnc.seen)

\* The import gives a display name of an app to no group: it takes the deployment
\* of that name in its place.
LEMMA LiveSpecNamed ==
  ASSUME HasGroups, NEW m \in Namings
  PROVE  GroupsNamed(LiveSpec(m).apps)
<1>. DEFINE apps == [a \in LiveApps |-> Normalized(AppConfigOf(a), m)]
<1>1. LiveSpec(m).apps = apps /\ DOMAIN apps = LiveApps
  BY DEF LiveSpec, ImportedSpec
<1>2. m \in [DisplayNames -> LiveApps]
      /\ DisplayNames = {AppConfigOf(a).text["displayName"] : a \in LiveApps}
  BY DEF Namings, DisplayNames, HasGroups
<1>3. ASSUME NEW a \in LiveApps
      PROVE  /\ apps[a].text["displayName"] = AppConfigOf(a).text["displayName"]
             /\ \/ apps[a].text["appGroup"] \in LiveApps
                \/ apps[a].text["appGroup"] \notin DisplayNames
  <2>1. apps[a].text = [f \in Fields |->
          IF f = "appGroup" /\ AppConfigOf(a).text[f] \in DOMAIN m
            THEN m[AppConfigOf(a).text[f]] ELSE AppConfigOf(a).text[f]]
    BY DEF Normalized
  <2>2. "displayName" \in Fields /\ "appGroup" \in Fields
    BY DEF HasGroups
  <2>3. apps[a].text["displayName"] = AppConfigOf(a).text["displayName"]
    BY <2>1, <2>2
  <2>4. apps[a].text["appGroup"] =
          IF AppConfigOf(a).text["appGroup"] \in DisplayNames
            THEN m[AppConfigOf(a).text["appGroup"]] ELSE AppConfigOf(a).text["appGroup"]
    BY <1>2, <2>1, <2>2
  <2>. QED
    BY <1>2, <2>3, <2>4
<1>. HIDE DEF apps
<1>4. ASSUME NEW a \in LiveApps, NEW b \in LiveApps,
             apps[a].text["appGroup"] = apps[b].text["displayName"]
      PROVE  apps[a].text["appGroup"] \in LiveApps
  BY <1>2, <1>3, <1>4
<1>. QED
  BY <1>1, <1>4 DEF GroupsNamed

LEMMA OpsNormal ==
  ASSUME NEW o, NEW b, Normal(o.obj), Normal(o.seen), Normal(b)
  PROVE  /\ Normal(Put(o, b).obj) /\ Normal(Put(o, b).seen)
         /\ Normal(Save(o, b).obj) /\ Normal(Save(o, b).seen)
         /\ Normal(Deliver(o).obj) /\ Normal(Deliver(o).seen)
BY DEF Put, Save, Deliver

\* Every step keeps the budget or spends of it.
LEMMA BudgetFalls == IInv /\ Next => budget' = budget \/ \E kind : Disturb(kind)
<1>. SUFFICES ASSUME IInv, Next PROVE budget' = budget \/ \E kind : Disturb(kind)
  OBVIOUS
<1>1. CASE Informers
  BY <1>1 DEF Informers, DeliverNamespace, DeliverConfigMap, DeliverOperand, DeliverLink, DeliverDeployment
<1>2. CASE Nsr \/ Dncr
  BY <1>2 DEF Nsr, NsrElse, NsrGet, NsrImport, NsrConfig,
     Dncr, DncrElse, DncrGet, DncrLabel, DncrWrite, DncrAccept, DncrReject
<1>3. CASE Cmr
  BY <1>3 DEF Cmr, CmrElse, CmrGet, CmrOperand, CmrLink, CmrList, CmrPrune, CmrApply
<1>4. CASE Dlr
  BY <1>4 DEF Dlr, DlrElse, DlrGet, DlrAddFinalizer, DlrLabel, DlrWrite, DlrAccept, DlrReject,
     DlrUnlink, DlrRelease
<1>5. CASE ApiErrors
  BY <1>5 DEF ApiErrors, NsrApiError, CmrApiError, DncrApiError, DlrApiError
<1>6. CASE Disturbances
  BY <1>6 DEF Disturbances, Users, UserLabelsNamespace, UserEditsConfigMap, UserWritesConfigMap,
     UserEditsOperand, UserAddsLink, UserEditsLink, Rollout, Resync, Restart
<1>. QED
  BY <1>1, <1>2, <1>3, <1>4, <1>5, <1>6 DEF Next, Controllers

LEMMA UntouchedBefore == IInv /\ Next /\ Untouched' => Untouched /\ ~UserEditsOperand
<1>1. IInv /\ Next => budget' = budget \/ (budget > 0 /\ budget' = budget - 1)
  BY BudgetFalls DEF Disturb
<1>2. IInv => budget \in 0 .. MaxDisturbances /\ MaxDisturbances \in Nat
  BY ClusterDisturbancesAssumption DEF IInv
<1>3. UserEditsOperand => "operand" \in Kinds /\ budget > 0 /\ budget' = budget - 1
  BY DEF UserEditsOperand, Disturb
<1>. QED
  BY <1>1, <1>2, <1>3 DEF Untouched, DisturbedYet

LEMMA NormalHeldStep == IInv /\ NormalHeld /\ Next => NormalHeld'
<1>. SUFFICES ASSUME IInv, NormalHeld, Next, Untouched'
              PROVE  Normal(dnc'.obj) /\ Normal(dnc'.seen)
  BY DEF NormalHeld, Normal, HasGroups, GroupsNamed
<1>0. Normal(dnc.obj) /\ Normal(dnc.seen) /\ ~UserEditsOperand
  BY UntouchedBefore DEF NormalHeld
<1>1. Normal(Absent)
  BY DEF Normal
<1>2. ASSUME NEW b, Normal(b), dnc' = Put(dnc, b) \/ dnc' = Save(dnc, b) \/ dnc' = Deliver(dnc)
      PROVE  Normal(dnc'.obj) /\ Normal(dnc'.seen)
  BY <1>0, <1>2, OpsNormal
<1>3. CASE Informers
  BY <1>0, <1>1, <1>2, <1>3 DEF Informers, DeliverNamespace, DeliverConfigMap, DeliverOperand,
       DeliverLink, DeliverDeployment
<1>4. CASE Restart
  BY <1>0, <1>4, RestartEnqueues
<1>5. CASE Disturbances /\ ~Restart
  BY <1>0, <1>5 DEF Disturbances, Users, UserLabelsNamespace, UserEditsConfigMap,
       UserWritesConfigMap, UserAddsLink, UserEditsLink, Rollout, Resync, Objects
<1>6. CASE Nsr \/ NsrApiError
  <2>1. ASSUME NEW m \in Namings PROVE Normal(LiveOperand(m))
    BY <1>0, LiveSpecNamed DEF Normal, LiveOperand, NewOperand
  <2>. QED
    BY <1>0, <1>2, <1>6, <2>1 DEF Nsr, NsrGet, NsrImport, NsrConfig, NsrElse, NsrApiError, Objects
<1>7. CASE Cmr \/ CmrApiError
  <2>1. Normal(ImportedOperand)
    BY <1>0 DEF Normal, ImportedOperand, NewOperand
  <2>. QED
    BY <1>0, <1>2, <1>7, <2>1
       DEF Cmr, CmrGet, CmrOperand, CmrLink, CmrList, CmrPrune, CmrApply, CmrElse, CmrApiError, Objects
<1>8. CASE Dncr \/ DncrApiError
  <2>1. ASSUME NEW r, DncrStatus(r) PROVE Normal(dnc'.obj) /\ Normal(dnc'.seen)
    <3>1. CASE Current(dnc, "cache")
      <4>1. dnc.seen = dnc.obj /\ dnc.obj # Absent
        BY <3>1, CurrentCopies DEF IInv
      <4>2. Normal([spec |-> dnc.seen.spec, source |-> dnc.seen.source, ready |-> r])
        BY <1>0, <4>1 DEF Normal
      <4>. QED
        BY <1>2, <2>1, <3>1, <4>2 DEF DncrStatus
    <3>. QED
      BY <1>0, <2>1, <3>1 DEF DncrStatus
  <2>. QED
    BY <1>0, <1>8, <2>1
       DEF Dncr, DncrGet, DncrLabel, DncrWrite, DncrAccept, DncrReject, DncrGoto, DncrApiError, Objects
<1>9. CASE Dlr \/ DlrApiError
  BY <1>0, <1>9, DlrKeeps
<1>. QED
  BY <1>3, <1>4, <1>5, <1>6, <1>7, <1>8, <1>9, StepsAre

\* While users leave the operand alone, it groups no app by the display name of
\* another: what NSR writes is what it has normalized, and the status of the
\* operand is written on a copy of that.
THEOREM GroupsAreNormalized == Spec => []GroupsNormalized
<1>1. Init => NormalHeld
  BY DEF Init, Listed, NormalHeld, Normal
<1>2. IInv /\ NormalHeld /\ [Next]_vars => NormalHeld'
  <2>1. UNCHANGED vars /\ NormalHeld => NormalHeld'
    BY DEF vars, NormalHeld, Untouched, DisturbedYet, Normal, HasGroups, GroupsNamed
  <2>. QED
    BY <2>1, NormalHeldStep
<1>3. NormalHeld => GroupsNormalized
  BY DEF NormalHeld, Normal, Untouched, HasGroups, GroupsNamed, GroupsNormalized
<1>4. Spec => []IInv
  BY InitIInv, StepIInv, PTL DEF Spec
<1>. QED
  BY <1>1, <1>2, <1>3, <1>4, PTL DEF Spec
=============================================================================
