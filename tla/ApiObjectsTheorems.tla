------------------------ MODULE ApiObjectsTheorems ------------------------
(* Facts about the operators of ApiObjects, cited by the proofs.           *)
EXTENDS ApiObjects, TLAPS

\* Every operation keeps the type of an object.
LEMMA ObjectOps ==
  ASSUME NEW Body, NEW Holders, NEW o \in ObjectType(Body, Holders),
         NEW b \in Body \cup {Absent}, NEW h \in Holders, "cache" \in Holders
  PROVE  /\ Listed(b) \in ObjectType(Body, Holders)
         /\ Put(o, b) \in ObjectType(Body, Holders)
         /\ Deliver(o) \in ObjectType(Body, Holders)
         /\ Fetch(o, h) \in ObjectType(Body, Holders)
         /\ Release(o, h) \in ObjectType(Body, Holders)
BY DEF ObjectType, Listed, Put, Deliver, Fetch, Release

\* What a write leaves: the new body on the server, the cache untouched, and
\* no copy current unless nothing changed.
LEMMA PutEffect ==
  ASSUME NEW Body, NEW Holders, NEW o \in ObjectType(Body, Holders), NEW b
  PROVE  /\ Put(o, b).obj = b
         /\ Put(o, b).seen = o.seen
         /\ b = o.obj => Put(o, b) = o
         /\ b # o.obj => Put(o, b).fresh = {}
BY DEF ObjectType, Put

\* Delivering, fetching and releasing do not touch the server.
LEMMA ReadEffect ==
  ASSUME NEW Body, NEW Holders, NEW o \in ObjectType(Body, Holders), NEW w
  PROVE  /\ Deliver(o).obj = o.obj /\ Deliver(o).seen = o.obj
         /\ Deliver(o).fresh = o.fresh \cup {"cache"}
         /\ Fetch(o, w).obj = o.obj /\ Fetch(o, w).seen = o.seen
         /\ "cache" \in o.fresh => Fetch(o, w).fresh = o.fresh \cup {w}
         /\ "cache" \notin o.fresh => Fetch(o, w).fresh = o.fresh \ {w}
         /\ Release(o, w).obj = o.obj /\ Release(o, w).seen = o.seen
         /\ Release(o, w).fresh = o.fresh \ {w}
BY DEF ObjectType, Deliver, Fetch, Release
============================================================================
