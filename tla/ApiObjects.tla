---------------------------- MODULE ApiObjects ----------------------------
(***************************************************************************)
(* What the controllers see of the Kubernetes API server and of the        *)
(* informer caches of controller-runtime: operators on one object.         *)
(*                                                                         *)
(* An object is a record                                                   *)
(*   obj    what the API server stores, Absent when there is nothing;      *)
(*   seen   what the informer cache of the operator answers to Get/List;   *)
(*   fresh  which copies are at the server's resourceVersion: "cache" for  *)
(*          `seen', and the name of a reconciler that holds a copy of the  *)
(*          object across several steps.                                   *)
(*                                                                         *)
(* The API server refuses an Update whose resourceVersion is not the       *)
(* current one, so all a controller can tell of a version is whether its   *)
(* copy is the current one: `fresh' keeps that and no counter is needed.   *)
(* Updates that change nothing keep the version and raise no watch event.  *)
(***************************************************************************)
CONSTANT Absent   \* no such object

\* An object the cache has just listed.
Listed(b) == [obj |-> b, seen |-> b, fresh |-> {"cache"}]

\* A write that the server accepts. Every outstanding copy is now outdated.
Put(o, b) == IF b = o.obj THEN o ELSE [obj |-> b, seen |-> o.seen, fresh |-> {}]

\* The watch event reaches the cache; intermediate versions may be skipped.
Deliver(o) == [obj |-> o.obj, seen |-> o.obj, fresh |-> o.fresh \cup {"cache"}]

\* Reconciler w reads the object from the cache and keeps the copy.
Fetch(o, w) ==
  IF "cache" \in o.fresh THEN [o EXCEPT !.fresh = @ \cup {w}]
                          ELSE [o EXCEPT !.fresh = @ \ {w}]

\* Reconciler w drops its copy.
Release(o, w) == [o EXCEPT !.fresh = @ \ {w}]

\* Would an Update from the copy of h (the cache, or a reconciler) succeed?
Current(o, h) == h \in o.fresh /\ o.obj # Absent

\* Is there an event on its way to the cache?
Settled(o) == "cache" \in o.fresh

ObjectType(Body, Holders) ==
  [obj : Body \cup {Absent}, seen : Body \cup {Absent}, fresh : SUBSET Holders]
============================================================================
