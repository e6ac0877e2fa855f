--------------------------- MODULE LinkLifecycle ---------------------------
(***************************************************************************)
(* What becomes of DashboardLinks on the API server, as a user sees it who *)
(* knows nothing of caches, copies, queues, conflicts and restarts. A link *)
(* is new, then kept by its finalizer, and going when it is deleted:       *)
(*                                                                         *)
(*    absent --> new --> kept --> going --> absent                         *)
(*                                                                         *)
(* The operator brings imports and follows their source, but what a user   *)
(* has made or adopted only the user changes; it never calls a deletion    *)
(* off, and takes away what is going and nothing else, unless it prunes:   *)
(* it may then delete a link under a name that it has given itself.        *)
(***************************************************************************)
EXTENDS Naturals

CONSTANTS
  Keys,      \* what links are known by
  Contents,  \* what a link says
  None,      \* what a link says that there is not
  Imports,   \* the names that the operator gives to imports
  Pruned     \* and those under which it deletes what has no source any more

VARIABLES
  links,  \* phase, content and origin of each link
  acts    \* what may still befall the operator

Gone == [phase |-> "absent", content |-> None, imported |-> FALSE]
New(c, imported) == [phase |-> "new", content |-> c, imported |-> imported]

Is(k, phases) == links[k].phase \in phases
There == {"new", "kept", "going"}

Becomes(k, b) == links' = [links EXCEPT ![k] = b]
Says(k) == \E c \in Contents : Becomes(k, [links[k] EXCEPT !.content = c])

\* An object with a finalizer is only marked by a deletion.
Erase(k) ==
  \/ Is(k, {"new"}) /\ Becomes(k, Gone)
  \/ Is(k, {"kept"}) /\ Becomes(k, [links[k] EXCEPT !.phase = "going"])

Init ==
  /\ links = [k \in Keys |-> Gone]
  /\ acts \in Nat

----------------------------------------------------------------------------
(* The operator *)

Import(k) == k \in Imports /\ Is(k, {"absent"}) /\ \E c \in Contents : Becomes(k, New(c, TRUE))

Refresh(k) == Is(k, There) /\ links[k].imported /\ Says(k)

Finalize(k) == Is(k, {"new"}) /\ Becomes(k, [links[k] EXCEPT !.phase = "kept"])

Remove(k) == Is(k, {"going"}) /\ Becomes(k, Gone)

Prune(k) == k \in Pruned /\ Erase(k)

Operator == acts' = acts /\ \E k \in Keys :
  Import(k) \/ Refresh(k) \/ Finalize(k) \/ Remove(k) \/ Prune(k)

----------------------------------------------------------------------------
(* Users, and what else befalls the operator: that is not to be seen *)

Create(k) == Is(k, {"absent"}) /\ \E c \in Contents : Becomes(k, New(c, FALSE))

Edit(k) == Is(k, There) /\ Says(k)

Adopt(k) == Is(k, There) /\ Becomes(k, [links[k] EXCEPT !.imported = FALSE])

Users ==
  /\ acts > 0 /\ acts' = acts - 1
  /\ \/ UNCHANGED links
     \/ \E k \in Keys : Create(k) \/ Edit(k) \/ Adopt(k) \/ Erase(k)

Next == Operator \/ Users

Spec == Init /\ [][Next]_<<links, acts>>
=============================================================================
