---------------------------- MODULE DashboardView ----------------------------
(***************************************************************************)
(* From a deployment's name to its card: the NamespaceReconciler (NSR)     *)
(* writes what it discovers into the ConfigMap of a namespace, users edit  *)
(* it, the ConfigMapReconciler (CMR) writes it on the deployments, and a   *)
(* console that watches the deployments and routes of all namespaces makes *)
(* cards of them.                                                          *)
(*                                                                         *)
(* The namespace is labelled, the ConfigMap parses and has no links, and   *)
(* both reconcilers read the ConfigMap there is: how they and those of     *)
(* operands interleave, fail and restart is in NamespacePipeline. Here the *)
(* deployments are written one by one, with the console reading between,   *)
(* and any of them may be passed over: CMR reads it from a cache, and the  *)
(* error of a refused Update is logged and not returned.                   *)
(***************************************************************************)
EXTENDS DashboardPage

CONSTANTS
  Home,             \* the namespace
  RouteNames,       \* the routes that may exist in it
  Elsewhere,        \* deployments in other namespaces, as the console lists them
  RoutesElsewhere,  \* and routes
  Ranks,            \* the orders in which lists of deployments come
  UserTexts,        \* the texts that users write into an entry
  Kinds,            \* the kinds of disturbances allowed in a behaviour
  MaxDisturbances   \* and how many

VARIABLES
  deps,      \* label, note ("enabled") and text of each deployment, or Blank: there is none
  routes,    \* the routes there are
  config,    \* the apps of the ConfigMap
  called,    \* is NSR called, because of a change of deployments or routes?
  todo,      \* the apps that CMR has to write yet
  passed,    \* (history) the apps that CMR passed over when it last had them to write
  page,      \* what the console has loaded of deployments and routes
  regrouped, \* (history) the apps that users have put into a group
  budget     \* disturbances still allowed

vars == <<called, deps, routes, config, todo, passed, page, regrouped, budget>>

Annotations == [label : BOOLEAN, note : BOOLEAN \cup {Blank}, text : Text]
Plain == [label |-> FALSE, note |-> Blank, text |-> ZeroEntry.text]

Deployed == {a \in Apps : deps[a] # Blank}
Here(S) == {<<Home, n>> : n \in S}
Keys == Here(Apps) \cup DOMAIN Elsewhere

\* What the console gets to see.
Listed ==
  [k \in Here(Deployed) \cup DOMAIN Elsewhere |->
     IF k[1] = Home THEN deps[k[2]] ELSE Elsewhere[k]]
AllRoutes == Here(routes) \cup RoutesElsewhere

Unloaded == [loaded |-> {}, deployments |-> NoConfig, routes |-> {}]

ASSUME ViewAssumption ==
  /\ MaxDisturbances \in Nat
  /\ RouteNames \subseteq Names
  /\ UserTexts \subseteq Text
  /\ \A k \in DOMAIN Elsewhere : k[1] # Home /\ Elsewhere[k] \in Annotations
  /\ \A r \in RoutesElsewhere : r = <<r[1], r[2]>>
  /\ Blank \notin Annotations
  /\ Ranks \subseteq [Keys -> Nat]
  /\ \A q \in Ranks : \A j, k \in Keys : j # k => q[j] # q[k]
  /\ "appGroup" \in Fields

Init ==
  /\ \E S \in SUBSET Apps : deps = [a \in Apps |-> IF a \in S THEN Plain ELSE Blank]
  /\ routes \in SUBSET RouteNames
  /\ config = NoConfig
  /\ called = TRUE /\ todo = {} /\ passed = {}
  /\ page = Unloaded
  /\ regrouped = {}
  /\ budget = MaxDisturbances

----------------------------------------------------------------------------
\* NSR: discovered apps are added, and routes where there was none; CMR is called
\* if that makes a difference.
Discover ==
  LET merged == MergedByNamespace(config, Discovered(Deployed, routes))
  IN  /\ called
      /\ called' = FALSE
      /\ config' = merged
      /\ todo' = IF merged = config THEN todo ELSE DOMAIN merged
      /\ UNCHANGED <<deps, routes, passed, page, regrouped, budget>>

\* (mutant) a disabled app loses its label only
WrittenLabelOnly(d, a, e) ==
  [label |-> e.enabled, note |-> IF e.enabled THEN TRUE ELSE d.note,
   text |-> FillText(AppliedText(a, e), d.text, Fields)]

\* What CMR makes of a deployment.
Written(d, a, e) ==
  [label |-> e.enabled, note |-> e.enabled, text |-> FillText(AppliedText(a, e), d.text, Fields)]

\* CMR: one deployment of the config, in any order. An Update goes through if
\* the cached copy is current; there is none where there is no deployment.
Apply(a) ==
  /\ a \in todo
  /\ deps' = IF deps[a] = Blank THEN deps
             ELSE [deps EXCEPT ![a] = Written(deps[a], a, config[a])]
  /\ todo' = todo \ {a}
  /\ called' = (called \/ deps[a] # Blank)
  /\ passed' = passed \ {a}
  /\ UNCHANGED <<routes, config, page, regrouped, budget>>

\* The Update is refused or fails, or the cache has no such deployment yet: CMR
\* goes on with the others, and nobody calls it again. Workloads are written by
\* others all the time, so that this may happen to any of them.
PassOver(a) ==
  /\ a \in todo /\ deps[a] # Blank
  /\ todo' = todo \ {a}
  /\ passed' = passed \cup {a}
  /\ UNCHANGED <<called, deps, routes, config, page, regrouped, budget>>

WatchDeployments ==
  /\ page' = [page EXCEPT !.loaded = page.loaded \cup {"deployments"}, !.deployments = Listed]
  /\ UNCHANGED <<called, deps, routes, config, todo, passed, regrouped, budget>>

WatchRoutes ==
  /\ page' = [page EXCEPT !.loaded = page.loaded \cup {"routes"}, !.routes = AllRoutes]
  /\ UNCHANGED <<called, deps, routes, config, todo, passed, regrouped, budget>>

----------------------------------------------------------------------------
Disturb(kind) == kind \in Kinds /\ budget > 0 /\ budget' = budget - 1

\* A user shows or hides an app, or writes another text; CMR is called for all apps.
UserEdits == \E a \in DOMAIN config :
  /\ Disturb("edit")
  /\ \E e \in BOOLEAN, t \in UserTexts \cup {config[a].text} :
       /\ <<e, t>> # <<config[a].enabled, config[a].text>>
       /\ config' = [config EXCEPT ![a] = [enabled |-> e, text |-> t, links |-> config[a].links]]
       /\ regrouped' = IF t["appGroup"] = config[a].text["appGroup"] THEN regrouped
                       ELSE regrouped \cup {a}
  /\ todo' = DOMAIN config
  /\ UNCHANGED <<called, deps, routes, passed, page>>

Rollout ==
  /\ Disturb("rollout")
  /\ \E a \in Apps : deps' = [deps EXCEPT ![a] = IF deps[a] = Blank THEN Plain ELSE Blank]
  /\ called' = TRUE
  /\ UNCHANGED <<routes, config, todo, passed, page, regrouped>>

RouteChanges ==
  /\ Disturb("route")
  /\ \E r \in RouteNames : routes' = (routes \cup {r}) \ (routes \cap {r})
  /\ called' = TRUE
  /\ UNCHANGED <<deps, config, todo, passed, page, regrouped>>

\* The owner of a deployment restores the labels it knows of.
OwnerStripsLabel ==
  /\ Disturb("strip")
  /\ \E a \in Deployed : deps' = [deps EXCEPT ![a].label = FALSE]
  /\ called' = TRUE
  /\ UNCHANGED <<routes, config, todo, passed, page, regrouped>>

\* (mutant) CMR is called for apps that the ConfigMap does not have
ResyncAll ==
  /\ Disturb("resync")
  /\ todo' = Apps
  /\ UNCHANGED <<called, deps, routes, config, passed, page, regrouped>>

\* CMR is called for the ConfigMap as it is, after a restart or a resync.
Resync ==
  /\ Disturb("resync")
  /\ todo' = DOMAIN config
  /\ UNCHANGED <<called, deps, routes, config, passed, page, regrouped>>

\* The user loads the page again.
Reload ==
  /\ Disturb("reload")
  /\ page' = Unloaded
  /\ UNCHANGED <<called, deps, routes, config, todo, passed, regrouped>>

Handled(a) == Apply(a) \/ PassOver(a)
Controllers == Discover \/ \E a \in Apps : Handled(a)
Watches == WatchDeployments \/ WatchRoutes
Disturbances == UserEdits \/ Rollout \/ RouteChanges \/ OwnerStripsLabel \/ Resync \/ Reload

Next == Controllers \/ Watches \/ Disturbances

Spec == Init /\ [][Next]_vars

\* The reconcilers work off what they are called for, whether their writes go
\* through or not, and watches deliver. It is Discover, and nothing else, that answers a call of NSR.
Fairness ==
  /\ WF_called(called /\ called' = FALSE) /\ \A a \in Apps : WF_vars(Handled(a))
  /\ WF_vars(WatchDeployments) /\ WF_vars(WatchRoutes)

FairSpec == Spec /\ Fairness

----------------------------------------------------------------------------
(* Properties *)

TypeOK ==
  /\ deps \in [Apps -> Annotations \cup {Blank}]
  /\ routes \subseteq RouteNames
  /\ DOMAIN config \subseteq Apps /\ \A a \in DOMAIN config : config[a] \in Entries
  /\ called \in BOOLEAN /\ todo \subseteq DOMAIN config
  /\ passed \subseteq DOMAIN config
  /\ page.loaded \subseteq {"deployments", "routes"}
  /\ DOMAIN page.deployments \subseteq Keys
  /\ \A k \in DOMAIN page.deployments : page.deployments[k] \in Annotations
  /\ page.routes \subseteq Here(RouteNames) \cup RoutesElsewhere
  /\ regrouped \subseteq DOMAIN config
  /\ budget \in 0 .. MaxDisturbances

\* What is shown of a list of deployments in order q: it waits for the routes.
Ready == page.loaded = {"deployments", "routes"}
Shown(q) == IF Ready THEN Cards(page.deployments, page.routes, q) ELSE {}

\* Whatever the console has loaded, and in whichever order, each enabled deployment
\* is on one card, no other is on any, and no card mixes namespaces.
OneCard ==
  Ready => \A q \in Ranks :
    LET cards == Shown(q)
    IN  /\ UNION {c.members : c \in cards} = EnabledIn(page.deployments)
        /\ \A c1, c2 \in cards : c1 # c2 => c1.members \cap c2.members = {}
        /\ \A c \in cards : \A j, k \in c.members : j[1] = k[1]

\* The console shows what there is, and CMR has nothing to do.
AtRest == todo = {} /\ Ready /\ page.deployments = Listed /\ page.routes = AllRoutes

\* The apps of the namespace, card by card.
AppCards(q) == {{a \in Apps : <<Home, a>> \in c.members} : c \in Shown(q)}

\* The config wants an app to be shown.
Wanted(a) == a \in DOMAIN config /\ config[a].enabled

\* The group that the config puts an app into.
GroupIn(a) == AppliedText(a, config[a])["appGroup"]

\* But for apps that CMR passed over, the cards are those of the config: an app is
\* shown only if the config shows it, and two that are shown are on one card if and
\* only if it groups them.
CardsAsConfigured ==
  AtRest => \A q \in Ranks :
    LET cards == AppCards(q)
    IN  \A a, b \in (UNION cards) \ passed :
          /\ Wanted(a)
          /\ (\E C \in cards : {a, b} \subseteq C) <=> GroupIn(a) = GroupIn(b)

\* Is a named as a database of p? Of names that end in -postgresql the parent is
\* not discovered, because they mention postgres first.
NamedDatabaseOf(a, p) ==
  /\ ~IsDatabase(p)
  /\ \E i \in DOMAIN DbSuffixes \ {2} : WordsOf[a] = Append(WordsOf[p], DbSuffixes[i])

\* A database that is named after an app joins it on its card, the name alone
\* having told where it belongs: at any moment of a round of CMR, for any pages
\* that the console loads meanwhile, and whichever writes are lost.
DatabasesJoin ==
  \A q \in Ranks :
    LET cards == AppCards(q)
    IN  \A a, p \in (UNION cards) \ regrouped :
          NamedDatabaseOf(a, p) => \E C \in cards : {a, p} \subseteq C

\* The card of a group opens the route that one of its apps declares, when no other
\* app of the group declares one, whichever comes first in the list.
DeclaredRouteOpens ==
  LET RouteOf(k) == page.deployments[k].text["primaryRoute"] IN
  \A q \in Ranks : \A c \in Shown(q) : \A k \in c.members :
    (\A j \in c.members : RouteOf(j) # Blank <=> j = k) /\ <<k[1], RouteOf(k)>> \in page.routes
      => c.opens = {<<k[1], RouteOf(k)>>}

\* What CMR is called for gets to the console in the end, unless it passes the app
\* over or the app goes away: one that is to be shown is on a card, and one that is
\* not is on none.
AppsFollowConfig ==
  \A a \in Apps :
    a \in todo ~> \/ deps[a] = Blank
                  \/ a \in passed \ todo
                  \/ \A q \in Ranks : a \in UNION AppCards(q) <=> Wanted(a)
=============================================================================
