---------------------------- MODULE DashboardPage ----------------------------
(***************************************************************************)
(* How the console plugin (AppDashboardPage) makes cards of a list of      *)
(* deployments and the routes there are: one card for each deployment that *)
(* stands alone, one for all that share an app-group in their namespace.   *)
(*                                                                         *)
(* A list maps keys, each a namespace and a name, to what the label and    *)
(* the annotation "enabled" say (label, note) and to the other annotations *)
(* (text), a missing one being blank; rank tells its order. Routes are     *)
(* keyed likewise. Layout, the sorting of cards, favourites, the search,   *)
(* the switch for private ones and the cards of custom links, which are    *)
(* one to a ConfigMap, are left out.                                       *)
(***************************************************************************)
EXTENDS Discovery

CONSTANT
  TargetOf     \* the name of the service a route points to

Group(ds, k) == ds[k].text["appGroup"]

\* (mutant) only the label counts
EnabledByLabel(ds) == {k \in DOMAIN ds : ds[k].label}

\* Either will do: some workloads have owners that take labels away.
EnabledIn(ds) == {k \in DOMAIN ds : ds[k].label \/ ds[k].note = TRUE}

First(S, rank) == CHOOSE k \in S : \A j \in S : rank[k] <= rank[j]

\* The routes that deployment k may open: of several, the first in their list.
Opens(ds, routes, k) ==
  LET base == IF EndsIn(k[2], "wl") THEN Trimmed(k[2], "wl") ELSE Trimmed(k[2], "deployment")
      own == {r \in routes : r[1] = k[1]}
      declared == {r \in own : r[2] = ds[k].text["primaryRoute"]}
  IN  IF declared # {} THEN declared
      ELSE {r \in own : {r[2], TargetOf[r]} \cap {k[2], base} # {}}

\* (mutant) groups of one name are one, whatever their namespaces
PeersAnywhere(ds, k) ==
  IF Group(ds, k) = Blank THEN {k}
  ELSE {j \in EnabledIn(ds) : Group(ds, j) = Group(ds, k)}

\* Those that are on one card with deployment k.
Peers(ds, k) ==
  IF Group(ds, k) = Blank THEN {k}
  ELSE {j \in EnabledIn(ds) : j[1] = k[1] /\ Group(ds, j) = Group(ds, k)}

\* (mutant) the first stands for all
MainFirst(ds, routes, rank, S) == First(S, rank)

\* The one that stands for all: the first that declares its route, else the first
\* that has one, else the first.
Main(ds, routes, rank, S) ==
  LET declaring == {k \in S : ds[k].text["primaryRoute"] # Blank}
      linked == {k \in S : Opens(ds, routes, k) # {}}
  IN  IF declaring # {} THEN First(declaring, rank)
      ELSE IF linked # {} THEN First(linked, rank)
      ELSE First(S, rank)

CardOf(ds, routes, rank, k) ==
  LET S == Peers(ds, k)
      main == Main(ds, routes, rank, S)
  IN  [name |-> IF S = {k} THEN k[2] ELSE Group(ds, k), category |-> ds[main].text["category"],
       opens |-> Opens(ds, routes, main), members |-> S]

Cards(ds, routes, rank) == {CardOf(ds, routes, rank, k) : k \in EnabledIn(ds)}
=============================================================================
