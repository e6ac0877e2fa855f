-------------------------- MODULE NamespaceConfig --------------------------
(***************************************************************************)
(* The data of a dashboard-config-<namespace> ConfigMap and the pure       *)
(* functions by which the controllers derive one such config from another. *)
(*                                                                         *)
(* A config maps the apps it has to their entries. An entry has a flag,    *)
(* text fields, each of which may be blank, and custom links by name: the  *)
(* order of the list and repeated names are left out. The field "appGroup" *)
(* is groupWith, which names another app, so that names are texts as well.  *)
(* A DashboardNamespaceConfig declares the same of an app, its flag may be  *)
(* unset as well.                                                          *)
(***************************************************************************)
EXTENDS Integers

CONSTANTS
  Apps,        \* deployment names
  Fields,      \* the text fields of an entry
  Texts,       \* what a field may say
  Blank,       \* an empty field, an unset flag
  LinkNames,   \* names of custom links
  Urls,        \* where a link may point to
  NoUrl,       \* there is no link of the name
  Incomplete   \* there is one, with neither url nor route

ASSUME BlankAssumption == Blank \notin Texts /\ Blank \notin BOOLEAN
ASSUME NamesAssumption == "appGroup" \in Fields => Apps \subseteq Texts
ASSUME UrlAssumption == NoUrl \notin Urls /\ Incomplete \notin Urls /\ NoUrl # Incomplete

Text == [Fields -> Texts \cup {Blank}]
LinkLists == [LinkNames -> Urls \cup {NoUrl, Incomplete}]

Entries == [enabled : BOOLEAN, text : Text, links : LinkLists]
Declarations == [enabled : BOOLEAN \cup {Blank}, text : Text, links : LinkLists]

\* Functions from some of the apps to S.
AppMaps(S) == UNION {[A -> S] : A \in SUBSET Apps}
Configs == AppMaps(Entries)

NoLinks == [l \in LinkNames |-> NoUrl]
NoConfig == [n \in {} |-> Blank]

\* What a Go map answers for an app it does not have.
ZeroEntry == [enabled |-> FALSE, text |-> [f \in Fields |-> Blank], links |-> NoLinks]
EntryOf(c, n) == IF n \in DOMAIN c THEN c[n] ELSE ZeroEntry

\* The fields fs of t, where blank, are taken from d.
FillText(t, d, fs) == [f \in Fields |-> IF f \in fs /\ t[f] = Blank THEN d[f] ELSE t[f]]

Filled(e, d, fs) == [enabled |-> e.enabled, text |-> FillText(e.text, d.text, fs), links |-> e.links]

\* Config c completed with the apps of d and, in the apps it has, the fields fs.
Completed(c, d, fs) ==
  [n \in DOMAIN c \cup DOMAIN d |->
     IF n \notin DOMAIN c THEN d[n]
     ELSE IF n \in DOMAIN d THEN Filled(c[n], d[n], fs)
     ELSE c[n]]

\* mergeConfigMap of the NamespaceReconciler: the route, and nothing else.
MergedByNamespace(c, d) == Completed(c, d, Fields \cap {"primaryRoute"})

\* mergeDiscoveredApps of the DashboardNamespaceConfigReconciler: all fields.
MergedByOperand(c, d) == Completed(c, d, Fields)

\* (mutant) a flag that is declared FALSE is taken for an unset one
OverlaidUnset(e, a) ==
  [enabled |-> IF a.enabled = TRUE THEN TRUE ELSE e.enabled,
   text |-> FillText(a.text, e.text, Fields),
   links |-> IF a.links = NoLinks THEN e.links ELSE a.links]

\* overlayDashboardNamespaceConfig: a declared value wins, a declared list of
\* links replaces the whole list.
Overlaid(e, a) ==
  [enabled |-> IF a.enabled = Blank THEN e.enabled ELSE a.enabled,
   text |-> FillText(a.text, e.text, Fields),
   links |-> IF a.links = NoLinks THEN e.links ELSE a.links]

Overlay(c, apps) ==
  [n \in DOMAIN c \cup DOMAIN apps |->
     IF n \in DOMAIN apps THEN Overlaid(EntryOf(c, n), apps[n]) ELSE c[n]]

\* The config that an operand spec makes of config c and the discovered d.
Desired(c, d, spec) ==
  Overlay(CASE spec.mode = "None" -> c
            [] spec.mode = "Replace" -> d
            [] spec.mode = "Merge" -> MergedByOperand(c, d),
          spec.apps)

Complete(links) == [l \in LinkNames |-> IF links[l] = Incomplete THEN NoUrl ELSE links[l]]

\* namespaceConfigToDashboardApps: every flag is set, incomplete links are dropped.
Declared(c) ==
  [n \in DOMAIN c |->
     [enabled |-> c[n].enabled, text |-> c[n].text, links |-> Complete(c[n].links)]]

\* The text that entry e of app a stands for on a deployment: an app that is grouped
\* with none is in the group of its own name.
AppliedText(a, e) ==
  [f \in Fields |-> IF f = "appGroup" /\ e.text[f] = Blank THEN a ELSE e.text[f]]

\* upsertCustomLink, on an entry.
WithLink(e, l, url) == [e EXCEPT !.links = [e.links EXCEPT ![l] = url]]

\* The filter of removeLinkFromConfigMap, on a config.
WithoutLink(c, n, l) ==
  IF n \in DOMAIN c THEN [c EXCEPT ![n] = WithLink(c[n], l, NoUrl)] ELSE c

\* The links that are imported as operands, and those a deployment shows.
LinksOf(c) == {al \in (DOMAIN c) \X LinkNames : c[al[1]].links[al[2]] \in Urls}

\* c2 says all that c1 says of the apps of c1.
Keeps(c1, c2) ==
  \A n \in DOMAIN c1 :
    /\ n \in DOMAIN c2
    /\ c2[n].enabled = c1[n].enabled
    /\ \A f \in Fields : c1[n].text[f] # Blank => c2[n].text[f] = c1[n].text[f]
    /\ c2[n].links = c1[n].links

\* c says all that an operand with these apps declares.
Contains(c, apps) ==
  \A n \in DOMAIN apps :
    /\ n \in DOMAIN c
    /\ apps[n].enabled # Blank => c[n].enabled = apps[n].enabled
    /\ \A f \in Fields : apps[n].text[f] # Blank => c[n].text[f] = apps[n].text[f]
    /\ apps[n].links # NoLinks => c[n].links = apps[n].links
=============================================================================
