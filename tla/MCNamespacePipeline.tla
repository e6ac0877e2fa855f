----------------------- MODULE MCNamespacePipeline -----------------------
EXTENDS NamespacePipeline, TLC

CONSTANTS a1, a2, x, y, u1, u2, l1

MCText(t) == [f \in Fields |-> t]
MCEntry(e, t, u) == [enabled |-> e, text |-> MCText(t), links |-> [l \in LinkNames |-> u]]

\* Discovery fills every field, groups nothing and finds no links.
MCTitle(a) == IF a = a1 THEN x ELSE y
MCDefault(a) == [f \in Fields |-> IF f = "appGroup" THEN Blank ELSE MCTitle(a)]
MCGuess == [a \in Apps |-> [enabled |-> TRUE, text |-> MCDefault(a), links |-> NoLinks]]
MCUnannotated ==
  [a \in Apps |-> [f \in Fields |-> IF f = "primaryRoute" THEN Blank ELSE MCDefault(a)[f]]]

\* Users show or hide an app, and give it a name or none.
MCPlainEntries == {MCEntry(TRUE, y, NoUrl), MCEntry(FALSE, Blank, NoUrl)}
\* Users give an app a link.
MCLinkEntries == {MCEntry(TRUE, x, u) : u \in Urls}

\* Operands of users name an app, and hide it or do not say.
MCSpecs ==
  {[enabled |-> TRUE, mode |-> m, apps |-> [a \in {a1} |-> MCEntry(e, y, NoUrl)]] :
     m \in Modes, e \in {Blank, FALSE}}
\* The namespace has just been labelled, or a user has written its ConfigMap.
MCNew == [a \in Apps |-> NewDeployment]
MCNone == [a \in Apps |-> Absent]
MCNewCluster == {[labelled |-> TRUE, cm |-> Absent, deployed |-> MCNew]}
MCLinkedCluster ==
  {[labelled |-> TRUE, cm |-> c, deployed |-> MCNone] : c \in [Apps -> UserEntries]}

\* A deployment of the name y, in the group y and without a route, was labelled before
\* the operator came; the namespace may be labelled as well.
MCAnnotated == [f \in Fields |-> IF f = "primaryRoute" THEN Blank ELSE y]
MCShown == [a \in Apps |-> [shown |-> TRUE, text |-> MCAnnotated, links |-> NoLinks]]
MCShownClusters == {[labelled |-> l, cm |-> Absent, deployed |-> MCShown] : l \in BOOLEAN}
MCUnlabelledCluster == {[labelled |-> FALSE, cm |-> Absent, deployed |-> MCShown]}
MCAnyClusters == MCShownClusters \cup MCNewCluster

\* Two deployments are shown, a1 in a group of its own and a2 in that of a1, which it calls
\* by the display name of a1. They have names of their own, and nothing is labelled or
\* written yet; or both are displayed by one name, and the ConfigMap has them, with the
\* groups named by displays or by deployments.
MCNamed(n, g) == [f \in Fields |-> IF f = "displayName" THEN n ELSE g]
MCGrouped(n, g) == [a \in Apps |-> IF a = a1 THEN MCNamed(x, a1) ELSE MCNamed(n, g)]
MCShownAs(t) == [a \in Apps |-> [shown |-> TRUE, text |-> t[a], links |-> NoLinks]]
MCListedAs(t) == [a \in Apps |-> [enabled |-> TRUE, text |-> t[a], links |-> NoLinks]]
MCGroupedClusters ==
  {[labelled |-> FALSE, cm |-> Absent, deployed |-> MCShownAs(MCGrouped(y, x))]} \cup
  {[labelled |-> TRUE, cm |-> MCListedAs(MCGrouped(x, g)), deployed |-> MCShownAs(MCGrouped(x, x))] :
     g \in {x, a1}}
\* Or the namespace has just been labelled, and not all that will be deployed is.
MCDeployedClusters ==
  MCGroupedClusters \cup
  {[labelled |-> TRUE, cm |-> Absent, deployed |-> d] : d \in [Apps -> {NewDeployment, Absent}]}
MCSymmetry == Permutations(Urls)
==========================================================================
