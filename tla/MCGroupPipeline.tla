--------------------------- MODULE MCGroupPipeline ---------------------------
EXTENDS GroupPipeline, TLC

CONSTANTS a1, a2, x, g1, g2

MCText(t) == [f \in Fields |-> t]
MCEntry(e, t) == [enabled |-> e, text |-> MCText(t), links |-> NoLinks]
MCGuess == [a \in Apps |-> MCEntry(TRUE, Blank)]
MCUnannotated == [a \in Apps |-> MCText(Blank)]
MCPlainEntries == {MCEntry(TRUE, x), MCEntry(FALSE, Blank)}
MCNewClusters == {[labelled |-> l, cm |-> Absent, deployed |-> [a \in Apps |-> Absent]] : l \in BOOLEAN}
MCRouteOwners == [t \in Texts |-> {}]

MCGroupSpec(c, p, n, l, auto) ==
  [selector |-> [compiles |-> c, pattern |-> p, names |-> n, labels |-> l], autoLabel |-> auto,
   text |-> [f \in GroupFields |-> Blank], links |-> NoLinks]
\* One that selects by pattern, one by label that labels nothing, and one that
\* names the app beside a pattern in error.
MCGroupSpecs ==
  {MCGroupSpec(TRUE, {a1}, {}, {}, TRUE), MCGroupSpec(TRUE, {}, {}, {a1}, FALSE),
   MCGroupSpec(FALSE, {}, {a1}, {}, TRUE)}
==============================================================================
