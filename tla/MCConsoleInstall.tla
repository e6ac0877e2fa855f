-------------------------- MODULE MCConsoleInstall --------------------------
EXTENDS ConsoleInstall
CONSTANTS d1, p1, p2, p3

\* The steps of the workload are alike: one whose object says no more than a name,
\* one whose object says more.
MCWorkload == <<"namespace", "deployment">>

MCSpec(n, g, e, h) == [name |-> n, gen |-> g, enable |-> e, href |-> h]
\* Users enable the plugin or not, have a link or none, and rename it later.
MCSpecs ==
  {MCSpec(p1, g, TRUE, "path") : g \in Generations} \cup
  {MCSpec(p1, g, FALSE, "none") : g \in Generations} \cup
  {MCSpec(p2, g, TRUE, "url") : g \in Generations \ {1}}
MCUserSpecs == [d \in Dashboards |-> MCSpecs]
=============================================================================
