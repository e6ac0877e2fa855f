--------------------------- MODULE MCDashboardView ---------------------------
EXTENDS DashboardView, TLC

\* An app with a suffix that routes do not have, a database named after it, and
\* one whose name says nothing.
MCApps == {"web-wl", "web-wl-redis"}
MCNames == MCApps \cup {"web"}
MCWordsOf ==
  "web" :> <<"web">> @@ "web-wl" :> <<"web", "wl">> @@
  "web-wl-redis" :> <<"web", "wl", "redis">>
MCKeywordsIn == "web" :> {} @@ "wl" :> {} @@ "redis" :> {"redis"}
MCTitleOf == [n \in MCNames |-> "App " \o n]
MCDatabaseOf == [n \in MCNames \cup {Blank} |-> IF n = Blank THEN "Database" ELSE "Database for " \o n]

\* Display names and descriptions decide nothing about cards.
MCFields == {"category", "primaryRoute", "appGroup"}
MCTexts ==
  MCNames \cup {MCTitleOf[n] : n \in MCNames} \cup {MCDatabaseOf[n] : n \in MCNames \cup {Blank}}
    \cup {"Infrastructure", "Media", "Development", "Services"}

MCText(c, r, g) ==
  [f \in MCFields |-> IF f = "category" THEN c ELSE IF f = "primaryRoute" THEN r
                      ELSE IF f = "appGroup" THEN g ELSE Blank]
\* Users group an app with the other and let it open the route.
MCUserTexts == {MCText("Media", "web", "web-wl")}

\* A deployment of another namespace with the same group.
MCElsewhere ==
  [k \in {<<"there", "web-wl">>} |->
     [label |-> TRUE, note |-> TRUE, text |-> MCText("Services", "web", "web-wl")]]
\* Either deployment of the group comes first.
MCRanks ==
  {[k \in Keys |-> IF k[1] = Home THEN (IF k[2] = a THEN 1 ELSE 2) ELSE 0] : a \in MCApps}
MCRoutesElsewhere == {<<"there", "web">>}
MCTargetOf == [r \in {"here", "there"} \X MCNames |-> r[2]]
=============================================================================
