------------------------------ MODULE Discovery ------------------------------
(***************************************************************************)
(* What the NamespaceReconciler makes of the names of the deployments and  *)
(* routes it finds: discoverNamespaceConfig and the functions it calls.    *)
(*                                                                         *)
(* A name is words joined by hyphens, in lower case as the API server has  *)
(* it. That keywords have no hyphens lets one look for them in the words.  *)
(***************************************************************************)
EXTENDS NamespaceConfig, Sequences

CONSTANTS
  Names,       \* names of deployments and routes, and what is left of one without its last word
  WordsOf,     \* the words of each
  KeywordsIn,  \* the keywords that each word contains
  TitleOf,     \* titleCase
  DatabaseOf   \* "Database for" a parent, or just "Database"

DbSuffixes == <<"postgres", "postgresql", "mysql", "mariadb", "mongodb", "redis", "db", "database">>
MediaKeywords ==
  {"plex", "sonarr", "radarr", "prowlarr", "sabnzbd", "nzbhydra", "qbittorrent", "tautulli",
   "jdownloader", "filebrowser"}
DevKeywords == {"code", "tools", "networking", "git", "jenkins", "gitlab"}

AllButLast(ws) == SubSeq(ws, 1, Len(ws) - 1)

\* That names have words and are told apart by them, what keywords are part of others, and
\* that all that is discovered can be the text of a field.
ASSUME NamingAssumption ==
  /\ Apps \subseteq Names
  /\ \A n \in Names : WordsOf[n] \in Seq(STRING) /\ WordsOf[n] # <<>>
  /\ \A n \in Names : Len(WordsOf[n]) > 1 => \E m \in Names : WordsOf[m] = AllButLast(WordsOf[n])
  /\ \A m, n \in Names : WordsOf[m] = WordsOf[n] => m = n
  /\ \A n \in Names : \A i \in DOMAIN WordsOf[n] : \A j \in DOMAIN DbSuffixes :
       WordsOf[n][i] = DbSuffixes[j] =>
         /\ DbSuffixes[j] \in KeywordsIn[WordsOf[n][i]]
         /\ \A k \in 1 .. j - 1 :
              DbSuffixes[k] \in KeywordsIn[WordsOf[n][i]] => k = 1 /\ j = 2
  /\ Fields \subseteq {"displayName", "category", "description", "primaryRoute", "appGroup"}
  /\ Names \cup {"Infrastructure", "Media", "Development", "Services"} \subseteq Texts
  /\ \A n \in Names : TitleOf[n] \in Texts /\ DatabaseOf[n] \in Texts
  /\ DatabaseOf[Blank] \in Texts

Mentions(n, keyword) == \E i \in DOMAIN WordsOf[n] : keyword \in KeywordsIn[WordsOf[n][i]]
EndsIn(n, keyword) == Len(WordsOf[n]) > 1 /\ WordsOf[n][Len(WordsOf[n])] = keyword

\* Name n without its last word, if that is the keyword.
Trimmed(n, keyword) ==
  IF EndsIn(n, keyword) THEN CHOOSE m \in Names : WordsOf[m] = AllButLast(WordsOf[n]) ELSE n

\* isDatabase looks for one keyword after the other, and the first that is mentioned
\* anywhere decides.
Mentioned(n) == {i \in DOMAIN DbSuffixes : Mentions(n, DbSuffixes[i])}
IsDatabase(n) == Mentioned(n) # {}
Deciding(n) == DbSuffixes[CHOOSE i \in Mentioned(n) : \A j \in Mentioned(n) : i <= j]

\* (mutant) the parent's name keeps the suffix
ParentAppUntrimmed(n) == IF IsDatabase(n) /\ EndsIn(n, Deciding(n)) THEN n ELSE Blank

ParentApp(n) ==
  IF IsDatabase(n) /\ EndsIn(n, Deciding(n)) THEN Trimmed(n, Deciding(n)) ELSE Blank

GuessCategory(n) ==
  IF IsDatabase(n) THEN "Infrastructure"
  ELSE IF \E k \in MediaKeywords : Mentions(n, k) THEN "Media"
  ELSE IF \E k \in DevKeywords : Mentions(n, k) THEN "Development"
  ELSE "Services"

\* findRouteForDeployment, among the routes of the namespace.
FindRoute(n, routes) ==
  LET base == Trimmed(Trimmed(n, "wl"), "deployment")
  IN  IF n \in routes THEN n ELSE IF base \in routes THEN base ELSE Blank

DiscoveredText(n, routes) ==
  [f \in Fields |->
     CASE f = "displayName" -> TitleOf[n]
       [] f = "category" -> GuessCategory(n)
       [] f = "description" -> IF IsDatabase(n) THEN DatabaseOf[ParentApp(n)] ELSE TitleOf[n]
       [] f = "primaryRoute" -> FindRoute(n, routes)
       [] f = "appGroup" -> ParentApp(n)]

\* discoverNamespaceConfig, for the deployments and routes there are.
Discovered(deployments, routes) ==
  [n \in deployments |->
     [enabled |-> ~IsDatabase(n), text |-> DiscoveredText(n, routes), links |-> NoLinks]]
=============================================================================
