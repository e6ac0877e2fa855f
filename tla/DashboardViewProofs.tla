------------------------- MODULE DashboardViewProofs -------------------------
(***************************************************************************)
(* What holds of the cards of the dashboard, for any apps, names, routes,  *)
(* texts, orders of the lists and number of disturbances.                  *)
(*                                                                         *)
(* The cards are a function of what the console has loaded, so that the    *)
(* first part is about any list of deployments. The second has the         *)
(* inductive invariant: what a deployment says, unless CMR is about to     *)
(* write it or has passed it over, is what the config says of it; and of   *)
(* an app that no user has put into a group, the config, the deployment    *)
(* and every page that lists it say the group that its name tells.         *)
(***************************************************************************)
EXTENDS DashboardView, NamespaceConfigTheorems

----------------------------------------------------------------------------
(* Names *)

LEMMA DbSuffixesAre == DOMAIN DbSuffixes = 1 .. 8
BY DEF DbSuffixes

\* What is left of a name is a name.
LEMMA TrimmedType ==
  ASSUME NEW n \in Names, NEW keyword
  PROVE  Trimmed(n, keyword) \in Names
<1>1. CASE EndsIn(n, keyword)
  <2>1. \E m \in Names : WordsOf[m] = AllButLast(WordsOf[n])
    BY <1>1, NamingAssumption DEF EndsIn
  <2>. QED
    BY <1>1, <2>1 DEF Trimmed
<1>. QED
  BY <1>1 DEF Trimmed

LEMMA ParentAppType ==
  ASSUME NEW n \in Names
  PROVE  ParentApp(n) \in Names \cup {Blank}
BY TrimmedType DEF ParentApp

\* A name that ends in the suffix of a database has the rest for its parent.
LEMMA NamedAfterParent ==
  ASSUME NEW a \in Names, NEW p \in Names, NamedDatabaseOf(a, p)
  PROVE  ParentApp(a) = p /\ ParentApp(p) = Blank
<1>. PICK i \in DOMAIN DbSuffixes \ {2} : WordsOf[a] = Append(WordsOf[p], DbSuffixes[i])
  BY DEF NamedDatabaseOf
<1>. DEFINE len == Len(WordsOf[p])
            w == DbSuffixes[i]
<1>0. i \in 1 .. 8 /\ i # 2
  BY DbSuffixesAre
<1>1. WordsOf[a] \in Seq(STRING) /\ WordsOf[p] \in Seq(STRING) /\ len \in Nat /\ len >= 1
  <2>1. WordsOf[a] \in Seq(STRING) /\ WordsOf[p] \in Seq(STRING) /\ WordsOf[p] # <<>>
    BY NamingAssumption
  <2>. QED
    BY <2>1
<1>2. /\ Len(WordsOf[a]) = len + 1 /\ DOMAIN WordsOf[a] = 1 .. len + 1
      /\ WordsOf[a][len + 1] = w
      /\ \A k \in 1 .. len : WordsOf[a][k] = WordsOf[p][k]
      /\ DOMAIN WordsOf[p] = 1 .. len
  BY <1>0, <1>1
<1>3. Mentioned(p) = {}
  BY DEF NamedDatabaseOf, IsDatabase
<1>. HIDE DEF w, len
<1>4. \A j \in DOMAIN DbSuffixes : Mentions(a, DbSuffixes[j]) <=> DbSuffixes[j] \in KeywordsIn[w]
  <2>. SUFFICES ASSUME NEW j \in DOMAIN DbSuffixes
                PROVE  Mentions(a, DbSuffixes[j]) <=> DbSuffixes[j] \in KeywordsIn[w]
    OBVIOUS
  <2>1. \A k \in 1 .. len : DbSuffixes[j] \notin KeywordsIn[WordsOf[p][k]]
    BY <1>2, <1>3 DEF Mentioned, Mentions
  <2>2. \A k \in 1 .. len + 1 : k \in 1 .. len \/ k = len + 1
    BY <1>1
  <2>3. len + 1 \in 1 .. len + 1
    BY <1>1
  <2>. QED
    BY <1>2, <2>1, <2>2, <2>3 DEF Mentions
<1>5. i \in Mentioned(a) /\ \A j \in Mentioned(a) : i <= j
  <2>1. /\ DbSuffixes[i] \in KeywordsIn[w]
        /\ \A k \in 1 .. i - 1 : DbSuffixes[k] \notin KeywordsIn[w]
    <3>1. len + 1 \in DOMAIN WordsOf[a] /\ WordsOf[a][len + 1] = DbSuffixes[i]
      BY <1>1, <1>2 DEF w
    <3>. QED
      BY <1>0, <1>2, <3>1, NamingAssumption
  <2>2. i \in Mentioned(a)
    BY <1>4, <2>1 DEF Mentioned
  <2>3. \A j \in Mentioned(a) : j \in 1 .. 8 /\ DbSuffixes[j] \in KeywordsIn[w]
    BY <1>4, DbSuffixesAre DEF Mentioned
  <2>. QED
    BY <1>0, <2>1, <2>2, <2>3
<1>6. Deciding(a) = w /\ IsDatabase(a)
  <2>1. Mentioned(a) \subseteq 1 .. 8
    BY DbSuffixesAre DEF Mentioned
  <2>2. (CHOOSE x \in Mentioned(a) : \A j \in Mentioned(a) : x <= j) = i
    BY <1>5, <2>1
  <2>. QED
    BY <1>5, <2>2 DEF Deciding, IsDatabase, w
<1>7. EndsIn(a, w)
  BY <1>1, <1>2 DEF EndsIn
<1>8. AllButLast(WordsOf[a]) = WordsOf[p]
  BY <1>0, <1>1, <1>2 DEF AllButLast, len
<1>9. Trimmed(a, w) = p
  BY <1>7, <1>8, NamingAssumption DEF Trimmed
<1>10. ParentApp(p) = Blank
  BY <1>3 DEF ParentApp, IsDatabase
<1>. QED
  BY <1>6, <1>7, <1>9, <1>10 DEF ParentApp

\* What is discovered is a config, of the deployments there are.
LEMMA DiscoveredIs ==
  ASSUME NEW S \in SUBSET Apps, NEW R
  PROVE  /\ Discovered(S, R) \in Configs
         /\ DOMAIN Discovered(S, R) = S
         /\ "appGroup" \in Fields =>
              \A n \in S : Discovered(S, R)[n].text["appGroup"] = ParentApp(n)
<1>1. ASSUME NEW n \in S
      PROVE  DiscoveredText(n, R) \in Text
  <2>0. n \in Names
    BY NamingAssumption
  <2>1. /\ TitleOf[n] \in Texts /\ GuessCategory(n) \in Texts
        /\ FindRoute(n, R) \in Texts \cup {Blank}
    BY <2>0, TrimmedType, NamingAssumption DEF GuessCategory, FindRoute
  <2>2. ParentApp(n) \in Names \cup {Blank}
    BY <2>0, ParentAppType
  <2>3. DatabaseOf[ParentApp(n)] \in Texts /\ ParentApp(n) \in Texts \cup {Blank}
    BY <2>2, NamingAssumption
  <2>4. Fields \subseteq {"displayName", "category", "description", "primaryRoute", "appGroup"}
    BY NamingAssumption
  <2>. QED
    BY <2>1, <2>3, <2>4 DEF DiscoveredText, Text
<1>2. \A n \in S : Discovered(S, R)[n] \in Entries
  BY <1>1, ZeroEntryType DEF Discovered, Entries, ZeroEntry
<1>3. Discovered(S, R) \in [S -> Entries]
  BY <1>2 DEF Discovered
<1>. QED
  BY <1>3, AppMapIs DEF Configs, Discovered, DiscoveredText

----------------------------------------------------------------------------
(* Cards *)

\* Those on a card with an enabled deployment are enabled, are in its namespace, and
\* have it on theirs.
LEMMA PeersAre ==
  ASSUME NEW ds, NEW k \in EnabledIn(ds)
  PROVE  /\ k \in Peers(ds, k) /\ Peers(ds, k) \subseteq EnabledIn(ds)
         /\ \A j \in Peers(ds, k) :
              /\ j[1] = k[1] /\ Group(ds, j) = Group(ds, k)
              /\ Peers(ds, j) = Peers(ds, k)
<1>1. CASE Group(ds, k) = Blank
  BY <1>1 DEF Peers
<1>2. CASE Group(ds, k) # Blank
  BY <1>2 DEF Peers
<1>. QED
  BY <1>1, <1>2

\* All of them have the same card.
LEMMA PeersShareCard ==
  ASSUME NEW ds, NEW R, NEW rank, NEW k \in EnabledIn(ds), NEW j \in Peers(ds, k)
  PROVE  CardOf(ds, R, rank, j) = CardOf(ds, R, rank, k)
<1>1. /\ Peers(ds, j) = Peers(ds, k) /\ Group(ds, j) = Group(ds, k)
      /\ j \in Peers(ds, k) /\ k \in Peers(ds, k)
  BY PeersAre
<1>2. CASE j = k
  BY <1>2
<1>3. CASE j # k
  <2>1. Peers(ds, k) # {k} /\ Peers(ds, j) # {j}
    BY <1>1, <1>3
  <2>. QED
    BY <1>1, <2>1 DEF CardOf
<1>. QED
  BY <1>2, <1>3

LEMMA CardMembers ==
  ASSUME NEW ds, NEW R, NEW rank, NEW k
  PROVE  CardOf(ds, R, rank, k).members = Peers(ds, k)
BY DEF CardOf

\* AppDashboardPage puts each enabled deployment of any list on exactly one card, and
\* nothing else on a card, and on one card only what is in one namespace.
THEOREM CardsPartition ==
  ASSUME NEW ds, NEW R, NEW rank
  PROVE  /\ UNION {c.members : c \in Cards(ds, R, rank)} = EnabledIn(ds)
         /\ \A c1, c2 \in Cards(ds, R, rank) : c1 # c2 => c1.members \cap c2.members = {}
         /\ \A c \in Cards(ds, R, rank) : \A j, k \in c.members : j[1] = k[1]
<1>1. UNION {c.members : c \in Cards(ds, R, rank)} = EnabledIn(ds)
  <2>1. \A k \in EnabledIn(ds) : \E c \in Cards(ds, R, rank) : k \in c.members
    BY PeersAre, CardMembers DEF Cards
  <2>2. \A c \in Cards(ds, R, rank) : c.members \subseteq EnabledIn(ds)
    BY PeersAre, CardMembers DEF Cards
  <2>. QED
    BY <2>1, <2>2
<1>2. ASSUME NEW c1 \in Cards(ds, R, rank), NEW c2 \in Cards(ds, R, rank),
             NEW m \in c1.members \cap c2.members
      PROVE  c1 = c2
  <2>1. PICK k1 \in EnabledIn(ds) : c1 = CardOf(ds, R, rank, k1)
    BY DEF Cards
  <2>2. PICK k2 \in EnabledIn(ds) : c2 = CardOf(ds, R, rank, k2)
    BY DEF Cards
  <2>3. m \in Peers(ds, k1) /\ m \in Peers(ds, k2)
    BY <2>1, <2>2, CardMembers
  <2>. QED
    BY <2>1, <2>2, <2>3, PeersShareCard
<1>3. ASSUME NEW c \in Cards(ds, R, rank), NEW j \in c.members, NEW k \in c.members
      PROVE  j[1] = k[1]
  <2>1. PICK k0 \in EnabledIn(ds) : c = CardOf(ds, R, rank, k0)
    BY DEF Cards
  <2>2. j \in Peers(ds, k0) /\ k \in Peers(ds, k0)
    BY <2>1, CardMembers
  <2>. QED
    BY <2>2, PeersAre
<1>. QED
  BY <1>1, <1>2, <1>3

\* Two enabled deployments are on one card if each is one of the other's peers.
LEMMA OnOneCard ==
  ASSUME NEW ds, NEW R, NEW rank, NEW j \in EnabledIn(ds), NEW k \in EnabledIn(ds)
  PROVE  (\E c \in Cards(ds, R, rank) : {j, k} \subseteq c.members) <=> j \in Peers(ds, k)
<1>1. ASSUME NEW c \in Cards(ds, R, rank), {j, k} \subseteq c.members
      PROVE  j \in Peers(ds, k)
  <2>1. PICK k0 \in EnabledIn(ds) : c = CardOf(ds, R, rank, k0)
    BY DEF Cards
  <2>2. j \in Peers(ds, k0) /\ k \in Peers(ds, k0)
    BY <1>1, <2>1, CardMembers
  <2>. QED
    BY <2>2, PeersAre
<1>2. ASSUME j \in Peers(ds, k)
      PROVE  \E c \in Cards(ds, R, rank) : {j, k} \subseteq c.members
  <2>1. CardOf(ds, R, rank, k) \in Cards(ds, R, rank)
    BY DEF Cards
  <2>2. {j, k} \subseteq CardOf(ds, R, rank, k).members
    BY <1>2, CardMembers, PeersAre
  <2>. QED
    BY <2>1, <2>2
<1>. QED
  BY <1>1, <1>2

\* The one deployment of a card that declares a route stands for all of them, and
\* opens that route if it is there.
LEMMA DeclaringIsMain ==
  ASSUME NEW ds, NEW R, NEW rank, NEW S, NEW k \in S, rank[k] \in Nat,
         \A j \in S : ds[j].text["primaryRoute"] # Blank <=> j = k
  PROVE  Main(ds, R, rank, S) = k
<1>. DEFINE declaring == {j \in S : ds[j].text["primaryRoute"] # Blank}
<1>1. declaring = {k}
  OBVIOUS
<1>2. First({k}, rank) = k
  BY DEF First
<1>. QED
  BY <1>1, <1>2 DEF Main

LEMMA DeclaredIsOpened ==
  ASSUME NEW ds, NEW R, NEW k,
         \A r \in R : r = <<r[1], r[2]>>,
         <<k[1], ds[k].text["primaryRoute"]>> \in R
  PROVE  Opens(ds, R, k) = {<<k[1], ds[k].text["primaryRoute"]>>}
<1>. DEFINE route == ds[k].text["primaryRoute"]
            declared == {r \in {r \in R : r[1] = k[1]} : r[2] = route}
<1>1. declared = {<<k[1], route>>}
  OBVIOUS
<1>. QED
  BY <1>1 DEF Opens

----------------------------------------------------------------------------
(* The invariant *)

Pages ==
  [loaded : SUBSET {"deployments", "routes"},
   deployments : UNION {[K -> Annotations] : K \in SUBSET Keys},
   routes : SUBSET (Here(RouteNames) \cup RoutesElsewhere)]

Typed ==
  /\ deps \in [Apps -> Annotations \cup {Blank}]
  /\ routes \subseteq RouteNames
  /\ config \in Configs
  /\ called \in BOOLEAN /\ todo \subseteq DOMAIN config /\ passed \subseteq DOMAIN config
  /\ page \in Pages
  /\ regrouped \subseteq DOMAIN config
  /\ budget \in 0 .. MaxDisturbances

\* Deployment a says nothing of its app, or what the config says, up to a lost label.
SaysNothing(d) == d.label = FALSE /\ d.note # TRUE
SaysConfigured(a, d) ==
  /\ a \in DOMAIN config
  /\ d.note = config[a].enabled
  /\ d.label => config[a].enabled
  /\ d.text["appGroup"] = GroupIn(a)

Settled ==
  \A a \in Apps \ (todo \cup passed) :
    deps[a] # Blank => SaysNothing(deps[a]) \/ SaysConfigured(a, deps[a])

\* Who is in which group is known by name, unless users have changed it.
GroupsByName ==
  \A a \in DOMAIN config \ regrouped : config[a].text["appGroup"] = ParentApp(a)

IInv == Typed /\ Settled /\ GroupsByName

LEMMA ConfigIs ==
  ASSUME config \in Configs
  PROVE  /\ DOMAIN config \subseteq Apps /\ config \in [DOMAIN config -> Entries]
         /\ \A a \in DOMAIN config :
              /\ config[a].enabled \in BOOLEAN /\ config[a].text \in Text
              /\ config[a].links \in LinkLists
<1>1. DOMAIN config \subseteq Apps /\ config \in [DOMAIN config -> Entries]
  BY AppMapIs DEF Configs
<1>. QED
  BY <1>1 DEF Entries

\* What is applied is a text, and its group is not blank.
LEMMA AppliedTextIs ==
  ASSUME NEW a \in Apps, NEW e \in Entries
  PROVE  AppliedText(a, e) \in Text /\ AppliedText(a, e)["appGroup"] # Blank
<1>1. e.text \in Text
  BY DEF Entries
<1>2. "appGroup" \in Fields /\ Apps \subseteq Texts /\ Blank \notin Texts
  BY ViewAssumption, NamesAssumption, BlankAssumption
<1>. QED
  BY <1>1, <1>2 DEF AppliedText, Text

LEMMA WrittenIs ==
  ASSUME NEW d \in Annotations, NEW a \in Apps, NEW e \in Entries
  PROVE  /\ Written(d, a, e) \in Annotations
         /\ Written(d, a, e).note = e.enabled /\ Written(d, a, e).label = e.enabled
         /\ Written(d, a, e).text["appGroup"] = AppliedText(a, e)["appGroup"]
<1>1. d.text \in Text /\ e.enabled \in BOOLEAN
  BY DEF Annotations, Entries
<1>2. "appGroup" \in Fields
  BY ViewAssumption
<1>. QED
  BY <1>1, <1>2, AppliedTextIs, FillTextIs DEF Written, Annotations

LEMMA PlainIs == Plain \in Annotations /\ SaysNothing(Plain) /\ Plain # Blank
<1>1. Blank \notin BOOLEAN /\ Blank \notin Annotations
  BY BlankAssumption, ViewAssumption
<1>2. Plain \in Annotations
  BY ZeroEntryType DEF Plain, Annotations, Entries
<1>. QED
  BY <1>1, <1>2 DEF Plain, SaysNothing

LEMMA ListedIs ==
  ASSUME Typed
  PROVE  /\ DOMAIN Listed \subseteq Keys
         /\ Listed \in [DOMAIN Listed -> Annotations]
         /\ \A a \in Apps :
              /\ <<Home, a>> \in DOMAIN Listed <=> deps[a] # Blank
              /\ deps[a] # Blank => Listed[<<Home, a>>] = deps[a]
<1>1. DOMAIN Listed = Here(Deployed) \cup DOMAIN Elsewhere
  BY DEF Listed
<1>2. Here(Deployed) \subseteq Here(Apps)
  BY DEF Here, Deployed
<1>3. \A k \in DOMAIN Elsewhere : k[1] # Home /\ Elsewhere[k] \in Annotations
  BY ViewAssumption
<1>4. \A k \in Here(Deployed) :
        \E a \in Apps : k = <<Home, a>> /\ deps[a] # Blank /\ deps[a] \in Annotations
  BY DEF Here, Deployed, Typed
<1>5. \A k \in DOMAIN Listed : Listed[k] \in Annotations
  <2>. SUFFICES ASSUME NEW k \in DOMAIN Listed
                PROVE  Listed[k] \in Annotations
    OBVIOUS
  <2>1. CASE k \in Here(Deployed)
    <3>. PICK a \in Apps : k = <<Home, a>> /\ deps[a] \in Annotations
      BY <1>4, <2>1
    <3>1. k[1] = Home /\ k[2] = a
      OBVIOUS
    <3>. QED
      BY <1>1, <3>1 DEF Listed
  <2>2. CASE k \in DOMAIN Elsewhere
    BY <1>1, <1>3, <2>2 DEF Listed
  <2>. QED
    BY <1>1, <2>1, <2>2
<1>6. \A a \in Apps : <<Home, a>> \in DOMAIN Listed <=> deps[a] # Blank
  <2>. SUFFICES ASSUME NEW a \in Apps
                PROVE  <<Home, a>> \in DOMAIN Listed <=> deps[a] # Blank
    OBVIOUS
  <2>1. <<Home, a>> \notin DOMAIN Elsewhere
    BY <1>3
  <2>2. <<Home, a>> \in Here(Deployed) <=> deps[a] # Blank
    BY DEF Here, Deployed
  <2>. QED
    BY <1>1, <2>1, <2>2
<1>7. \A a \in Apps : deps[a] # Blank => Listed[<<Home, a>>] = deps[a]
  BY <1>1, <1>6 DEF Listed
<1>8. Listed \in [DOMAIN Listed -> Annotations]
  BY <1>5 DEF Listed
<1>. QED
  BY <1>1, <1>2, <1>6, <1>7, <1>8 DEF Keys

LEMMA InitIInv == Init => IInv
<1>. SUFFICES ASSUME Init PROVE IInv
  OBVIOUS
<1>1. NoConfig \in Configs /\ DOMAIN NoConfig = {}
  <2>1. NoConfig \in [{} -> Entries]
    BY DEF NoConfig
  <2>. QED
    BY <2>1, AppMapIs DEF Configs, NoConfig
<1>2. deps \in [Apps -> Annotations \cup {Blank}] /\ \A a \in Apps : deps[a] \in {Plain, Blank}
  BY PlainIs DEF Init
<1>3. page \in Pages
  <2>1. page = Unloaded
    BY DEF Init
  <2>2. NoConfig \in [{} -> Annotations] /\ {} \in SUBSET Keys
    BY DEF NoConfig
  <2>. QED
    BY <2>1, <2>2 DEF Unloaded, Pages
<1>4. Typed
  BY <1>1, <1>2, <1>3, ViewAssumption DEF Init, Typed
<1>5. Settled
  BY <1>2, PlainIs DEF Settled
<1>6. GroupsByName
  BY <1>1 DEF GroupsByName, Init
<1>. QED
  BY <1>4, <1>5, <1>6 DEF IInv

LEMMA DisturbTyped == Typed => \A kind : Disturb(kind) => budget' \in 0 .. MaxDisturbances
BY ViewAssumption DEF Typed, Disturb

\* A step after which CMR has all apps of the config to write, that changes no
\* deployment and takes no app away, keeps deployments settled.
LEMMA AllToWrite ==
  ASSUME Typed, Settled, UNCHANGED <<deps, passed>>,
         DOMAIN config \subseteq DOMAIN config', todo' = DOMAIN config'
  PROVE  Settled'
<1>. SUFFICES ASSUME NEW a \in Apps, a \notin todo', deps[a] # Blank
              PROVE  SaysNothing(deps[a])
  BY DEF Settled
<1>1. a \notin DOMAIN config /\ a \notin todo /\ a \notin passed
  BY DEF Typed
<1>. QED
  BY <1>1 DEF Settled, SaysConfigured

LEMMA DiscoverStep == IInv /\ Discover => IInv'
<1>. SUFFICES ASSUME IInv, Discover PROVE IInv'
  OBVIOUS
<1>. DEFINE found == Discovered(Deployed, routes)
            merged == MergedByNamespace(config, found)
<1>0. config \in Configs /\ found \in Configs
  BY DiscoveredIs DEF IInv, Typed, Deployed
<1>1. merged \in Configs /\ DOMAIN config \subseteq DOMAIN merged
  <2>1. merged \in Configs /\ Keeps(config, merged)
    BY <1>0, CompletedKeeps DEF MergedByNamespace
  <2>. QED
    BY <2>1 DEF Keeps
<1>2. /\ config' = merged /\ UNCHANGED <<deps, passed, regrouped, page, routes, budget>>
      /\ called' = FALSE
      /\ todo' = IF merged = config THEN todo ELSE DOMAIN merged
  BY DEF Discover
<1>3. GroupsByName'
  <2>. SUFFICES ASSUME NEW a \in DOMAIN merged, a \notin regrouped
                PROVE  merged[a].text["appGroup"] = ParentApp(a)
    BY <1>2 DEF GroupsByName
  <2>0. "appGroup" \in Fields /\ "appGroup" \notin {"primaryRoute"}
    BY ViewAssumption
  <2>1. CASE a \notin DOMAIN config
    <3>1. a \in DOMAIN found /\ merged[a] = found[a]
      BY <2>1 DEF MergedByNamespace, Completed
    <3>2. found[a].text["appGroup"] = ParentApp(a)
      BY <2>0, <3>1, DiscoveredIs DEF Deployed
    <3>. QED
      BY <3>1, <3>2
  <2>2. CASE a \in DOMAIN config
    <3>1. \/ merged[a] = config[a]
          \/ merged[a] = Filled(config[a], found[a], Fields \cap {"primaryRoute"})
      BY <2>2 DEF MergedByNamespace, Completed
    <3>2. merged[a].text["appGroup"] = config[a].text["appGroup"]
      BY <2>0, <3>1 DEF Filled, FillText
    <3>. QED
      BY <2>2, <3>2 DEF IInv, GroupsByName
  <2>. QED
    BY <2>1, <2>2
<1>. HIDE DEF found, merged
<1>4. Typed'
  <2>1. todo' \subseteq DOMAIN merged /\ regrouped \subseteq DOMAIN merged
    BY <1>1, <1>2 DEF IInv, Typed
  <2>. QED
    BY <1>1, <1>2, <2>1 DEF IInv, Typed
<1>5. Settled'
  <2>1. CASE merged = config
    BY <1>2, <2>1 DEF IInv, Settled, SaysConfigured, GroupIn
  <2>2. CASE merged # config
    BY <1>1, <1>2, <2>2, AllToWrite DEF IInv
  <2>. QED
    BY <2>1, <2>2
<1>. QED
  BY <1>3, <1>4, <1>5 DEF IInv

LEMMA ApplyStep == ASSUME NEW a \in Apps PROVE IInv /\ Apply(a) => IInv'
<1>. SUFFICES ASSUME IInv, Apply(a) PROVE IInv'
  OBVIOUS
<1>1. /\ a \in DOMAIN config /\ config[a] \in Entries
      /\ deps \in [Apps -> Annotations \cup {Blank}]
  BY ConfigIs DEF IInv, Typed, Apply
<1>2. /\ UNCHANGED <<routes, config, page, regrouped, budget>> /\ todo' = todo \ {a}
      /\ passed' = passed \ {a} /\ called' = (called \/ deps[a] # Blank)
      /\ \A b \in Apps : b # a => deps'[b] = deps[b]
      /\ deps[a] = Blank => deps'[a] = Blank
      /\ deps[a] # Blank => deps'[a] = Written(deps[a], a, config[a])
      /\ deps' = deps \/ deps' = [deps EXCEPT ![a] = Written(deps[a], a, config[a])]
  BY <1>1 DEF Apply
<1>3. deps[a] # Blank =>
        /\ deps'[a] \in Annotations /\ deps'[a].note = config[a].enabled
        /\ deps'[a].label = config[a].enabled
        /\ deps'[a].text["appGroup"] = GroupIn(a)
  BY <1>1, <1>2, WrittenIs DEF GroupIn
<1>4. deps' \in [Apps -> Annotations \cup {Blank}]
  <2>1. CASE deps[a] = Blank
    BY <1>1, <2>1 DEF Apply
  <2>2. CASE deps[a] # Blank
    <3>1. Written(deps[a], a, config[a]) \in Annotations
      BY <1>2, <1>3, <2>2
    <3>. QED
      BY <1>1, <1>2, <3>1
  <2>. QED
    BY <2>1, <2>2
<1>5. Typed'
  BY <1>2, <1>4 DEF IInv, Typed
<1>6. Settled'
  <2>. SUFFICES ASSUME NEW b \in Apps, b \notin todo' \cup passed', deps'[b] # Blank
                PROVE  SaysNothing(deps'[b]) \/ SaysConfigured(b, deps[b])'
    BY DEF Settled
  <2>1. CASE b = a
    BY <1>1, <1>2, <1>3, <2>1 DEF SaysConfigured, GroupIn
  <2>2. CASE b # a
    BY <1>2, <2>2 DEF IInv, Settled, SaysConfigured, GroupIn
  <2>. QED
    BY <2>1, <2>2
<1>7. GroupsByName'
  BY <1>2 DEF IInv, GroupsByName
<1>. QED
  BY <1>5, <1>6, <1>7 DEF IInv

\* What is passed over is not settled until it is written.
LEMMA PassOverStep == ASSUME NEW a \in Apps PROVE IInv /\ PassOver(a) => IInv'
<1>. SUFFICES ASSUME IInv, PassOver(a) PROVE IInv'
  OBVIOUS
<1>1. /\ UNCHANGED <<called, deps, routes, config, page, regrouped, budget>>
      /\ todo' = todo \ {a} /\ passed' = passed \cup {a} /\ a \in todo
  BY DEF PassOver
<1>2. Settled'
  BY <1>1 DEF IInv, Settled, SaysConfigured, GroupIn
<1>. QED
  BY <1>1, <1>2 DEF IInv, Typed, GroupsByName

\* Steps of the console.
LEMMA PageStep == IInv /\ (Watches \/ Reload) => IInv'
<1>. SUFFICES ASSUME IInv, Watches \/ Reload PROVE IInv'
  OBVIOUS
<1>1. UNCHANGED <<called, deps, routes, config, todo, passed, regrouped>>
  BY DEF Watches, WatchDeployments, WatchRoutes, Reload
<1>2. page' \in Pages /\ budget' \in 0 .. MaxDisturbances
  <2>0. page \in Pages /\ budget \in 0 .. MaxDisturbances /\ Typed
    BY DEF IInv, Typed
  <2>1. CASE WatchDeployments
    <3>1. Listed \in UNION {[K -> Annotations] : K \in SUBSET Keys}
      BY <2>0, ListedIs
    <3>. QED
      BY <2>0, <2>1, <3>1 DEF WatchDeployments, Pages
  <2>2. CASE WatchRoutes
    <3>1. AllRoutes \subseteq Here(RouteNames) \cup RoutesElsewhere
      BY <2>0 DEF AllRoutes, Here, Typed
    <3>. QED
      BY <2>0, <2>2, <3>1 DEF WatchRoutes, Pages
  <2>3. CASE Reload
    <3>1. page' = Unloaded
      BY <2>3 DEF Reload
    <3>2. NoConfig \in [{} -> Annotations] /\ {} \in SUBSET Keys
      BY DEF NoConfig
    <3>3. page' \in Pages
      BY <3>1, <3>2 DEF Unloaded, Pages
    <3>. QED
      BY <2>0, <2>3, <3>3, DisturbTyped DEF Reload
  <2>. QED
    BY <2>1, <2>2, <2>3 DEF Watches
<1>. QED
  BY <1>1, <1>2 DEF IInv, Typed, Settled, SaysConfigured, GroupIn, GroupsByName

LEMMA UserEditsStep == IInv /\ UserEdits => IInv'
<1>. SUFFICES ASSUME IInv, UserEdits PROVE IInv'
  OBVIOUS
<1>1. PICK a \in DOMAIN config : \E e \in BOOLEAN, t \in UserTexts \cup {config[a].text} :
        /\ config' = [config EXCEPT ![a] = [enabled |-> e, text |-> t, links |-> config[a].links]]
        /\ regrouped' = IF t["appGroup"] = config[a].text["appGroup"] THEN regrouped
                        ELSE regrouped \cup {a}
  BY DEF UserEdits
<1>2. PICK e \in BOOLEAN, t \in UserTexts \cup {config[a].text} :
        /\ config' = [config EXCEPT ![a] = [enabled |-> e, text |-> t, links |-> config[a].links]]
        /\ regrouped' = IF t["appGroup"] = config[a].text["appGroup"] THEN regrouped
                        ELSE regrouped \cup {a}
  BY <1>1
<1>3. todo' = DOMAIN config /\ UNCHANGED <<called, deps, routes, passed, page>>
  BY DEF UserEdits
<1>4. /\ DOMAIN config \subseteq Apps /\ config \in [DOMAIN config -> Entries]
      /\ t \in Text /\ config[a].links \in LinkLists
  BY ConfigIs, ViewAssumption DEF IInv, Typed
<1>5. config' \in Configs /\ DOMAIN config' = DOMAIN config
  <2>1. [enabled |-> e, text |-> t, links |-> config[a].links] \in Entries
    BY <1>4 DEF Entries
  <2>2. config' \in [DOMAIN config -> Entries]
    BY <1>2, <1>4, <2>1
  <2>. QED
    BY <1>4, <2>2, AppMapIs DEF Configs
<1>6. Typed'
  <2>1. budget' \in 0 .. MaxDisturbances
    BY DisturbTyped DEF IInv, UserEdits
  <2>2. regrouped' \subseteq DOMAIN config
    BY <1>2 DEF IInv, Typed
  <2>. QED
    BY <1>3, <1>5, <2>1, <2>2 DEF IInv, Typed
<1>7. Settled'
  BY <1>3, <1>5, AllToWrite DEF IInv
<1>8. GroupsByName'
  <2>. SUFFICES ASSUME NEW b \in DOMAIN config, b \notin regrouped'
                PROVE  config'[b].text["appGroup"] = ParentApp(b)
    BY <1>5 DEF GroupsByName
  <2>1. b \notin regrouped /\ config[b].text["appGroup"] = ParentApp(b)
    BY <1>2 DEF IInv, GroupsByName
  <2>2. CASE b = a
    BY <1>2, <1>4, <2>1, <2>2
  <2>3. CASE b # a
    BY <1>2, <1>4, <2>1, <2>3
  <2>. QED
    BY <2>2, <2>3
<1>. QED
  BY <1>6, <1>7, <1>8 DEF IInv

\* The steps of the cluster, and of a resync.
LEMMA RolloutStep == IInv /\ Rollout => IInv'
<1>. SUFFICES ASSUME IInv, Rollout PROVE IInv'
  OBVIOUS
<1>1. PICK a \in Apps : deps' = [deps EXCEPT ![a] = IF deps[a] = Blank THEN Plain ELSE Blank]
  BY DEF Rollout
<1>2. /\ UNCHANGED <<routes, config, todo, passed, page, regrouped>> /\ called' = TRUE
      /\ budget' \in 0 .. MaxDisturbances
  BY DisturbTyped DEF IInv, Rollout
<1>3. deps' \in [Apps -> Annotations \cup {Blank}]
  BY <1>1, PlainIs DEF IInv, Typed
<1>4. Settled'
  <2>. SUFFICES ASSUME NEW b \in Apps, b \notin todo \cup passed, deps'[b] # Blank
                PROVE  SaysNothing(deps'[b]) \/ SaysConfigured(b, deps[b])'
    BY <1>2 DEF Settled
  <2>0. deps \in [Apps -> Annotations \cup {Blank}]
    BY DEF IInv, Typed
  <2>1. CASE b = a
    <3>1. deps'[b] = Plain
      BY <1>1, <2>0, <2>1
    <3>. QED
      BY <3>1, PlainIs
  <2>2. CASE b # a
    <3>1. deps'[b] = deps[b]
      BY <1>1, <2>0, <2>2
    <3>. QED
      BY <1>2, <3>1 DEF IInv, Settled, SaysConfigured, GroupIn
  <2>. QED
    BY <2>1, <2>2
<1>. QED
  BY <1>2, <1>3, <1>4 DEF IInv, Typed, GroupsByName

LEMMA OwnerStripsLabelStep == IInv /\ OwnerStripsLabel => IInv'
<1>. SUFFICES ASSUME IInv, OwnerStripsLabel PROVE IInv'
  OBVIOUS
<1>1. PICK a \in Deployed : deps' = [deps EXCEPT ![a].label = FALSE]
  BY DEF OwnerStripsLabel
<1>2. /\ UNCHANGED <<routes, config, todo, passed, page, regrouped>> /\ called' = TRUE
      /\ budget' \in 0 .. MaxDisturbances
  BY DisturbTyped DEF IInv, OwnerStripsLabel
<1>3. /\ deps \in [Apps -> Annotations \cup {Blank}] /\ a \in Apps
      /\ deps[a] \in Annotations /\ deps[a] # Blank
  BY DEF IInv, Typed, Deployed
<1>4. /\ deps' = [deps EXCEPT ![a] = [deps[a] EXCEPT !.label = FALSE]]
      /\ [deps[a] EXCEPT !.label = FALSE] \in Annotations
  BY <1>1, <1>3 DEF Annotations
<1>5. /\ deps' \in [Apps -> Annotations \cup {Blank}]
      /\ \A b \in Apps : b # a => deps'[b] = deps[b]
      /\ deps'[a].label = FALSE /\ deps'[a].note = deps[a].note /\ deps'[a].text = deps[a].text
  BY <1>3, <1>4 DEF Annotations
<1>6. Settled'
  <2>. SUFFICES ASSUME NEW b \in Apps, b \notin todo \cup passed, deps'[b] # Blank
                PROVE  SaysNothing(deps'[b]) \/ SaysConfigured(b, deps[b])'
    BY <1>2 DEF Settled
  <2>1. CASE b = a
    BY <1>2, <1>3, <1>5, <2>1 DEF IInv, Settled, SaysNothing, SaysConfigured, GroupIn
  <2>2. CASE b # a
    BY <1>2, <1>5, <2>2 DEF IInv, Settled, SaysConfigured, GroupIn
  <2>. QED
    BY <2>1, <2>2
<1>. QED
  BY <1>2, <1>5, <1>6 DEF IInv, Typed, GroupsByName

LEMMA ResyncStep == IInv /\ (Resync \/ RouteChanges) => IInv'
<1>. SUFFICES ASSUME IInv, Resync \/ RouteChanges PROVE IInv'
  OBVIOUS
<1>1. UNCHANGED <<deps, config, passed, page, regrouped>> /\ budget' \in 0 .. MaxDisturbances
  BY DisturbTyped DEF IInv, Resync, RouteChanges
<1>2. /\ routes' \subseteq RouteNames /\ called' \in BOOLEAN
      /\ todo' = todo \/ todo' = DOMAIN config
  BY DEF IInv, Typed, Resync, RouteChanges
<1>3. Settled'
  <2>1. CASE todo' = todo
    BY <1>1, <2>1 DEF IInv, Settled, SaysConfigured, GroupIn
  <2>2. CASE todo' = DOMAIN config
    BY <1>1, <2>2, AllToWrite DEF IInv
  <2>. QED
    BY <1>2, <2>1, <2>2
<1>. QED
  BY <1>1, <1>2, <1>3 DEF IInv, Typed, GroupsByName

LEMMA StepIInv == IInv /\ [Next]_vars => IInv'
<1>1. IInv /\ UNCHANGED vars => IInv'
  BY DEF vars, IInv, Typed, Settled, SaysConfigured, GroupIn, GroupsByName
<1>. QED
  BY <1>1, DiscoverStep, ApplyStep, PassOverStep, PageStep, UserEditsStep, RolloutStep, OwnerStripsLabelStep,
     ResyncStep DEF Next, Controllers, Handled, Watches, Disturbances

LEMMA Strengthened == Spec => []IInv
BY InitIInv, StepIInv, PTL DEF Spec

----------------------------------------------------------------------------
(* What follows from it *)

\* The variables keep their types.
THEOREM TypeCorrect == Spec => []TypeOK
<1>1. IInv => TypeOK
  <2>. SUFFICES ASSUME IInv PROVE TypeOK
    OBVIOUS
  <2>1. DOMAIN config \subseteq Apps /\ \A a \in DOMAIN config : config[a] \in Entries
    BY ConfigIs DEF IInv, Typed
  <2>2. /\ page.loaded \subseteq {"deployments", "routes"}
        /\ DOMAIN page.deployments \subseteq Keys
        /\ \A k \in DOMAIN page.deployments : page.deployments[k] \in Annotations
        /\ page.routes \subseteq Here(RouteNames) \cup RoutesElsewhere
    BY DEF IInv, Typed, Pages
  <2>. QED
    BY <2>1, <2>2 DEF IInv, Typed, TypeOK
<1>. QED
  BY <1>1, Strengthened, PTL

\* Whatever has been loaded, each enabled deployment is on exactly one card, of its
\* namespace.
THEOREM CardsPartitionPage == Spec => []OneCard
<1>1. OneCard
  <2>. SUFFICES ASSUME Ready, NEW q \in Ranks
                PROVE  /\ UNION {c.members : c \in Shown(q)} = EnabledIn(page.deployments)
                       /\ \A c1, c2 \in Shown(q) : c1 # c2 => c1.members \cap c2.members = {}
                       /\ \A c \in Shown(q) : \A j, k \in c.members : j[1] = k[1]
    BY DEF OneCard
  <2>1. Shown(q) = Cards(page.deployments, page.routes, q)
    BY DEF Shown
  <2>. QED
    BY <2>1, CardsPartition
<1>. QED
  BY <1>1, PTL

\* An app that is on a card is enabled on the page.
LEMMA AppOnCard ==
  ASSUME NEW q \in Ranks, NEW a \in UNION AppCards(q)
  PROVE  /\ a \in Apps /\ <<Home, a>> \in EnabledIn(page.deployments)
         /\ Shown(q) = Cards(page.deployments, page.routes, q)
<1>1. a \in Apps /\ \E c \in Shown(q) : <<Home, a>> \in c.members
  BY DEF AppCards
<1>2. Shown(q) = Cards(page.deployments, page.routes, q)
  BY <1>1 DEF Shown
<1>. QED
  BY <1>1, <1>2, CardsPartition

\* Two apps that are on cards are on one if the page lists them in one group.
LEMMA TogetherAsListed ==
  ASSUME NEW q \in Ranks, NEW a \in UNION AppCards(q), NEW b \in UNION AppCards(q),
         Group(page.deployments, <<Home, b>>) # Blank
  PROVE  (\E C \in AppCards(q) : {a, b} \subseteq C)
           <=> Group(page.deployments, <<Home, a>>) = Group(page.deployments, <<Home, b>>)
<1>. DEFINE ds == page.deployments
            j == <<Home, a>>
            k == <<Home, b>>
<1>1. /\ a \in Apps /\ b \in Apps
      /\ j \in EnabledIn(ds) /\ k \in EnabledIn(ds)
      /\ Shown(q) = Cards(ds, page.routes, q)
  BY AppOnCard
<1>2. (\E C \in AppCards(q) : {a, b} \subseteq C) <=> (\E c \in Shown(q) : {j, k} \subseteq c.members)
  <2>. DEFINE here(c) == {x \in Apps : <<Home, x>> \in c.members}
  <2>1. \A c : {a, b} \subseteq here(c) <=> {j, k} \subseteq c.members
    BY <1>1
  <2>2. \A C : C \in AppCards(q) <=> \E c \in Shown(q) : C = here(c)
    BY DEF AppCards
  <2>. HIDE DEF here, j, k
  <2>. QED
    BY <2>1, <2>2
<1>3. j[1] = Home /\ k[1] = Home /\ Group(ds, k) # Blank
  OBVIOUS
<1>. HIDE DEF j, k, ds
<1>4. (\E c \in Shown(q) : {j, k} \subseteq c.members) <=> j \in Peers(ds, k)
  BY <1>1, OnOneCard
<1>5. j \in Peers(ds, k) <=> Group(ds, j) = Group(ds, k)
  BY <1>1, <1>3 DEF Peers
<1>. QED
  BY <1>2, <1>4, <1>5 DEF j, k, ds

\* At rest, an app that is on a card and was not passed over is one that the config
\* shows, and what the page says of it is what the config says.
LEMMA AppAsConfigured ==
  ASSUME IInv, AtRest, NEW q \in Ranks, NEW a \in (UNION AppCards(q)) \ passed
  PROVE  /\ Wanted(a)
         /\ Group(page.deployments, <<Home, a>>) = GroupIn(a)
         /\ GroupIn(a) # Blank
<1>1. a \in Apps /\ <<Home, a>> \in EnabledIn(Listed) /\ page.deployments = Listed
  BY AppOnCard DEF AtRest
<1>2. deps[a] # Blank /\ Listed[<<Home, a>>] = deps[a]
  BY <1>1, ListedIs DEF EnabledIn, IInv
<1>3. SaysConfigured(a, deps[a])
  <2>1. ~SaysNothing(deps[a])
    BY <1>1, <1>2 DEF EnabledIn, SaysNothing, IInv, Typed, Annotations
  <2>. QED
    BY <1>1, <1>2, <2>1 DEF IInv, Settled, AtRest
<1>4. Wanted(a)
  BY <1>1, <1>2, <1>3 DEF EnabledIn, SaysConfigured, Wanted
<1>5. GroupIn(a) # Blank
  BY <1>1, <1>3, ConfigIs, AppliedTextIs DEF GroupIn, SaysConfigured, IInv, Typed
<1>. QED
  BY <1>1, <1>2, <1>3, <1>4, <1>5 DEF Group, SaysConfigured

\* Once CMR is through, the cards are those of the config, of apps whose last write
\* was not refused: no other write, lost label, rollout or edit makes a difference.
THEOREM CardsFollowConfig == Spec => []CardsAsConfigured
<1>1. IInv => CardsAsConfigured
  <2>. SUFFICES ASSUME IInv, AtRest, NEW q \in Ranks,
                       NEW a \in (UNION AppCards(q)) \ passed, NEW b \in (UNION AppCards(q)) \ passed
                PROVE  /\ Wanted(a)
                       /\ (\E C \in AppCards(q) : {a, b} \subseteq C) <=> GroupIn(a) = GroupIn(b)
    BY DEF CardsAsConfigured
  <2>1. /\ Wanted(a)
        /\ Group(page.deployments, <<Home, a>>) = GroupIn(a)
        /\ Group(page.deployments, <<Home, b>>) = GroupIn(b)
        /\ Group(page.deployments, <<Home, b>>) # Blank
    BY AppAsConfigured
  <2>. QED
    BY <2>1, TogetherAsListed
<1>. QED
  BY <1>1, Strengthened, PTL

----------------------------------------------------------------------------
(* Groups by name *)

\* What deployment d says of app a, whenever that was written, is the group that the
\* name of a tells.
GroupByName(a) == IF ParentApp(a) = Blank THEN a ELSE ParentApp(a)
SaysGroupByName(a, d) == SaysNothing(d) \/ d.text["appGroup"] = GroupByName(a)

GroupsWritten ==
  \A a \in Apps \ regrouped :
    /\ deps[a] # Blank => SaysGroupByName(a, deps[a])
    /\ LET k == <<Home, a>>
       IN  k \in DOMAIN page.deployments => SaysGroupByName(a, page.deployments[k])

LEMMA InitGroupsWritten == Init => GroupsWritten
<1>. SUFFICES ASSUME Init, NEW a \in Apps
              PROVE  /\ deps[a] # Blank => SaysNothing(deps[a])
                     /\ DOMAIN page.deployments = {}
  BY DEF GroupsWritten, SaysGroupByName
<1>1. deps[a] \in {Plain, Blank}
  BY DEF Init
<1>2. page = Unloaded
  BY DEF Init
<1>. QED
  BY <1>1, <1>2, PlainIs DEF Unloaded, NoConfig

\* Steps that change neither the page nor what there is to be read of a deployment,
\* but to an extent that says nothing, or has the group by name.
LEMMA GroupsWrittenIf ==
  ASSUME GroupsWritten, regrouped \subseteq regrouped', UNCHANGED page.deployments,
         \A a \in Apps \ regrouped :
           deps'[a] = deps[a] \/ deps'[a] = Blank \/ SaysGroupByName(a, deps'[a])
  PROVE  GroupsWritten'
BY DEF GroupsWritten, SaysGroupByName, SaysNothing

LEMMA ApplyGroups == ASSUME NEW a \in Apps PROVE IInv /\ GroupsWritten /\ Apply(a) => GroupsWritten'
<1>. SUFFICES ASSUME IInv, GroupsWritten, Apply(a) PROVE GroupsWritten'
  OBVIOUS
<1>1. /\ a \in DOMAIN config /\ config[a] \in Entries
      /\ deps \in [Apps -> Annotations \cup {Blank}] /\ UNCHANGED <<page, regrouped>>
  BY ConfigIs DEF IInv, Typed, Apply
<1>2. /\ \A b \in Apps : b # a => deps'[b] = deps[b]
      /\ deps[a] = Blank => deps'[a] = Blank
      /\ deps[a] # Blank => deps'[a] = Written(deps[a], a, config[a])
  BY <1>1 DEF Apply
<1>3. ASSUME deps[a] # Blank, a \notin regrouped
      PROVE  deps'[a].text["appGroup"] = GroupByName(a)
  <2>1. deps'[a].text["appGroup"] = AppliedText(a, config[a])["appGroup"]
    BY <1>1, <1>2, <1>3, WrittenIs
  <2>2. config[a].text["appGroup"] = ParentApp(a)
    BY <1>1, <1>3 DEF IInv, GroupsByName
  <2>. QED
    BY <2>1, <2>2, ViewAssumption DEF AppliedText, GroupByName
<1>. QED
  BY <1>1, <1>2, <1>3, GroupsWrittenIf DEF SaysGroupByName

\* The page lists what the deployments say.
LEMMA WatchGroups == IInv /\ GroupsWritten /\ WatchDeployments => GroupsWritten'
<1>. SUFFICES ASSUME IInv, GroupsWritten, WatchDeployments PROVE GroupsWritten'
  OBVIOUS
<1>1. page \in Pages /\ Typed
  BY DEF IInv, Typed
<1>2. page'.deployments = Listed /\ UNCHANGED <<deps, regrouped>>
  BY <1>1 DEF WatchDeployments, Pages
<1>3. ASSUME NEW a \in Apps \ regrouped, <<Home, a>> \in DOMAIN Listed
      PROVE  SaysGroupByName(a, Listed[<<Home, a>>])
  <2>1. deps[a] # Blank /\ Listed[<<Home, a>>] = deps[a]
    BY <1>1, <1>3, ListedIs
  <2>. QED
    BY <2>1 DEF GroupsWritten
<1>. QED
  BY <1>2, <1>3 DEF GroupsWritten, SaysGroupByName, SaysNothing

LEMMA DisturbanceGroups ==
  IInv /\ GroupsWritten /\ (Rollout \/ OwnerStripsLabel \/ Reload) => GroupsWritten'
<1>. SUFFICES ASSUME IInv, GroupsWritten PROVE Rollout \/ OwnerStripsLabel \/ Reload => GroupsWritten'
  OBVIOUS
<1>0. deps \in [Apps -> Annotations \cup {Blank}]
  BY DEF IInv, Typed
<1>1. CASE Rollout
  <2>1. PICK a \in Apps : deps' = [deps EXCEPT ![a] = IF deps[a] = Blank THEN Plain ELSE Blank]
    BY <1>1 DEF Rollout
  <2>2. \A b \in Apps : deps'[b] = deps[b] \/ deps'[b] = Blank \/ SaysNothing(deps'[b])
    BY <1>0, <2>1, PlainIs
  <2>. QED
    BY <1>1, <2>2, GroupsWrittenIf DEF Rollout, SaysGroupByName
<1>2. CASE OwnerStripsLabel
  <2>1. PICK a \in Deployed : deps' = [deps EXCEPT ![a].label = FALSE]
    BY <1>2 DEF OwnerStripsLabel
  <2>2. a \in Apps /\ deps[a] \in Annotations /\ deps[a] # Blank
    BY <1>0 DEF Deployed
  <2>3. /\ \A b \in Apps : b # a => deps'[b] = deps[b]
        /\ deps'[a].label = FALSE /\ deps'[a].note = deps[a].note /\ deps'[a].text = deps[a].text
    BY <1>0, <2>1, <2>2 DEF Annotations
  <2>4. a \notin regrouped => SaysGroupByName(a, deps'[a])
    BY <2>2, <2>3 DEF GroupsWritten, SaysGroupByName, SaysNothing
  <2>. QED
    BY <1>2, <2>3, <2>4, GroupsWrittenIf DEF OwnerStripsLabel
<1>3. CASE Reload
  <2>1. UNCHANGED <<deps, regrouped>> /\ DOMAIN page'.deployments = {}
    BY <1>3 DEF Reload, Unloaded, NoConfig
  <2>. QED
    BY <2>1 DEF GroupsWritten, SaysGroupByName, SaysNothing
<1>. QED
  BY <1>1, <1>2, <1>3

LEMMA StepGroupsWritten == IInv /\ GroupsWritten /\ [Next]_vars => GroupsWritten'
<1>. SUFFICES ASSUME IInv, GroupsWritten, [Next]_vars PROVE GroupsWritten'
  OBVIOUS
<1>1. CASE UserEdits
  <2>1. UNCHANGED <<deps, page>> /\ regrouped \subseteq regrouped'
    BY <1>1 DEF UserEdits
  <2>. QED
    BY <2>1, GroupsWrittenIf
<1>2. CASE Discover \/ (\E a \in Apps : PassOver(a)) \/ RouteChanges \/ Resync \/ UNCHANGED vars
  <2>1. UNCHANGED <<deps, page, regrouped>>
    BY <1>2 DEF Discover, PassOver, RouteChanges, Resync, vars
  <2>. QED
    BY <2>1, GroupsWrittenIf
<1>3. CASE WatchRoutes
  <2>1. UNCHANGED <<deps, regrouped>> /\ page'.deployments = page.deployments
    BY <1>3 DEF WatchRoutes, IInv, Typed, Pages
  <2>. QED
    BY <2>1, GroupsWrittenIf
<1>. QED
  BY <1>1, <1>2, <1>3, ApplyGroups, WatchGroups, DisturbanceGroups
     DEF Next, Controllers, Handled, Watches, Disturbances

\* Unless users have regrouped them, a database joins the app it is named after: on
\* every page that the console loads, at any moment of a round of CMR, and whichever
\* of its writes are refused.
THEOREM DatabasesJoinTheirApps == Spec => []DatabasesJoin
<1>1. GroupsWritten /\ Typed => DatabasesJoin
  <2>. SUFFICES ASSUME GroupsWritten, Typed, NEW q \in Ranks,
                       NEW a \in (UNION AppCards(q)) \ regrouped,
                       NEW p \in (UNION AppCards(q)) \ regrouped, NamedDatabaseOf(a, p)
                PROVE  \E C \in AppCards(q) : {a, p} \subseteq C
    BY DEF DatabasesJoin
  <2>1. a \in Apps /\ p \in Apps
    BY AppOnCard
  <2>2. ParentApp(a) = p /\ ParentApp(p) = Blank
    BY <2>1, NamedAfterParent, NamingAssumption
  <2>3. p # Blank
    BY <2>1, ViewAssumption, NamesAssumption, BlankAssumption
  <2>4. \A b \in (UNION AppCards(q)) \ regrouped :
          Group(page.deployments, <<Home, b>>) = GroupByName(b)
    <3>. SUFFICES ASSUME NEW b \in (UNION AppCards(q)) \ regrouped
                  PROVE  Group(page.deployments, <<Home, b>>) = GroupByName(b)
      OBVIOUS
    <3>1. b \in Apps /\ <<Home, b>> \in EnabledIn(page.deployments)
      BY AppOnCard
    <3>. QED
      BY <3>1 DEF GroupsWritten, SaysGroupByName, SaysNothing, EnabledIn, Group, Typed, Pages, Annotations
  <2>5. GroupByName(a) = p /\ GroupByName(p) = p
    BY <2>2, <2>3 DEF GroupByName
  <2>6. /\ Group(page.deployments, <<Home, a>>) = p
        /\ Group(page.deployments, <<Home, p>>) = p
    BY <2>4, <2>5
  <2>. QED
    BY <2>3, <2>6, TogetherAsListed
<1>2. Spec => []GroupsWritten
  BY Strengthened, InitGroupsWritten, StepGroupsWritten, PTL DEF Spec
<1>. QED
  BY <1>1, <1>2, Strengthened, PTL DEF IInv

\* A group in which one app declares a route, one there is, opens that route.
THEOREM DeclaredRoutesOpen == Spec => []DeclaredRouteOpens
<1>. DEFINE ds == page.deployments
            RouteOf(k) == ds[k].text["primaryRoute"]
<1>1. IInv => DeclaredRouteOpens
  <2>. SUFFICES ASSUME IInv, NEW q \in Ranks, NEW c \in Shown(q), NEW k \in c.members,
                       \A j \in c.members : RouteOf(j) # Blank <=> j = k,
                       <<k[1], RouteOf(k)>> \in page.routes
                PROVE  c.opens = {<<k[1], RouteOf(k)>>}
    BY DEF DeclaredRouteOpens
  <2>1. PICK k0 \in EnabledIn(ds) : c = CardOf(ds, page.routes, q, k0)
    BY DEF Shown, Cards
  <2>2. c.members = Peers(ds, k0) /\ c.members \subseteq EnabledIn(ds)
    BY <2>1, CardMembers, PeersAre
  <2>3. q[k] \in Nat
    <3>1. k \in Keys /\ q \in [Keys -> Nat]
      BY <2>2, ViewAssumption DEF EnabledIn, IInv, Typed, Pages
    <3>. QED
      BY <3>1
  <2>4. Main(ds, page.routes, q, c.members) = k
    BY <2>3, DeclaringIsMain
  <2>5. c.opens = Opens(ds, page.routes, k)
    BY <2>1, <2>2, <2>4 DEF CardOf
  <2>6. \A r \in page.routes : r = <<r[1], r[2]>>
    BY ViewAssumption DEF IInv, Typed, Pages, Here
  <2>7. Opens(ds, page.routes, k) = {<<k[1], RouteOf(k)>>}
    BY <2>6, DeclaredIsOpened
  <2>. QED
    BY <2>5, <2>7
<1>. QED
  BY <1>1, Strengthened, PTL
=============================================================================
