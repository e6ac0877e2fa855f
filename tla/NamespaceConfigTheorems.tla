---------------------- MODULE NamespaceConfigTheorems ----------------------
(* What the config functions keep, add and bound, for any apps, fields,    *)
(* texts, links and targets.                                               *)
EXTENDS NamespaceConfig, TLAPS

\* An app map is a function from some apps into the given set.
LEMMA AppMapIs ==
  ASSUME NEW S
  PROVE  /\ \A c \in AppMaps(S) : DOMAIN c \subseteq Apps /\ c \in [DOMAIN c -> S]
         /\ \A A \in SUBSET Apps : \A c \in [A -> S] : c \in AppMaps(S)
BY DEF AppMaps

LEMMA ZeroEntryType == ZeroEntry \in Entries
BY DEF ZeroEntry, Entries, Text, LinkLists, NoLinks

LEMMA EntryOfType ==
  ASSUME NEW c \in Configs, NEW n
  PROVE  EntryOf(c, n) \in Entries
<1>1. c \in [DOMAIN c -> Entries]
  BY AppMapIs DEF Configs
<1>. QED
  BY <1>1, ZeroEntryType DEF EntryOf

LEMMA FillTextIs ==
  ASSUME NEW t \in Text, NEW d \in Text, NEW fs
  PROVE  /\ FillText(t, d, fs) \in Text
         /\ \A f \in Fields : t[f] # Blank => FillText(t, d, fs)[f] = t[f]
         /\ FillText(t, t, fs) = t
         /\ FillText(FillText(t, d, fs), d, fs) = FillText(t, d, fs)
<1>1. \A f \in Fields : t[f] \in Texts \cup {Blank} /\ d[f] \in Texts \cup {Blank}
  BY DEF Text
<1>2. FillText(t, d, fs) \in Text
  BY <1>1 DEF FillText, Text
<1>3. FillText(t, t, fs) = t
  BY DEF FillText, Text
<1>4. FillText(FillText(t, d, fs), d, fs) = FillText(t, d, fs)
  BY DEF FillText
<1>5. \A f \in Fields : t[f] # Blank => FillText(t, d, fs)[f] = t[f]
  BY DEF FillText
<1>. QED
  BY <1>2, <1>3, <1>4, <1>5

LEMMA FilledIs ==
  ASSUME NEW e \in Entries, NEW d \in Entries, NEW fs
  PROVE  /\ Filled(e, d, fs) \in Entries
         /\ Filled(e, d, fs).enabled = e.enabled
         /\ Filled(e, d, fs).links = e.links
         /\ \A f \in Fields : e.text[f] # Blank => Filled(e, d, fs).text[f] = e.text[f]
BY FillTextIs DEF Filled, Entries

\* Completing a config (mergeConfigMap, mergeDiscoveredApps) keeps what it says,
\* whatever discovery found.
THEOREM CompletedKeeps ==
  ASSUME NEW c \in Configs, NEW d \in Configs, NEW fs
  PROVE  Completed(c, d, fs) \in Configs /\ Keeps(c, Completed(c, d, fs))
<1>. DEFINE m == Completed(c, d, fs)
<1>1. /\ DOMAIN c \subseteq Apps /\ c \in [DOMAIN c -> Entries]
      /\ DOMAIN d \subseteq Apps /\ d \in [DOMAIN d -> Entries]
  BY AppMapIs DEF Configs
<1>2. \A n \in DOMAIN c \cup DOMAIN d :
        /\ n \notin DOMAIN c => m[n] = d[n]
        /\ n \in DOMAIN c /\ n \in DOMAIN d => m[n] = Filled(c[n], d[n], fs)
        /\ n \in DOMAIN c /\ n \notin DOMAIN d => m[n] = c[n]
  BY DEF Completed
<1>3. DOMAIN m = DOMAIN c \cup DOMAIN d
  BY DEF Completed
<1>4. \A n \in DOMAIN m : m[n] \in Entries
  BY <1>1, <1>2, <1>3, FilledIs
<1>5. m = [n \in DOMAIN c \cup DOMAIN d |-> m[n]]
  BY DEF Completed
<1>. HIDE DEF m
<1>6. m \in [DOMAIN c \cup DOMAIN d -> Entries]
  BY <1>3, <1>4, <1>5
<1>7. m \in Configs
  BY <1>1, <1>6, AppMapIs DEF Configs
<1>8. Keeps(c, m)
  <2>. SUFFICES ASSUME NEW n \in DOMAIN c
                PROVE  /\ n \in DOMAIN m
                       /\ m[n].enabled = c[n].enabled
                       /\ \A f \in Fields : c[n].text[f] # Blank => m[n].text[f] = c[n].text[f]
                       /\ m[n].links = c[n].links
    BY DEF Keeps
  <2>1. CASE n \in DOMAIN d
    BY <2>1, <1>1, <1>2, <1>3, FilledIs
  <2>2. CASE n \notin DOMAIN d
    BY <2>2, <1>2, <1>3
  <2>. QED
    BY <2>1, <2>2
<1>. QED
  BY <1>7, <1>8 DEF m

\* Overlaying one declaration keeps the type of the entry, and the entry says
\* all that was declared.
LEMMA OverlaidIs ==
  ASSUME NEW e \in Entries, NEW a \in Declarations
  PROVE  /\ Overlaid(e, a) \in Entries
         /\ a.enabled # Blank => Overlaid(e, a).enabled = a.enabled
         /\ \A f \in Fields : a.text[f] # Blank => Overlaid(e, a).text[f] = a.text[f]
         /\ a.links # NoLinks => Overlaid(e, a).links = a.links
<1>1. /\ a.enabled \in BOOLEAN \cup {Blank} /\ a.text \in Text /\ a.links \in LinkLists
      /\ e.enabled \in BOOLEAN /\ e.text \in Text /\ e.links \in LinkLists
  BY DEF Entries, Declarations
<1>2. FillText(a.text, e.text, Fields) \in Text
  BY <1>1, FillTextIs
<1>3. \A f \in Fields : a.text[f] # Blank => FillText(a.text, e.text, Fields)[f] = a.text[f]
  BY <1>1 DEF FillText
<1>. QED
  BY <1>1, <1>2, <1>3 DEF Overlaid, Entries

\* overlayDashboardNamespaceConfig leaves no declaration out, whatever the
\* config said before.
THEOREM OverlayContains ==
  ASSUME NEW c \in Configs, NEW apps \in AppMaps(Declarations)
  PROVE  Overlay(c, apps) \in Configs /\ Contains(Overlay(c, apps), apps)
<1>. DEFINE m == Overlay(c, apps)
<1>1. /\ DOMAIN c \subseteq Apps /\ c \in [DOMAIN c -> Entries]
      /\ DOMAIN apps \subseteq Apps /\ apps \in [DOMAIN apps -> Declarations]
  BY AppMapIs DEF Configs
<1>2. /\ \A n \in DOMAIN apps : m[n] = Overlaid(EntryOf(c, n), apps[n])
      /\ \A n \in (DOMAIN c) \ (DOMAIN apps) : m[n] = c[n]
  BY DEF Overlay
<1>3. DOMAIN m = DOMAIN c \cup DOMAIN apps /\ m = [n \in DOMAIN c \cup DOMAIN apps |-> m[n]]
  BY DEF Overlay
<1>. HIDE DEF m
<1>4. \A n \in DOMAIN m : m[n] \in Entries
  BY <1>1, <1>2, <1>3, OverlaidIs, EntryOfType
<1>5. m \in Configs
  <2>1. m \in [DOMAIN c \cup DOMAIN apps -> Entries]
    BY <1>3, <1>4
  <2>. QED
    BY <1>1, <2>1, AppMapIs DEF Configs
<1>6. Contains(m, apps)
  <2>. SUFFICES ASSUME NEW n \in DOMAIN apps
                PROVE  /\ n \in DOMAIN m
                       /\ apps[n].enabled # Blank => m[n].enabled = apps[n].enabled
                       /\ \A f \in Fields :
                            apps[n].text[f] # Blank => m[n].text[f] = apps[n].text[f]
                       /\ apps[n].links # NoLinks => m[n].links = apps[n].links
    BY DEF Contains
  <2>1. EntryOf(c, n) \in Entries /\ apps[n] \in Declarations
    BY <1>1, EntryOfType
  <2>. QED
    BY <1>2, <1>3, <2>1, OverlaidIs
<1>. QED
  BY <1>5, <1>6 DEF m

LEMMA DeclaredIs ==
  ASSUME NEW c \in Configs
  PROVE  Declared(c) \in AppMaps(Declarations)
<1>1. DOMAIN c \subseteq Apps /\ c \in [DOMAIN c -> Entries]
  BY AppMapIs DEF Configs
<1>2. \A n \in DOMAIN c : c[n].enabled \in BOOLEAN /\ c[n].text \in Text /\ c[n].links \in LinkLists
  BY <1>1 DEF Entries
<1>3. \A l \in LinkLists : Complete(l) \in LinkLists
  BY DEF Complete, LinkLists
<1>4. Declared(c) \in [DOMAIN c -> Declarations]
  BY <1>2, <1>3 DEF Declared, Declarations
<1>. QED
  BY <1>1, <1>4, AppMapIs

\* Import and overlay are inverse to each other: a config without incomplete
\* links survives being imported into an operand and written back.
THEOREM ImportRoundTrip ==
  ASSUME NEW c \in Configs,
         \A n \in DOMAIN c, l \in LinkNames : c[n].links[l] # Incomplete
  PROVE  Overlay(c, Declared(c)) = c
<1>1. DOMAIN c \subseteq Apps /\ c \in [DOMAIN c -> Entries]
  BY AppMapIs DEF Configs
<1>2. \A n \in DOMAIN c : Overlaid(c[n], Declared(c)[n]) = c[n]
  <2>. SUFFICES ASSUME NEW n \in DOMAIN c
                PROVE  Overlaid(c[n], Declared(c)[n]) = c[n]
    OBVIOUS
  <2>1. /\ c[n] \in Entries
        /\ c[n].enabled \in BOOLEAN /\ c[n].text \in Text /\ c[n].links \in LinkLists
        /\ c[n] = [enabled |-> c[n].enabled, text |-> c[n].text, links |-> c[n].links]
    BY <1>1 DEF Entries
  <2>2. Complete(c[n].links) = c[n].links
    BY <2>1 DEF Complete, LinkLists
  <2>3. Declared(c)[n] = c[n]
    BY <2>1, <2>2 DEF Declared
  <2>4. FillText(c[n].text, c[n].text, Fields) = c[n].text
    BY <2>1, FillTextIs
  <2>5. c[n].enabled # Blank
    BY <2>1, BlankAssumption
  <2>. QED
    BY <2>1, <2>3, <2>4, <2>5 DEF Overlaid
<1>3. DOMAIN Declared(c) = DOMAIN c
  BY DEF Declared
<1>4. \A n \in DOMAIN c : EntryOf(c, n) = c[n]
  BY DEF EntryOf
<1>5. Overlay(c, Declared(c)) = [n \in DOMAIN c |-> c[n]]
  BY <1>2, <1>3, <1>4 DEF Overlay
<1>. QED
  BY <1>1, <1>5

\* Dropping incomplete links once is enough, and leaves none where there are none.
LEMMA CompleteIs ==
  /\ Complete(NoLinks) = NoLinks
  /\ \A l \in LinkLists : Complete(l) \in LinkLists /\ Complete(Complete(l)) = Complete(l)
BY UrlAssumption DEF Complete, NoLinks, LinkLists

\* A config that contains what an operand declares contains it without the
\* incomplete links of both as well.
LEMMA DeclaredContains ==
  ASSUME NEW c \in Configs, NEW apps \in AppMaps(Declarations), Contains(c, apps)
  PROVE  Contains(Declared(c), Declared(apps))
<1>. SUFFICES ASSUME NEW n \in DOMAIN apps
              PROVE  /\ n \in DOMAIN c
                     /\ apps[n].enabled # Blank => c[n].enabled = apps[n].enabled
                     /\ \A f \in Fields : apps[n].text[f] # Blank => c[n].text[f] = apps[n].text[f]
                     /\ Complete(apps[n].links) # NoLinks
                          => Complete(c[n].links) = Complete(apps[n].links)
  BY DEF Contains, Declared
<1>. QED
  BY CompleteIs DEF Contains

\* What an import of a config declares, the config says.
LEMMA ImportContained ==
  ASSUME NEW c \in Configs
  PROVE  Contains(Declared(c), Declared(Declared(c)))
<1>1. c \in [DOMAIN c -> Entries]
  BY AppMapIs DEF Configs
<1>2. \A n \in DOMAIN c : Complete(Complete(c[n].links)) = Complete(c[n].links)
  BY <1>1, CompleteIs DEF Entries
<1>. QED
  BY <1>2 DEF Contains, Declared
=============================================================================
