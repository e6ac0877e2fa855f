SPECIFICATION FairSpec
INVARIANTS TypeOK OneCard CardsAsConfigured DatabasesJoin DeclaredRouteOpens
PROPERTIES AppsFollowConfig
CHECK_DEADLOCK FALSE
CONSTANTS
  Blank = Blank
  NoUrl = NoUrl
  Incomplete = Incomplete
  Apps <- MCApps
  Names <- MCNames
  WordsOf <- MCWordsOf
  KeywordsIn <- MCKeywordsIn
  TitleOf <- MCTitleOf
  DatabaseOf <- MCDatabaseOf
  Fields <- MCFields
  Texts <- MCTexts
  LinkNames = {}
  Urls = {}
  Home = "here"
  RouteNames = {"web"}
  TargetOf <- MCTargetOf
  Elsewhere <- MCElsewhere
  RoutesElsewhere <- MCRoutesElsewhere
  Ranks <- MCRanks
  UserTexts <- MCUserTexts
  Kinds = {"edit", "rollout", "route", "strip", "resync", "reload"}
  MaxDisturbances = 2
