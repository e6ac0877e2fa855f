SPECIFICATION FairGroupsSpec
INVARIANTS GroupsTypeOK
PROPERTIES ConfigMapKept MembersJoin
CHECK_DEADLOCK FALSE
CONSTANTS
  Absent = Absent
  Malformed = Malformed
  Blank = Blank
  NoUrl = NoUrl
  Incomplete = Incomplete
  a1 = a1
  a2 = a2
  x = x
  g1 = g1
  g2 = g2
  Apps = {a1}
  Groups = {g1}
  Fields = {"appGroup"}
  Texts = {a1, x, g1, g2}
  LinkNames = {}
  Urls = {}
  Guess <- MCGuess
  Assumed <- MCGuess
  Unannotated <- MCUnannotated
  UserEntries <- MCPlainEntries
  UserSpecs = {}
  GroupSpecs <- MCGroupSpecs
  RouteOwners <- MCRouteOwners
  InitialClusters <- MCNewClusters
  Running = {"nsr", "cmr", "agc"}
  Kinds = {"group", "deployment", "config", "error", "restart", "resync"}
  MaxDisturbances = 1
