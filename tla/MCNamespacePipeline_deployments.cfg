SPECIFICATION Spec
INVARIANTS LiveStateAgrees GroupsNormalized DeploymentsListed
CHECK_DEADLOCK FALSE
CONSTANTS
  Absent = Absent
  Malformed = Malformed
  Blank = Blank
  NoUrl = NoUrl
  Incomplete = Incomplete
  a1 = a1
  a2 = a2
  x = x
  y = y
  u1 = u1
  u2 = u2
  l1 = l1
  Apps = {a1, a2}
  Fields = {"displayName", "appGroup"}
  Texts = {a1, a2, x, y}
  LinkNames = {}
  Urls = {}
  Guess <- MCGuess
  Assumed <- MCGuess
  Unannotated <- MCUnannotated
  UserEntries <- MCPlainEntries
  UserSpecs <- MCSpecs
  InitialClusters <- MCDeployedClusters
  Running = {"nsr", "cmr", "dncr"}
  Kinds = {"deployment", "label", "error", "restart"}
  MaxDisturbances = 1
