SPECIFICATION Spec
INVARIANTS AnnotationsImported
CHECK_DEADLOCK FALSE
CONSTANTS
  Absent = Absent
  Malformed = Malformed
  Blank = Blank
  NoUrl = NoUrl
  Incomplete = Incomplete
  a1 = a1
  a2 = a2
  x = x
  y = y
  u1 = u1
  u2 = u2
  l1 = l1
  Apps = {a1}
  Fields = {"displayName"}
  Texts = {x, y}
  LinkNames = {}
  Urls = {}
  Guess <- MCGuess
  Assumed <- MCGuess
  Unannotated <- MCUnannotated
  UserEntries <- MCPlainEntries
  UserSpecs <- MCSpecs
  InitialClusters <- MCUnlabelledCluster
  Running = {"nsr", "cmr", "dncr"}
  Kinds = {}
  MaxDisturbances = 1
