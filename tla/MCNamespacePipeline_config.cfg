SPECIFICATION Spec
INVARIANTS TypeOK OperandApplied LiveStateAgrees Reported
PROPERTIES EntriesKept UserOperandKept
CHECK_DEADLOCK FALSE
CONSTANTS
  Absent = Absent
  Malformed = Malformed
  Blank = Blank
  NoUrl = NoUrl
  Incomplete = Incomplete
  a1 = a1
  a2 = a2
  x = x
  y = y
  u1 = u1
  u2 = u2
  l1 = l1
  Apps = {a1}
  Fields = {"displayName", "appGroup"}
  Texts = {a1, x, y}
  LinkNames = {}
  Urls = {}
  Guess <- MCGuess
  Assumed <- MCGuess
  Unannotated <- MCUnannotated
  UserEntries <- MCPlainEntries
  UserSpecs <- MCSpecs
  InitialClusters <- MCAnyClusters
  Running = {"nsr", "cmr", "dncr"}
  Kinds = {"config", "operand", "error", "restart", "resync"}
  MaxDisturbances = 1
