SPECIFICATION FairSpec
PROPERTIES LinkDeletionEnds
CHECK_DEADLOCK FALSE
CONSTANTS
  Absent = Absent
  Malformed = Malformed
  Blank = Blank
  NoUrl = NoUrl
  Incomplete = Incomplete
  a1 = a1
  a2 = a2
  x = x
  y = y
  u1 = u1
  u2 = u2
  l1 = l1
  Apps = {a1}
  Fields = {}
  Texts = {x, y}
  LinkNames = {l1}
  Urls = {u1}
  Guess <- MCGuess
  Assumed <- MCGuess
  Unannotated <- MCUnannotated
  UserEntries <- MCLinkEntries
  UserSpecs <- MCSpecs
  InitialClusters <- MCLinkedCluster
  Running = {"cmr", "dlr"}
  Kinds = {"link", "error", "config"}
  MaxDisturbances = 2
