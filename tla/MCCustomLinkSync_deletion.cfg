CONSTANTS
  Absent = Absent
  NoLink = NoLink
  Links = {a}
  MaxDisturbances = 2
SPECIFICATION FairSpec
CHECK_DEADLOCK FALSE
PROPERTIES DeletionEnds
