CONSTANTS
  Absent = Absent
  NoLink = NoLink
  Links = {a, b}
  MaxDisturbances = 1
SPECIFICATION FairSpec
CHECK_DEADLOCK FALSE
PROPERTIES Converges
