CONSTANTS
  Absent = Absent
  NoLink = NoLink
  Links = {a, b}
  MaxDisturbances = 2
SPECIFICATION Spec
CHECK_DEADLOCK FALSE
SYMMETRY LinkSymmetry
INVARIANTS TypeOK QuiescentAgree QuiescentReported
PROPERTIES UserLinkKept HasLifecycle
