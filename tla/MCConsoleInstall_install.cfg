SPECIFICATION FairSpec
INVARIANTS TypeOK Installed LoadedIsInstalled
PROPERTIES OtherPluginsKept IsRegistry InstallEnds
CHECK_DEADLOCK FALSE
CONSTANTS
  Absent = Absent
  d1 = d1
  p1 = p1
  p2 = p2
  p3 = p3
  Dashboards = {d1}
  PluginNames = {p1, p2}
  OtherPlugins = {p3}
  Workload <- MCWorkload
  UserSpecs <- MCUserSpecs
  Kinds = {"error", "edit", "console", "route", "resync", "restart"}
  MaxDisturbances = 2
