SPECIFICATION FairSpec
CONSTANTS
  a1 = a1  s1 = s1  s2 = s2  a2 = a2  p1 = p1
  Agents = {a1}
  Windows = {}
  Slots = {s1}
  MaxTasks = 3
  MaxRows = 2
  Profiles = {p1}
  Builtin = {}
  NoProfile = NoProfile
  NoSlot = NoSlot
  Faults = {"loss", "crash", "raise"}
INVARIANT LatestScanWins
PROPERTIES LifecycleSpec PendingDelivered
CHECK_DEADLOCK FALSE
