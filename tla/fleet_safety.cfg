SPECIFICATION Spec
CONSTANTS
  a1 = a1  s1 = s1  s2 = s2  a2 = a2  p1 = p1
  Agents = {a1, a2}
  Windows = {a2}
  Slots = {s1, s2}
  MaxTasks = 2
  MaxRows = 2
  Profiles = {p1}
  Builtin = {}
  NoProfile = NoProfile
  NoSlot = NoSlot
  Faults = {"loss", "straggler"}
SYMMETRY Symmetry
INVARIANTS TypeOK AtMostOnce OwnTasksOnly ScanRecorded
PROPERTY InOrder
CHECK_DEADLOCK FALSE
