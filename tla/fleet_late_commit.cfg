SPECIFICATION Spec
CONSTANTS
  a1 = a1  s1 = s1  s2 = s2  a2 = a2  p1 = p1
  Agents = {a1}
  Windows = {}
  Slots = {s1, s2}
  MaxTasks = 1
  MaxRows = 2
  Profiles = {p1}
  Builtin = {p1}
  NoProfile = NoProfile
  NoSlot = NoSlot
  Faults = {"straggler"}
PROPERTY StatusForward
