SPECIFICATION Spec
CONSTANTS
  u1 = u1  w1 = w1  w2 = w2  x = x  y = y  c1 = c1  c2 = c2
  Slugs = {w1, w2}
  Windows = {w1, w2}
  Isos = {x, y}
  Admins = {c1}
  MaxJobs = 2
  MaxIds = 1
  None = None
  Torn = Torn
  Faults = {}
INVARIANT DoneIsWhole
CHECK_DEADLOCK FALSE
