SPECIFICATION FairSpec
CONSTANTS
  u1 = u1  w1 = w1  w2 = w2  x = x  y = y  c1 = c1  c2 = c2
  Slugs = {u1, w1}
  Windows = {w1}
  Isos = {x, y}
  Admins = {c1}
  MaxJobs = 3
  MaxIds = 1
  None = None
  Torn = Torn
  Faults = {"crash", "tool"}
INVARIANTS TypeOK OneBuilder DoneIsWhole
PROPERTY BuildEnds
CHECK_DEADLOCK FALSE
