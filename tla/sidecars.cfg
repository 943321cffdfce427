SPECIFICATION MCSpec
CONSTANTS
  r1 = r1  r2 = r2  k1 = k1  k2 = k2
  Workers = {k1, k2}
  Main = Main
  Idle = Idle
  Ranges = {r1, r2}
  NoRange = NoRange
  Proxy = Proxy
  Empty = Empty
  MaxEdits = 3
  Unwritten = Unwritten
INVARIANTS TypeOK ConfCurrent RunningCurrent ListCurrent StatusTrue
PROPERTY RequestServed
