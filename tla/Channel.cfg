CONSTANTS
  g1 = g1
  g2 = g2
  tg = tg
  p1 = p1
  p2 = p2
  p3 = p3
  tp = tp
  c1 = c1
  Getters = {g1, g2, tg}
  Putters = {p1, p2, p3, tp}
  Closers = {c1}
  Blocking = {g1, g2, p1, p2, p3}
  Nothing = Nothing
  Cap = 3
  MaxCalls = 1
SPECIFICATION FairSpec
INVARIANTS
  FibersAreSafe
  SleepersAreWoken
PROPERTIES
  RefinesAbstractChannel
CHECK_DEADLOCK FALSE
