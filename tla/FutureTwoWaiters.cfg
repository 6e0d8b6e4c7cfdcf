CONSTANTS
  w1 = w1
  w2 = w2
  d1 = d1
  Waiters = {w1, w2}
  Owners = {}
  Decrs = {d1}
  Incrs = {}
  Null = Null
  NumSlots = 4
  Target = 0
  MaxWaits = 1
SPECIFICATION FairSpec
PROPERTIES
  WaiterRescheduled
CHECK_DEADLOCK FALSE
