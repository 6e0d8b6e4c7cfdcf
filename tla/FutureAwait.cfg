CONSTANTS
  w1 = w1
  d1 = d1
  Waiters = {w1}
  Owners = {w1}
  Decrs = {d1}
  Incrs = {}
  Null = Null
  NumSlots = 4
  Target = 0
  MaxWaits = 1
SPECIFICATION Spec
INVARIANTS
  NoUseAfterFree
CHECK_DEADLOCK FALSE
