CONSTANTS
  t1 = t1
  t2 = t2
  t3 = t3
  a = a
  b = b
  Threads = {t1, t2, t3}
  Values = {a, b}
  None = None
  N = 2
  MaxPuts = 3
SYMMETRY Symmetry
SPECIFICATION Spec
INVARIANTS
  CellOwnership
  ReadsOwnTicket
PROPERTIES
  RefusalsAreHonest
  RefinesAbstractQueue
