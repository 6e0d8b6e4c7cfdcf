CONSTANTS
  t1 = t1
  t2 = t2
  e1 = e1
  e2 = e2
  w1 = w1
  w2 = w2
  d1 = d1
  d2 = d2
  u1 = u1
  Null = Null
  Nil = Nil
  Threads = {t1, t2}
  Elems = {e1, e2}
  TagMod = 4
  Window = 3
  Waiters = {w1}
  Owners = {}
  Decrs = {d1, d2}
  Incrs = {u1}
  NumSlots = 2
  Target = 0
  MaxWaits = 2
  Nobody = Nobody
  Users = {w1, w2}
  Objects = {s1, s2}
  Workers = {l1, l2}
  Answers = {0, 7}
  MaxRepeats = 2
  MaxStarts = 3
SPECIFICATION SyncSpec
INVARIANTS
  StackIsSound
  WakeupsAreSound
  ReturnsAreDue
  AnswersAreTheirs
PROPERTIES
  RefinesAbstractStack
  RefinesAbstractFuture
  EveryoneGoesOn
CHECK_DEADLOCK FALSE
