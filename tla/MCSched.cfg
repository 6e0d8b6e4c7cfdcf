CONSTANTS
  Main = Main
  w1 = w1
  x1 = x1
  x2 = x2
  x3 = x3
  x4 = x4
  Null = Null
  Workers <- TwoWorkers
  Fibers <- ThreeFibers
  Jobs = {1, 2, 3}
  Programs <- FlatPrograms
  QueueSize = 3
SPECIFICATION MCSpec
INVARIANTS
  SchedulerIsSound
PROPERTIES
  RefinesAbstractJobs
  OneWorkerServesAll
  EverythingEnds
CHECK_DEADLOCK FALSE
