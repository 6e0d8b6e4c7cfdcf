CONSTANTS
  t1 = t1
  t2 = t2
  Slots = 2
  MaxFrames = 3
  MaxUploads = 2
  MaxStale = 1
  None = None
  Pages = {0, 1}
  MipLevel <- MCMipLevel
  TiledLevels = 2
  Memory = {m1, m2, m3, m4, m5, m6, m7}
  Buffers = {b1, b2, b3, b4, b5}
  Levels = {0, 1}
  States <- MCStates
  BufferChanges <- MCBufferChanges
  Family <- MCFamily
  NoOne = NoOne
  Families <- MCFamilies
  Types = {"graphics", "compute", "transfer"}
  Nodes = {0, 1}
  MaxCount = 2
  MaxLive = 4
  Machines <- MCMachines
  WantedExtensions = {"accel", "pipeline", "debug"}
  RayTracing = {"accel", "pipeline"}
  NoGpu = NoGpu
SPECIFICATION CacheSpec
INVARIANT BoundAsAsked
CHECK_DEADLOCK FALSE
