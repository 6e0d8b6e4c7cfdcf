CONSTANTS
  c1 = c1
  c2 = c2
  Cpus = {c1, c2}
  None = None
  Nil = Nil
  MinSize = 2
  Levels = 4
  Header = 2
  Permanent <- MCPermanent
  Sizes = {1, 3, 4, 8}
  MaxFree = 3
  Wrap = 32
  MaxCalls = 5
  PerFirst = 2
  PerSlab = 3
  MaxSlabs = 3
  MaxIds = 7
  Elements = 3
  Width = 4
  MaxGen = 6
  PieceSizes = {1, 2, 3, 6, 7}
  Buffer = 8
  BufferHeader = 3
  NodeHeader = 2
  Chunk = 8
  MaxPower = 5
  MaxAllocs = 5
  ArenaThreads = {t1, t2}
  ArenaCap = 11
  SlabSize = 4
  MaxArenaCalls = 7
  Names = {"core", "memory", "window", "input", "none"}
  Hash <- ModuleHash
  MaxModules = 4
  MaxLookups = 7
  NoName = NoName
  Streams = {"src", "dst"}
  UserBytes = {1}
  GrowSize = 2
  CopySize = 2
  MaxWrite = 2
  MaxBytes = 4
  NoStream = NoStream
SPECIFICATION StoresSpec
INVARIANTS
  HeapIsSound
  SlabsAreSound
  PiecesFit
  EverySlabOnce
  IdsLeadToTheirs
  ModulesHaveOneSlot
  PathsResolve
PROPERTIES
  RefinesAbstractHeap
  RefinesAbstractStream
CHECK_DEADLOCK FALSE
