CONSTANTS
  Bg = Bg
  NoContext = NoContext
  Main = Main
  MaxThreads = 3
  NumTeams = 2
  FifoDepth = 5
  DefaultThreads = 2
  NumTasks = 3
  Region <- SyncRegion
  NumSections = 2
  RegionOps = {"yield"}
  TaskOps = {}
  SerialOps = {}
  Fuel = 1
  IfClauses = {TRUE}
  NumThreads = {0, 3}
  MaxRegions = 2
  Locks = {}
  NestLocks = {}
  NoLock = NoLock
  MaxNest = 0
  MaxExplicit = 0
SPECIFICATION FairSpec
INVARIANTS TypeOK OnePlace BarrierOrder SingleOnce SectionsOnce
PROPERTY Termination
