CONSTANTS
  Bg = Bg
  NoContext = NoContext
  Main = Main
  MaxThreads = 3
  NumTeams = 2
  FifoDepth = 5
  DefaultThreads = 2
  NumTasks = 3
  Region <- NoConstructs
  NumSections = 2
  RegionOps = {"yield", "critical"}
  TaskOps = {}
  SerialOps = {}
  Fuel = 2
  IfClauses = {TRUE}
  NumThreads = {2, 3}
  MaxRegions = 2
  Locks = {}
  NestLocks = {}
  NoLock = NoLock
  MaxNest = 0
  MaxExplicit = 0
SPECIFICATION FairSpec
PROPERTY GetsMutex

