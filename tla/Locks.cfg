CONSTANTS
  Bg = Bg
  NoContext = NoContext
  Main = Main
  MaxThreads = 3
  NumTeams = 2
  FifoDepth = 5
  DefaultThreads = 2
  NumTasks = 4
  Region <- NoConstructs
  NumSections = 2
  RegionOps = {"yield", "lock", "test", "nest", "testnest"}
  TaskOps = {"yield", "nest"}
  SerialOps = {"yield", "nest", "task", "reset"}
  Fuel = 3
  IfClauses = {TRUE}
  NumThreads = {2}
  MaxRegions = 1
  Locks = {l}
  NestLocks = {n}
  NoLock = NoLock
  MaxNest = 2
  MaxExplicit = 1
SPECIFICATION FairSpec
INVARIANT NestFieldsAgree
PROPERTIES LocksImplementMutex NestLocksImplementMutex GetsLock
