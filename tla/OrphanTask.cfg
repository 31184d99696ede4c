CONSTANTS
  Bg = Bg
  NoContext = NoContext
  Main = Main
  MaxThreads = 3
  NumTeams = 2
  FifoDepth = 5
  DefaultThreads = 2
  NumTasks = 4
  Region <- NoConstructs
  NumSections = 2
  RegionOps = {"yield"}
  TaskOps = {"yield"}
  SerialOps = {"task"}
  Fuel = 1
  IfClauses = {TRUE}
  NumThreads = {2}
  MaxRegions = 1
  Locks = {}
  NestLocks = {}
  NoLock = NoLock
  MaxNest = 0
  MaxExplicit = 1
SPECIFICATION Spec
INVARIANTS RegionOver

