CONSTANTS
  Bg = Bg
  NoContext = NoContext
  Main = Main
  MaxThreads = 3
  NumTeams = 2
  FifoDepth = 5
  DefaultThreads = 2
  NumTasks = 4
  Region <- NoConstructs
  NumSections = 2
  RegionOps = {"yield", "task"}
  TaskOps = {"yield", "task"}
  SerialOps = {}
  Fuel = 2
  IfClauses = {TRUE, FALSE}
  NumThreads = {2, 9}
  MaxRegions = 2
  Locks = {}
  NestLocks = {}
  NoLock = NoLock
  MaxNest = 0
  MaxExplicit = 3
SPECIFICATION FairSpec
INVARIANTS TaskConservation RegionOver
PROPERTY Termination
