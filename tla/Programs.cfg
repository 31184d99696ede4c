CONSTANTS
  Bg = Bg
  NoContext = NoContext
  Main = Main
  MaxThreads = 3
  NumTeams = 2
  FifoDepth = 5
  DefaultThreads = 2
  NumTasks = 6
  Locks <- Buckets
  NestLocks = {}
  NoLock = NoLock
  MaxLimit = 4
  Programs <- AllPrograms
  COLORS = 3
  MAX = 6
  THREADS = 32
  Base = 256
SPECIFICATION PermuteSpec
INVARIANTS Results PrintedInOrder AllFoundOnce
PROPERTY Termination
