CONSTANTS
  MemSize = 13
  Byte = 8
  Sizes = {0, 2}
  Aligns = {1, 4}
  MallocAlign = 2
  Values = {3, 5}
  MaxTasks = 3
  MaxThreads = 3
  StackSize = 16
  Base = 64
  FrameSizes = {2, 3}
  MainSP = 40
  P = 5
  Systems <- SomeSystems
  ArgLists <- SomeArgs
  Costs <- SomeCosts
  Wrap = 600
  Word = 8
SPECIFICATION Spec
INVARIANTS FreesItsOwn ArgsIntact OwnBlock OwnNumber Solves NanIfSingular ReportsRealTime SpendsTicks
PROPERTIES Finishes Terminates
