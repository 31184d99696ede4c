CONSTANTS
  Bg = Bg
  NoContext = NoContext
  Pool = {t1, t2, t3, t4, t5}
  Objects = {o1, o2, o3}
  FifoDepth <- Tight
  Depth <- Tight
SPECIFICATION FairSpec
INVARIANTS TypeOK OnePlace BgUnderneath PendingFits NeverFull
PROPERTY RunsAgain
