SPECIFICATION FairSpec
CONSTANTS
  Tabs = {t1, t2}
  NoTab = NoTab
  Locks = TRUE
  MaxSignIns = 2
  MaxTicks = 1
  MaxFaults = 0
  MaxEnds = 1
PROPERTIES EndReachesEveryTab
CHECK_DEADLOCK FALSE
