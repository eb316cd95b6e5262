SPECIFICATION FairSpec
CONSTANTS
  Tabs = {t1, t2}
  NoTab = NoTab
  Locks = TRUE
  MaxSignIns = 1
  MaxTicks = 2
  MaxFaults = 2
  MaxEnds = 0
INVARIANTS TypeOK OneActiveToken NoFalseAlarm
PROPERTIES StaysSignedIn RefreshEnds
CHECK_DEADLOCK FALSE
