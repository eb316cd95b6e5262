SPECIFICATION Spec
CONSTANTS
  Tabs = {t1, t2}
  NoTab = NoTab
  Locks = FALSE
  MaxSignIns = 1
  MaxTicks = 3
  MaxFaults = 0
  MaxEnds = 0
SYMMETRY Symm
INVARIANTS NoFalseAlarm
CHECK_DEADLOCK FALSE
