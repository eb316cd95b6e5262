SPECIFICATION Spec
CONSTANTS
  Tabs = {t1}
  NoTab = NoTab
  Locks = TRUE
  MaxSignIns = 1
  MaxTicks = 2
  MaxFaults = 1
  MaxEnds = 0
INVARIANTS NoneIsAnAttack
CHECK_DEADLOCK FALSE
