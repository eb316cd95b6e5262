SPECIFICATION FairSpec
CONSTANTS
  Drafts = {d1}
  Targets = {top, child}
  Existing = {}
  LayoutOnly = {}
  child = child
  top = top
  pin = pin
  Parent <- MCParent
  Published = Published
  NoTarget = NoTarget
  NoDraft = NoDraft
  Hasty = FALSE
  MaxEdits = 2
  MaxRedos = 0
  MaxFaults = 1
  MaxOthers = 2
  MaxRefused = 2
INVARIANTS TypeOK NeverResent NoOrphan
PROPERTIES SaveEnds EverythingSaved
CHECK_DEADLOCK FALSE
