SPECIFICATION Spec
CONSTANTS
  Drafts = {d1, d2}
  Targets = {top}
  Existing = {top}
  LayoutOnly = {}
  child = child
  top = top
  pin = pin
  Parent <- MCParent
  Published = Published
  NoTarget = NoTarget
  NoDraft = NoDraft
  Hasty = TRUE
  MaxEdits = 2
  MaxRedos = 0
  MaxFaults = 0
  MaxOthers = 0
  MaxRefused = 0
SYMMETRY Symm
INVARIANTS NothingLost
CHECK_DEADLOCK FALSE
