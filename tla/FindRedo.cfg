SPECIFICATION Spec
CONSTANTS
  Drafts = {d1}
  Targets = {top}
  Existing = {}
  LayoutOnly = {}
  child = child
  top = top
  pin = pin
  Parent <- MCParent
  Published = Published
  NoTarget = NoTarget
  NoDraft = NoDraft
  Hasty = FALSE
  MaxEdits = 1
  MaxRedos = 1
  MaxFaults = 1
  MaxOthers = 0
  MaxRefused = 0
SYMMETRY Symm
INVARIANTS NeverResent
CHECK_DEADLOCK FALSE
