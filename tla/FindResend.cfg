SPECIFICATION Spec
CONSTANTS
  Drafts = {d1}
  Targets = {top, child}
  Existing = {}
  LayoutOnly = {}
  child = child
  top = top
  pin = pin
  Parent <- MCParent
  Published = Published
  NoTarget = NoTarget
  NoDraft = NoDraft
  Hasty = FALSE
  MaxEdits = 3
  MaxRedos = 0
  MaxFaults = 2
  MaxOthers = 0
  MaxRefused = 0
SYMMETRY Symm
INVARIANTS NeverResent
CHECK_DEADLOCK FALSE
