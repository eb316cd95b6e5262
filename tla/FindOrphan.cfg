SPECIFICATION Spec
CONSTANTS
  Drafts = {d1}
  Targets = {top, child}
  Existing = {}
  LayoutOnly = {}
  child = child
  top = top
  pin = pin
  Parent <- MCParent
  Published = Published
  NoTarget = NoTarget
  NoDraft = NoDraft
  Hasty = FALSE
  MaxEdits = 2
  MaxRedos = 1
  MaxFaults = 0
  MaxOthers = 0
  MaxRefused = 0
SYMMETRY Symm
INVARIANTS NoOrphan
CHECK_DEADLOCK FALSE
