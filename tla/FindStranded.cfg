SPECIFICATION Spec
CONSTANTS
  Drafts = {d1}
  Targets = {top, child}
  Existing = {}
  LayoutOnly = {}
  child = child
  top = top
  pin = pin
  Parent <- MCParent
  Published = Published
  NoTarget = NoTarget
  NoDraft = NoDraft
  Hasty = FALSE
  MaxEdits = 2
  MaxRedos = 0
  MaxFaults = 1
  MaxOthers = 0
  MaxRefused = 1
SYMMETRY Symm
INVARIANTS CleanRetry
CHECK_DEADLOCK FALSE
