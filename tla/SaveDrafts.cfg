SPECIFICATION Spec
CONSTANTS
  Drafts = {d1, d2}
  Targets = {top, pin}
  Existing = {top, pin}
  LayoutOnly = {pin}
  child = child
  top = top
  pin = pin
  Parent <- MCParent
  Published = Published
  NoTarget = NoTarget
  NoDraft = NoDraft
  Hasty = FALSE
  MaxEdits = 2
  MaxRedos = 1
  MaxFaults = 2
  MaxOthers = 1
  MaxRefused = 0
SYMMETRY Symm
INVARIANTS NothingLost DraftIsolated
CHECK_DEADLOCK FALSE
