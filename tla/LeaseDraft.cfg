SPECIFICATION Spec
CONSTANTS
  i1 = i1
  i2 = i2
  x1 = x1
  s1 = s1
  s2 = s2
  NoJob = NoJob
  Imports = {i1, i2}
  Exports = {}
  DraftOf <- SharedDraft
  PreLease = {i1}
  Slots = {s1, s2}
  Batches = 1
  Windows = 0
  MaxRetries = 1
  ClaimSkips = 1
  MaxTries = 0
  MaxStops = 0
  MaxRequeues = 1
INVARIANTS
  OneImportPerDraft
  LeaseInv
PROPERTIES
  ImplementsContract
CHECK_DEADLOCK FALSE
SYMMETRY SlotSymmetry
