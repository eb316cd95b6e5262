SPECIFICATION Spec
CONSTANTS
  i1 = i1
  i2 = i2
  x1 = x1
  s1 = s1
  s2 = s2
  NoJob = NoJob
  Imports = {}
  Exports = {x1}
  DraftOf <- SharedDraft
  PreLease = {}
  Slots = {s1, s2}
  Batches = 1
  Windows = 1
  MaxRetries = 2
  ClaimSkips = 1
  MaxTries = 1
  MaxStops = 1
  MaxRequeues = 0
INVARIANTS
  ResultIntact
CHECK_DEADLOCK FALSE
