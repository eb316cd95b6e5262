SPECIFICATION FairSpec
CONSTANTS
  i1 = i1
  i2 = i2
  x1 = x1
  s1 = s1
  s2 = s2
  NoJob = NoJob
  Imports = {i1}
  Exports = {}
  DraftOf <- SharedDraft
  PreLease = {}
  Slots = {s1, s2}
  Batches = 2
  Windows = 1
  MaxRetries = 1
  ClaimSkips = 1
  MaxTries = 1
  MaxStops = 1
  MaxRequeues = 1
INVARIANTS
  TypeOK
  SoleOwner
  ExactlyOnce
  CompletedIsWhole
  PoisonBounded
PROPERTIES
  ZombieStaysFenced
  EndedIsQuiet EveryJobEnds
CHECK_DEADLOCK FALSE

