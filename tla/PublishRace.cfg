SPECIFICATION Spec
CONSTANTS
  Drafts = {d1, d2}
  Edits = {e1, e2}
  PRs = {}
  PubJobs = {}
  Requests = {r1, r2}
  Slots = {}
  Importing = {d1}
  Idling = {d1}
  NoDraft = NoDraft
  NoPR = NoPR
  NoJob = NoJob
  Nobody = Nobody
  MaxRetries = 1
  MaxEpoch = 2
  MaxMain = 1
  MaxHead = 2
SYMMETRY Symm
INVARIANTS NothingLost LandsOnItsBase ImportHoldsDraft
PROPERTIES ClosedIsInert
