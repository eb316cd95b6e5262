SPECIFICATION Spec
CONSTANTS
  Drafts = {d1}
  Edits = {e1, e2}
  PRs = {p1, p2}
  PubJobs = {}
  Requests = {r1}
  Slots = {}
  Importing = {}
  Idling = {}
  NoDraft = NoDraft
  NoPR = NoPR
  NoJob = NoJob
  Nobody = Nobody
  MaxRetries = 1
  MaxEpoch = 2
  MaxMain = 1
  MaxHead = 2
SYMMETRY Symm
INVARIANTS TypeOK LandsWhatWasApproved OneLivePR
