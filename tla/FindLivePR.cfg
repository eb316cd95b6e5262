SPECIFICATION Spec
CONSTANTS
  Drafts = {d1}
  Edits = {e1}
  PRs = {p1}
  PubJobs = {}
  Requests = {r1}
  Slots = {}
  Importing = {}
  Idling = {}
  NoDraft = NoDraft
  NoPR = NoPR
  NoJob = NoJob
  Nobody = Nobody
  MaxRetries = 1
  MaxEpoch = 2
  MaxMain = 1
  MaxHead = 1
INVARIANTS NoLivePRSurvives
