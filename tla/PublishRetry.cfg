SPECIFICATION FairSpec
CONSTANTS
  Drafts = {d1}
  Edits = {e1}
  PRs = {}
  PubJobs = {j1, j2}
  Requests = {}
  Slots = {w1, w2}
  Importing = {}
  Idling = {}
  NoDraft = NoDraft
  NoPR = NoPR
  NoJob = NoJob
  Nobody = Nobody
  MaxRetries = 1
  MaxEpoch = 2
  MaxMain = 1
  MaxHead = 1

INVARIANTS NothingLost SquashedOnce CompletedLanded
PROPERTIES PublishingEnds
