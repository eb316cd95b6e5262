SPECIFICATION FairSpec
CONSTANTS
  Entities = {e1, e2}
  Passes = {p1, p2}
  Readers = {r1}
  Evictor = Evictor
  Nobody = Nobody
  Calm = TRUE
  MaxCommits = 3
  MaxFaults = 1
  MaxMoves = 1
INVARIANTS TypeOK ServesMain EvictionSparesReads
PROPERTIES CatchesUp
CHECK_DEADLOCK FALSE
