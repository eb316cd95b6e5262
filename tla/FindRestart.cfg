SPECIFICATION Spec
CONSTANTS
  Entities = {e1, e2}
  Passes = {p1, p2}
  Readers = {r1}
  Evictor = Evictor
  Nobody = Nobody
  Calm = FALSE
  MaxCommits = 3
  MaxFaults = 1
  MaxMoves = 0
INVARIANTS ServesMain
CHECK_DEADLOCK FALSE
