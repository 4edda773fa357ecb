\* An Acquire of the rob scheduler that times out after its job was served.
SPECIFICATION Spec
CONSTANTS
  Nil = Nil
  Users = {u1, u2}
  Workers = {w1, w2}
  Chans = {c1, c2, c3}
  MaxElapsed = 1
  MaxAcquires = 2
SYMMETRY Symmetry
INVARIANTS LostRaceHasWorker
CHECK_DEADLOCK FALSE
