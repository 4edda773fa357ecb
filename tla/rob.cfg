\* The rob scheduler, with and without timers that fire.
SPECIFICATION Spec
CONSTANTS
  Nil = Nil
  Users = {u1, u2, u3}
  Workers = {w1}
  Chans = {c1, c2, c3}
  MaxElapsed = 1
  MaxAcquires = 2
SYMMETRY Symmetry
INVARIANTS WorkersSafe WaitersSafe
PROPERTIES ImplementsPooler FloorMonotone
CHECK_DEADLOCK FALSE
