\* The server pool over rob.
SPECIFICATION PoolSpec
CONSTANTS
  Nil = Nil
  Names = {n1}
  Recipes = {r1, r2}
  Conns = {k1, k2}
  Learners = {t1}
  Clients = {c1, c2}
  Critics = FALSE
  MinConns = 0
  MaxConns = 1
  Priority <- Flat
  Scores = {0}
  MaxInt = 99
  Buffered = TRUE
  ResetQuery = TRUE
  InitialTime = 1
  MaxTime = 2
SYMMETRY Symmetry
INVARIANTS NotShared MapsAgree NoSilentWaiter
CHECK_DEADLOCK FALSE
