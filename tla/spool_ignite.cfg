\* The server pool disconnects a server in use as idle.
SPECIFICATION PlainSpec
CONSTANTS
  Nil = Nil
  Names = {n1}
  Recipes = {r1, r2}
  Conns = {k1, k2}
  Learners = {t1}
  Clients = {c1, c2}
  Critics = FALSE
  MinConns = 0
  MaxConns = 1
  Priority <- Flat
  Scores = {0}
  MaxInt = 99
  Buffered = TRUE
  ResetQuery = FALSE
  InitialTime = 1
  MaxTime = 2
SYMMETRY Symmetry
PROPERTIES OnlyIdleIgnited
CHECK_DEADLOCK FALSE
