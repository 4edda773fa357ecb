\* The chef with critics, between one and two connections for a recipe.
SPECIFICATION Spec
CONSTANTS
  Nil = Nil
  Names = {n1, n2}
  Recipes = {r1, r2, r3}
  Conns = {k1, k2, k3}
  Learners = {t1, t2}
  Critics = TRUE
  MinConns = 1
  MaxConns = 2
  Priority <- Flat
  Scores = {0, 1}
  MaxInt = 99
SYMMETRY Symmetry
INVARIANTS Books NoConnLeaked
CHECK_DEADLOCK FALSE
