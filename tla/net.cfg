\* No symmetry: properties of liveness are checked.
SPECIFICATION NetSpec
CONSTANTS
  Inward = {i1}
  Outward = {o1, o2}
  MaxBytes = 2
  MaxDeadlines = 2
  Conns = {c1, c2, c3}
  Configs <- MCConfigs
  Alone = c1
  MaxErrors = 1
  MaxSends = 5
INVARIANTS Delivered QueryDone LimitHolds Routed Trusted
PROPERTIES ClosesBoth WaitReturns LoopLives BothReturn
CHECK_DEADLOCK FALSE
