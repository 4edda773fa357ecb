SPECIFICATION PoolsSpec
CONSTANTS
  Clients = {c1, c2}
  Servers = {s1, s2}
  Names = {t, u}
  Tracked = {t}
  Values = {v1, v2}
  Absent = absent
  None = none
  MaxSets = 1
  MaxRequests = 3
  StatementNames = {a}
  Unnamed = unnamed
  MaxPackets = 5
  MaxLength = 5
INVARIANTS ServersTrue ParametersTrue Replayed HoldsRightly
           MirrorTrue OwnStatements
PROPERTIES IsDeque
SYMMETRY Sym
CHECK_DEADLOCK FALSE
