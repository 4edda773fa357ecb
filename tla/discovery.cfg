SPECIFICATION Spec
CONSTANTS
  Ids = {"a", "b"}
  Worlds <- MCWorlds
  Absent = absent
  Capacity = 1
INVARIANTS PoolsMatch Continuity
PROPERTIES Converges
