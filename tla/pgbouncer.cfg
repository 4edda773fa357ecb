SPECIFICATION Spec
CONSTANTS Clients = {c1, c2} Users = {u, a} Databases = {d} AuthUser = a Nil = nil
INVARIANT PoolCreated
CHECK_DEADLOCK FALSE
