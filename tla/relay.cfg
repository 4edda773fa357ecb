\* The lifo pooler with timeouts, one client more than servers, and the bouncer
\* with COPY in both directions.  No symmetry: properties of liveness are checked.
SPECIFICATION RelaySpec
CONSTANTS
  Nil = Nil
  Clients = {c1, c2, c3}
  Servers = {s1, s2}
  Chans = {h1, h2, h3}
  MaxPackets = 5
  MaxNotices = 1
INVARIANTS LifoInv ServerClean GivenUpForCause
PROPERTIES ImplementsPooler NoStarvation VanishedEnds
CHECK_DEADLOCK FALSE
