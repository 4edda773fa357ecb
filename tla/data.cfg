\* The data structures and the wire format.  No symmetry: a property of
\* liveness is checked.
SPECIFICATION Spec
CONSTANTS
  Keys = {1, 2, 3, 4, 5, 6}
  BufSize = 5
  Sizes = {0, 7}
  MaxPackets = 2
INVARIANTS TreeSound Faithful Relayed
PROPERTIES IsDictionary InSync RelayEnds
CHECK_DEADLOCK FALSE
