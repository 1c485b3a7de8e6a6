SPECIFICATION Spec
CONSTANTS
  Fwd = {f1, f2}
  Ids = {a}
  Directions = {"local", "remote", "dynamic", "invalid"}
  Callers = {c1, c2}
  MaxConns = 1
  NoFwd = NoFwd
  NoId = NoId
SYMMETRY ForwardSymmetry
CHECK_DEADLOCK FALSE
INVARIANTS
  ForwardsAreListed
  StoppedReleasesListener
