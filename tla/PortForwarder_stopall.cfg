SPECIFICATION Spec
CONSTANTS
  Fwd = {f1, f2}
  Ids = {a}
  Directions = {"local"}
  Callers = {c1}
  MaxConns = 1
  NoFwd = NoFwd
  NoId = NoId
INVARIANTS
  StopAllStopsAll
CHECK_DEADLOCK FALSE
