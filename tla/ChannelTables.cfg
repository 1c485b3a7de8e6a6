SPECIFICATION Spec
CONSTANTS
  Chan = {ch1, ch2}
  Forwarder = {f1, f2}
  Paths = {p1}
  NoOwner = NoOwner
SYMMETRY TableSymmetry
CHECK_DEADLOCK FALSE
INVARIANTS
  HandlesAreReleased
