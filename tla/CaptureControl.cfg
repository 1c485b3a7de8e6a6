SPECIFICATION FairSpec
CONSTANTS
  Callers = {c1}
  Tunnel = tunnel
  Recorders = {r1, r2}
  Segments = {s1, s2}
  MaxTunnels = 2
  Nobody = Nobody
  NoRec = NoRec
  NoState = NoState
CHECK_DEADLOCK FALSE
INVARIANTS
  RecorderIsKept
PROPERTIES
  CallsReturn
