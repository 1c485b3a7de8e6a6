SPECIFICATION FairSpec
CONSTANTS
  Flow = {f1, f2}
  Key = {k, q}
  Quic = {q}
  MaxFlows = 1
  NoFlow = NoFlow
CHECK_DEADLOCK FALSE
INVARIANTS
  FlowsAreOwned
PROPERTIES
  FlowsEnd
