SPECIFICATION FairSpec
CONSTANTS
  N = 2
  Others = 1
  Dests = {"ca", "web", "web6", "raw"}
  FlowCap = 2
  MitmCap = 1
  RewriteCap = 1
  MaxRequests = 1
CHECK_DEADLOCK FALSE
INVARIANTS
  FlowsAreClean
PROPERTIES
  AbortedEnds
