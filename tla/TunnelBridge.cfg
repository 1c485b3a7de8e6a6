SPECIFICATION FairSpec
CONSTANTS
  MaxStacks = 2
  Client = {c1}
  NoClient = NoClient
CHECK_DEADLOCK FALSE
INVARIANTS
  StackIsReached
  
PROPERTIES
  TunnelSettles
