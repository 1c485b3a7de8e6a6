SPECIFICATION FairSpec
CONSTANTS
  Session = {s1, s2}
  NoSession = NoSession
CHECK_DEADLOCK FALSE
INVARIANTS
  SessionIsSingle
PROPERTIES
  CloseReturns
