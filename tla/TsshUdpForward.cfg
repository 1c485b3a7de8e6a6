SPECIFICATION FairSpec
CONSTANTS
  Client = {c1}
  Session = {s1, s2}
  Remote = {r1}
  NoSession = NoSession
CHECK_DEADLOCK FALSE
PROPERTIES
  SilentIsForgotten
  SilentRemoteEnds
