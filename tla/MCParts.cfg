SPECIFICATION Spec
CONSTANTS
  PayloadCap = 4
  Limit = 2
  RawSlack = 3
  NameLength = 3
  MaxRules = 2
  FakeCap = 2
  RecentCap = 3
  DnsInFlight = 2
  CacheSize = 2
  MaxQueries = 4
  MaxChanges = 3
  MaxRebinds = 2
  MaxEngines = 2
  LinkDials = {d1, d2}
  MaxStacks = 3
  Hosts = {"dst", "a", "b"}
  JumpLists <- MCJumpLists
  AliveInterval = 3
  AliveCountMax = 2
  UdpInterval = 1
  UdpAlive = 5
  MaxLosses = 2
  InputCap = 1
  TmuxTokens = 4
  OutChunks <- MCOutChunks
  ExpectCap = 1
  ExpectCount = 2
  GraceTicks = 2
  X11Header = 2
  X11Lengths = {1, 2, 3}
  X11Extra = 1
  X11Cap = 8
  MaxSleep = 2
  MaxRestarts = 4
  PacketSizes = {0, 1, 2, 3, 4, 5, 6, 7, 8}
  DefaultMtu = 4
  QuicMtu = 3
  KcpMtu = 1
  MaxMtu = 6
  Notifiers = {"one", "two"}
  MaxEvents = 2
  HostKeys = {"k1", "k2"}
  Questions = {"q1", "q2"}
  MaxAsked = 4
  PickItems = 4
  PickHeights = {0, 8, 9, 10}
CHECK_DEADLOCK FALSE
INVARIANTS
  StreamsAreWhole
  MarkersAreStripped
  
  NamesResolveAsAsked
  
  ResetRestoresLoops
  EnginesAreOwned
  LinkCountIsExact
  LoginIsOnce
  
  
  
  
  ForwardingIsAsWritten
  ForwardedBytesAreWhole
  
  HostKeysAreAgreed
  AuthenticationIsSparing
  PickIsAsShown
PROPERTIES
  ClosesEnd
