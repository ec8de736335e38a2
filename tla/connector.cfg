SPECIFICATION FairConnect
CONSTANTS
  Strategy = "RoundRobin"
  PreferConnect = FALSE
  MinReq = 2
  MaxErrorRate = 50
  MaxRespTime = 800
  Countries <- OnlyUS
  AnyCountry = AnyCountry
  NoPin = NoPin
  Callers = {c1}
  Gates = {}
  Importer = importer
  Feed <- ThreeAndForeign
  Extra <- None
  MinQueue = 3
  Requests <- Secure
  VerifyOnLease = FALSE
  VerifyMaxAttempts = 2
  FailTimeout = 1
  MaxSessions = 1
  NoProxy = NoProxy
  MaxCalls = 5
  MaxTries = 2
  AnyClient = AnyClient
  MaxClock = 1
INVARIANT
  NobodyStarves
PROPERTIES
  LostOnlyWithFuture
  ConnectEnds
