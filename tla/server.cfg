SPECIFICATION ServerSpec
CONSTANTS
  Strategy = "Best"
  PreferConnect = FALSE
  MinReq = 2
  MaxErrorRate = 50
  MaxRespTime = 800
  Countries = AnyCountry
  AnyCountry = AnyCountry
  NoPin = NoPin
  Callers = {c1, c2, acceptor}
  Gates = {acceptor}
  Importer = importer
  Feed <- OneUpstream
  Extra <- None
  MinQueue = 1
  Requests <- PoolRequests
  VerifyOnLease = TRUE
  VerifyMaxAttempts = 2
  FailTimeout = 1
  MaxSessions = 1
  NoProxy = NoProxy
  MaxCalls = 4
  MaxClock = 0
  Acceptor = acceptor
  ClientRequests <- OpenRequests
  ExpectAuth = FALSE
  StickyHeader = FALSE
  MaxTries = 2
  MaxClients = 2
  HistoryCap = 1
  NoRequest = NoRequest
  k1 = k1
  k2 = k2
INVARIANTS
  CommitOnce
  BodySentOnce
  PermitsConserved
PROPERTY
  ServerKeepsProxies
SYMMETRY ClientSymmetry
