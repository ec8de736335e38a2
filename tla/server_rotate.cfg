SPECIFICATION ServerSpec
CONSTANTS
  Strategy = "Sticky"
  PreferConnect = FALSE
  MinReq = 3
  MaxErrorRate = 50
  MaxRespTime = 800
  Countries = AnyCountry
  AnyCountry = AnyCountry
  NoPin = NoPin
  Callers = {c1, c2, acceptor}
  Gates = {acceptor}
  Importer = importer
  Feed <- TwoUpstreams
  Extra <- None
  MinQueue = 1
  Requests <- PoolRequests
  VerifyOnLease = FALSE
  VerifyMaxAttempts = 2
  FailTimeout = 1
  MaxSessions = 1
  NoProxy = NoProxy
  MaxCalls = 4
  MaxClock = 1
  Acceptor = acceptor
  ClientRequests <- AuthRequests
  ExpectAuth = TRUE
  StickyHeader = TRUE
  MaxTries = 2
  MaxClients = 1
  HistoryCap = 1
  NoRequest = NoRequest
  k1 = k1
  k2 = k2
INVARIANTS
  ServerTypeOK
  ProtoIsConfirmed
  OnlyVettedClients
PROPERTY
  RotationAvoidsBenched
SYMMETRY ClientSymmetry
