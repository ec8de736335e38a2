SPECIFICATION Spec
CONSTANTS
  Strategy = "Sticky"
  PreferConnect = TRUE
  MinReq = 2
  MaxErrorRate = 50
  MaxRespTime = 800
  Countries <- OnlyUS
  AnyCountry = AnyCountry
  NoPin = NoPin
  Callers = {c1, c2, g}
  Gates = {g}
  Importer = importer
  Feed <- JustSlow
  Extra <- JustTwin
  MinQueue = 2
  Requests <- HttpOnly
  VerifyOnLease = TRUE
  VerifyMaxAttempts = 2
  FailTimeout = 1
  MaxSessions = 1
  NoProxy = NoProxy
  MaxCalls = 2
  MaxClock = 1
  k1 = k1
INVARIANTS
  TypeOK
  ExclusiveLease
  NoLostWakeup
  ServedAreHealthy
  SelectsBest
PROPERTIES
  NoneMeansDry
  ImplementsAddrPool
SYMMETRY CallerSymmetry
