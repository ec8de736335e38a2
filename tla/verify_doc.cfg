SPECIFICATION Spec
CONSTANTS
  Strategy = "Best"
  PreferConnect = TRUE
  MinReq = 2
  MaxErrorRate = 50
  MaxRespTime = 800
  Countries <- OnlyUS
  AnyCountry = AnyCountry
  NoPin = NoPin
  Callers = {c1}
  Gates = {}
  Importer = importer
  Feed <- JustSlow
  Extra <- None
  MinQueue = 1
  Requests <- HttpOnly
  VerifyOnLease = TRUE
  VerifyMaxAttempts = 2
  FailTimeout = 1
  MaxSessions = 1
  NoProxy = NoProxy
  MaxCalls = 2
  MaxClock = 1
  k1 = k1
PROPERTY
  VerifiedBeforeLease
