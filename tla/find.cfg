\* Providers that repeat one another, two permits, a limit of two and a channel
\* of one: a full channel, a reservation past the limit and an abort all happen.
SPECIFICATION FairBroker
CONSTANTS
  Items <- Addresses
  MaxConn = 2
  Limit = 2
  NoLimit = NoLimit
  Capacity = 1
  Nobody = Nobody
  Kinds = {"find", "check", "grab"}
  Bundled = {"p1", "p2"}
  Configs <- ConfigFiles
  ProvidersOnly = FALSE
  Pages <- ListPages
  UserText <- Typed
  Spelt <- Spellings
  NoHost = NoHost
  Unspecified = Unspecified
  Located <- Places
  Requested = {"us"}
  MaxFetches = 2
INVARIANTS
  StreamInv
  EmitsWithinLimit
  LimitIsMet
  StatsCover
  GathersAll
PROPERTIES
  RunEnds
