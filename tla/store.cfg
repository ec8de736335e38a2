SPECIFICATION Spec
CONSTANTS
  Addrs = {"us", "de"}
  Checks <- EveryOutcome
  Unit = 1000
  U32 = 1000
  NoGeo = NoGeo
  Backends = {"sqlite", "redis"}
  Versions = {0, 2}
  Options <- Everything
  Geo <- Places
  UserFiles <- Files
  Typed <- Text
  MaxLeased = 1
  MaxRuns = 3
  MaxFolds = 3
INVARIANTS
  BackendsAgree
  CountedOnce
  TypesRemembered
  ScoreIsLawful
PROPERTY
  WarmStart
