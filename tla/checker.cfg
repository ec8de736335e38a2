SPECIFICATION FairSpec
CONSTANTS
  Queries <- MCQueries
  Bundled <- MCBundled
  Candidates <- MCCandidates
  OwnAddrs <- Own
  JudgePages <- MCJudgePages
  Pages <- MCPages
INVARIANTS
  CheckerTypeOK
  RetriesAreLawful
  VerdictMatchesRequest
  EmittedIsTrusted
PROPERTY CheckEnds
