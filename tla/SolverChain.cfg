\* Three filters on two threads, two backends.
CONSTANTS
  NFilters = 3
  NBackends = 2
  Workers = 2
  Solves <- MCSolves
  Width = 8
  MatchMinimum = 3
  RmsLimit = 1
  MatchRadius = 1
  DefaultRadius = 8
  FallbackTime = 3
  HintedCap = 4
SPECIFICATION FairSpec
INVARIANTS SolvedIsVerified SolvedIsTrustworthy NothingLeftBehind
PROPERTY CallerAnswered
