\* solve-field with a fallback attempt.
CONSTANTS
  MaxAttempts = 2
  MaxEdits = 1
  PipeCap = 1
  TailCap = 1
  MaxLog = 2
SPECIFICATION FairSpec
INVARIANTS PublishedIsInput SolvedIsSound FailureLeavesNothing
PROPERTIES AttemptsDoNotOverlap CallReturns
