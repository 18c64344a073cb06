CONSTANTS
  N = 1
  MaxEdits = 0
SPECIFICATION Spec
INVARIANT FailurePublishesNoSuccess
