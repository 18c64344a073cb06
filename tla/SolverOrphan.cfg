\* One attempt; the engine is cancelled.
CONSTANTS
  MaxAttempts = 1
  MaxEdits = 0
  PipeCap = 1
  TailCap = 1
  MaxLog = 1
SPECIFICATION Spec
INVARIANT CancelLeavesNoHelper
