\* A late event of a cancelled run meets the next launch.
CONSTANT MaxJobs = 2
SPECIFICATION Spec
INVARIANT FirstOutcomePreserved
CHECK_DEADLOCK FALSE
