\* Two launches in one session: no run is faked or duplicated, and the view settles.
CONSTANT MaxJobs = 2
SPECIFICATION FairSpec
 
INVARIANT CompletedIsValidated
 
INVARIANT QuitLeavesNothing
PROPERTY SettledIsFinal
PROPERTY EndedRunSettles
PROPERTY CancelAnswered
\* The application may quit, after which nothing moves.
CHECK_DEADLOCK FALSE
