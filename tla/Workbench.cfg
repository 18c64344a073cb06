\* Five Lights, of which a review has two or three; another window measures twice.
CONSTANTS
  Lights = {1, 2, 3, 4, 5}
  Channel <- MCChannel
  Night <- MCNight
  Fold <- MCFold
  Digest <- MCDigest
  Looks <- MCLooks
  MaxSessions = 2
  MaxMeasures = 2
  MaxOthers = 2
  HistoryLimit = 1
  MaxFaults = 1
  MinimumKept = 1
  MaxImports = 2
  Foci = {"review", "sessions"}
SPECIFICATION MCSpec
INVARIANTS StartBindsReview RefusedOnlyIfGone
CHECK_DEADLOCK FALSE
