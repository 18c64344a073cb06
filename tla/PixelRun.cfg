\* Seven Lights of two filters; one edit of a file while it is measured.
CONSTANTS
  Frames = {1, 2, 3}
  Further = {4, 5, 6, 7}
  Workers = 2
  ProcessMinimum = 3
  MaxEdits = 1
  Undecodable <- MCUndecodable
  Light <- MCLight
  MinimumStars = 20
  SupportedCohort = 3
  ExposureTolerance = 2
  MinimumCoverage = 85
  TransparencyFloor = 50
  SoftGuard = 34
  NightCut = 160
  GroupCut = 190
  CleanMinimum = 2
  FewStars = 20
  Scenes <- MCScenes
  Digests <- MCDigests
  Selections <- MCSelections
  CohortMinimum = 2
  Routes = {"legacy", "explicit", "unattended", "include-all"}
  Shot <- MCShot
  TemperatureTolerance = 2
  FlatDarkLimit = 5
  Width = 4
  Header <- MCHeader
  Libraries <- MCLibraries
  Workflows = {"mono-standard-v1", "strict-v1"}
  Recipes <- MCRecipes
  Starts <- MCStarts
  Height = 3
  NameOrder <- MCNameOrder
  MaxPasses = 3
  RowWidth = 4
  SigmaClip = 2
  MinimumFrames = 3
  FloorDivisor = 20
  AbsoluteFloor = 1
  MaximumStars = 6
  BrightStars = 4
  MatchRadius = 2
  Threshold = 1
  BinFloor = 3
  FewMatches = 4
  MinInliers = 4
  MinRatio = 12
  MaxSquare = 1
  Binning = 3
  FullThreshold = 2
  FullRatio = 25
  FullSpan = 25
  ScaleDeviation = 5
  EndDelta = 9
  FrameWidth = 42
  Grains = {1, 2, 3, 5, 8}
SPECIFICATION MCSpec
INVARIANTS
   DefectsStayOut RegistrationIsTrue
  CalibrationSound CropIsLargest KernelIsReference StagingQuiet ReductionWhole ReintegrationSound
