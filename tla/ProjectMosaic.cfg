\* Three panels, sixteen nights, one edit of the sources.
CONSTANTS
  N = 3
  MaxEdits = 1
  Sky <- MCSky
  Alphabet <- MCAlphabet
  \* the canvas
  WarpMargin = 0
  CanvasMargin = 1
  MaximumCanvas = 50
  MinimumIndexStars = 3
  NeededStars = 2
  \* the placement
  IsolationColumns = 1
  FirstMatchRadius = 1
  SecondMatchRadius = 1
  OverlapRadius = 1
  RematchRadius = 1
  MinimumOverlapMatches = 1
  StarsPerTerm = 2
  ClipColumns = 0
  ClipRounds = 2
  RematchRounds = 2
  MaximumOffset = 1
  MaximumRms = 0
  \* the photometry
  BinPixels = 2
  SkyBinPixels = 3
  MinimumOverlapPixels = 3
  MinimumOverlapStars = 1
  MinimumStar = 1
  SkyTolerance = 0
  SkyIterations = 2
  MaximumLevel = 3
  \* the blend
  MaximumTaper = 4
  TaperBinning = 2
  TaperUnit = 60
  ProtectPeak = 6
  PeakReach = 1
  MaximumRadius = 8
  RampColumns = 3
  \* the gates
  PhotometryPass = 0
  PhotometryWarn = 1
  OffsetPass = 0
  OffsetWarn = 1
  ResidualPass = 0
  ResidualWarn = 1
  MinimumResidualBins = 1
  FluxPass = 0
  FluxWarn = 3
  MinimumMatches = 2
  VerifyRadius = 0
SPECIFICATION FairMosaicSpec
INVARIANTS SuccessWhole EvidenceSound EndsHonestly ObjectsAreWhole
PROPERTIES DrivesByContract PausedRunEnds
