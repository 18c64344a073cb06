CONSTANTS
  L = L
  R = R
  B = B
  Filters <- MCFilters
  CatalogRefit = TRUE
  MaxEdits = 1
SPECIFICATION Spec
INVARIANTS PublishedVerified EvidenceHonest PublishedFromCaptured
PROPERTY ImplementsContract
