SPECIFICATION FairSpec
CONSTANTS
  Assets <- MCAssets
  Deps <- MCDeps
  Refs <- MCDeps
  FactAsked <- MCFactAsked
  VisualAsked <- MCVisualAsked
  Exemplars <- MCExemplars
  MaxConcurrency = 2
  MaxRuns = 2
  MaxMishaps = 2
INVARIANTS TypeOK Lineage OnlyDescendantsBlocked CountsTell
PROPERTIES PaidOnce ImplementsAssetRun RunEnds
CHECK_DEADLOCK FALSE
