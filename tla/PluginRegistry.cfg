SPECIFICATION FairSpec
CONSTANTS
  NumPlugins = 3
  Capabilities <- MCCapabilities
  Wanted = {"image"}
  Needed = {"plan"}
INVARIANTS TypeOK ProvidersOutlive AllOrNothing
PROPERTY ActivationEnds
CHECK_DEADLOCK FALSE
