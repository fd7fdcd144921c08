SPECIFICATION Spec
CONSTANTS
  Servers = {w1, w2}
  Plans <- MCPlans
  MaxContents = 2
  MaxMishaps = 1
INVARIANTS PaidOnce CompleteExactly ListedLineage
CHECK_DEADLOCK FALSE
