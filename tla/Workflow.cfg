SPECIFICATION Spec
CONSTANTS
  Inputs <- MCInputs
  Drafts <- MCDrafts
  CallerPlans <- MCCallerPlans
  DefaultIds <- MCDefaultIds
  StyleBible <- MCStyleBible
  AllowedShots = 3
INVARIANTS Verdict DraftsCompile LinksPaired SameGraph ShownInOrder
CHECK_DEADLOCK FALSE
