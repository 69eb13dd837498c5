SPECIFICATION Spec
CONSTANTS
  Sorts <- MCSorts
  Pairs <- MCPairs
  Arguments <- MCArguments
  Conditions <- MCConditions
  OwnNames = FALSE
INVARIANTS
  SubstitutionAvoidsCapture
  EquivalenceIsNameless
  EquivalentsHashAlike
  UnifierUnifies
  RewriteIsExact
  SubscriptHasElementType
CHECK_DEADLOCK FALSE
