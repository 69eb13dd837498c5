SPECIFICATION Spec
CONSTANTS
  Sorts <- MCSorts
  Pairs <- MCSamePairs
  Arguments <- MCBothNames
  Conditions <- MCConditions
  OwnNames = TRUE
INVARIANT SubstitutionAvoidsCapture
CHECK_DEADLOCK FALSE
