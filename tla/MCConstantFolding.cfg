SPECIFICATION Spec
CONSTANTS
  Types <- MCTypes
  Literals <- MCLiterals
  IntMax <- MCIntMax
  MaxOperands = 3
  MaxSteps = 5
INVARIANTS TypeOK DivisionsAreDefined AxiomsAreTrue
PROPERTY FoldingFollowsExecution
CHECK_DEADLOCK FALSE
