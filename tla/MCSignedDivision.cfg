SPECIFICATION Spec
CONSTANTS
  Types <- MCTestTypes
  Literals <- MCTestLiterals
  IntMax <- MCIntMax
  MaxOperands = 3
  MaxSteps = 5
INVARIANT FoldingIsExecution
CHECK_DEADLOCK FALSE
