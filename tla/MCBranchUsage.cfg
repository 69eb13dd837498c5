SPECIFICATION Spec
CONSTANTS
  Vars <- MCVars
  Decl <- MCDecl
  Terms <- MCTerms
  MaxNodes = 5
  MaxDepth = 3
INVARIANTS NeverOverused CountIsExact
CHECK_DEADLOCK FALSE
