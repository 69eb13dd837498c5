SPECIFICATION FairSpec
CONSTANTS
  Targets <- MCTargets
  Vars <- MCVars
  Decl <- MCDecl
  Problems <- MCSearches
  MaxSearchDepth = 3
  CanExpire = TRUE
INVARIANTS FailureLeavesUsage FoundIsPaidFor FoundIsProof
PROPERTIES SpendingIsTemporary SearchEnds
