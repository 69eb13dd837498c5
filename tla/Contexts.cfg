\* One name, bound again and again in up to three constructs inside of one
\* another, by parameter lists that also have a parameter without a name; the
\* type of every declaration is one that may become better known.  There are
\* enough shadow identifiers for all of it.
SPECIFICATION Spec
CONSTANTS
  Names = {"x"}
  Types = {"cond"}
  MaxShadow = 14
  MaxFrames = 4
  MaxParams = 2
  MaxFacts = 1
INVARIANTS
  ContextsFollowSource
  ReturnTypeSeesParameters
  NoAddressOutlives
