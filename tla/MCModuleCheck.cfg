SPECIFICATION Spec
CONSTANTS
  Globals <- MCGlobals
  Prelude <- MCPrelude
  Entries <- MCEntries
  TypeSig = "of types"
  MaxEntries = 5
INVARIANTS RulesDecide RuntimeIsDefined WrittenStructsAreFinite UnfoldingEnds
PROPERTY MeaningIsFinal
