SPECIFICATION Spec
CONSTANTS
  m1 = m1  m2 = m2
  k1 = k1  k2 = k2
  v1 = v1  v2 = v2
  Maps <- MCMaps
  Keys <- MCKeys
  Vals <- MCVals
  MaxNodes = 4
  MaxEntries = 3
SYMMETRY Symmetry
INVARIANTS TypeOK HeapSound LookupIsLastVisible
PROPERTIES LookupsStay ImplementsPromise CopiesSeparate
CHECK_DEADLOCK FALSE
