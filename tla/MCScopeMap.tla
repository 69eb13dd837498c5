---------------------------- MODULE MCScopeMap -----------------------------
(* Two objects are enough for a parent and a child, or an original and a    *)
(* copy: what stays of a map after it is destroyed are its nodes, which     *)
(* others may share, and its object is free to be used again.  Four nodes   *)
(* let a child with its parent be copied as a whole.                        *)
EXTENDS ScopeMap, TLC

CONSTANTS m1, m2, k1, k2, v1, v2

MCMaps == {m1, m2}
MCKeys == {k1, k2}
MCVals == {v1, v2}

Symmetry == Permutations(MCMaps) \union Permutations(MCKeys) \union Permutations(MCVals)
=============================================================================
