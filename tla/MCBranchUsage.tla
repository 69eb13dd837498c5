--------------------------- MODULE MCBranchUsage ----------------------------
(* An erased, a linear and an unrestricted variable, under their own names. *)
EXTENDS BranchUsage

MCVars == {"erased", "linear", "free"}
MCDecl == [erased |-> zero, linear |-> one, free |-> many]
MCTerms == {<<"linear", "free">>, <<"linear", "linear">>, <<"free", "erased">>}
=============================================================================
