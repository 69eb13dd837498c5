------------------------------ MODULE EnvTable ------------------------------
(***************************************************************************)
(* dep0::typecheck::env_t: the table of global symbols, a scope_map from   *)
(* qualified names to what they stand for.  An environment is a node of a  *)
(* ScopeHeap.                                                              *)
(*                                                                         *)
(* What a name stands for is a record [kind, sig, ...] whose kind is       *)
(* "incomplete", "type", "axiom", "extern", "decl" or "def".  Two          *)
(* signatures are equivalent when they are equal.                          *)
(***************************************************************************)
EXTENDS Sequences, SequencesExt

CONSTANT Globals

H == INSTANCE ScopeHeap WITH Keys <- Globals

Undefined == [kind |-> "undefined"]

\* operator[]
Lookup(h, n, g) ==
  LET c == H!Find(h, n, g)
  IN  IF c = H!NoCell THEN Undefined ELSE h[c[1]].data[c[2]].val

Visible(h, n) == {g \in Globals : Lookup(h, n, g) # Undefined}

Rejected(h) == [ok |-> FALSE, heap |-> h]
Accepted(h) == [ok |-> TRUE, heap |-> h]

\* Mutant: what is declared again overwrites what it was, even a definition.
TryEmplaced_lastOne(h, n, g, d) ==
  LET prev == Lookup(h, n, g)
  IN  CASE prev = Undefined -> Accepted(H!Emplaced(h, n, g, d))
        [] prev.kind \in {"decl", "def"} /\ prev.sig = d.sig ->
             Accepted(H!Written(h, H!Find(h, n, g), d))
        [] OTHER -> Rejected(h)

\* try_emplace: a name must be new, but for a function that is declared again
\* with its signature, or defined after it was declared: the definition then
\* overwrites the declaration at the level where that is.
TryEmplaced(h, n, g, d) ==
  LET prev == Lookup(h, n, g)
  IN  CASE prev = Undefined -> Accepted(H!Emplaced(h, n, g, d))
        [] prev.kind \in {"decl", "def"} /\ d.kind = "decl" /\ prev.sig = d.sig -> Accepted(h)
        [] prev.kind = "decl" /\ d.kind = "def" /\ prev.sig = d.sig ->
             Accepted(H!Written(h, H!Find(h, n, g), d))
        [] OTHER -> Rejected(h)

\* import: nothing at all if one of the names is taken.
Imported(h, n, entries) ==
  IF \E i \in DOMAIN entries : entries[i].global \in Visible(h, n) THEN Rejected(h)
  ELSE Accepted(FoldLeft(LAMBDA k, e : TryEmplaced(k, n, e.global, e.def).heap, h, entries))
=============================================================================
