----------------------------- MODULE UsageCount -----------------------------
(***************************************************************************)
(* dep0::typecheck::usage_t: how often every variable was used so far.  A  *)
(* usage object is a scope_map from variables to quantities, so it is here *)
(* a node of a ScopeHeap: its own entries are the "direct" count, what a   *)
(* lookup finds further out is "inherited".                                *)
(*                                                                         *)
(* Decl gives the quantity each variable was declared with in the context  *)
(* (ctx_t::decl_t::qty); every variable used is one of the context.        *)
(***************************************************************************)
EXTENDS Naturals, Sequences, SequencesExt, Quantity

CONSTANTS Vars, Decl

H == INSTANCE ScopeHeap WITH Keys <- Vars

\* operator[]
Count(h, n, v) ==
  LET c == H!Find(h, n, v)
  IN  IF c = H!NoCell THEN zero ELSE h[c[1]].data[c[2]].val

NewCount(h, n, v, mult) == Plus(Count(h, n, v), Times(one, mult))

\* Mutant: a use counts once whatever the multiplier of its place.
Allowed_ignoresMultiplier(h, n, v, mult) ==
  mult = zero \/ Plus(Count(h, n, v), one) <= Decl[v]

Allowed(h, n, v, mult) == mult = zero \/ NewCount(h, n, v, mult) <= Decl[v]

\* count.try_emplace(var, new_qty), assigned if it is there already: in either
\* case an entry of the object itself, never one it inherits.
Put(h, n, v, q) ==
  IF h[n].index[v] = H!Absent THEN H!Emplaced(h, n, v, q)
  ELSE H!Written(h, <<n, h[n].index[v]>>, q)

\* try_add(decl, mult), when it is Allowed.
Added(h, n, v, mult) ==
  IF mult = zero THEN h ELSE Put(h, n, v, NewCount(h, n, v, mult))

\* The uses of a sequence of <<variable, multiplier>>, one after the other up
\* to the first that is not allowed.
AddInTurn(h, n, uses) ==
  FoldLeft(LAMBDA r, u :
             IF ~r.ok THEN r
             ELSE IF Allowed(r.heap, n, u[1], u[2])
                  THEN [ok |-> TRUE, heap |-> Added(r.heap, n, u[1], u[2])]
                  ELSE [ok |-> FALSE, heap |-> r.heap],
           [ok |-> TRUE, heap |-> h], uses)

\* Mutant: no rollback.
TryAddAll_keepsPart(h, n, uses) ==
  LET r == AddInTurn(h, n, uses)
  IN  [ok |-> r.ok, heap |-> r.heap, node |-> n]

\* try_add(ctx, expr, mult) and try_add(ctx, usage): all of the uses or none;
\* the rollback replaces the object by the copy taken first (innermost_copy).
TryAddAll(h, n, uses) ==
  LET r == AddInTurn(h, n, uses)
  IN  IF r.ok THEN [ok |-> TRUE, heap |-> r.heap, node |-> n]
      ELSE [ok |-> FALSE, heap |-> Append(r.heap, h[n]), node |-> Len(r.heap) + 1]

\* The uses of an expression whose variables are vs, from left to right.
UsesOf(vs, mult) == [i \in DOMAIN vs |-> <<vs[i], mult>>]

\* The direct uses of another usage object.  The quantity that object has for
\* a variable is not looked at: each is added `one` time.
DirectUses(entries) == [i \in DOMAIN entries |-> <<entries[i].key, one>>]

\* usage_t::merge(a, b, max): the direct uses of both.
Merged(h, a, b) ==
  LET inA(v) == h[a].index[v] # H!Absent
      inB(v) == h[b].index[v] # H!Absent
      both(e) == [e EXCEPT !.val = IF inB(e.key)
                    THEN QtyMax(@, h[b].data[h[b].index[e.key]].val) ELSE @]
  IN  FoldLeft(LAMBDA total, e : IF inA(e.key) THEN total ELSE Append(total, e),
               [i \in DOMAIN h[a].data |-> both(h[a].data[i])], h[b].data)
=============================================================================
