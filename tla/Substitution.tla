---------------------------- MODULE Substitution ----------------------------
(***************************************************************************)
(* The algorithms of the type checker that replace a part of an expression *)
(* by another: substitute, unify and rewrite.                              *)
(***************************************************************************)
EXTENDS Terms

CONSTANT Sorts  \* of variables and constants; an application has sort "value"

\* Mutant: a binder is renamed only if its own name is substituted for.
MustRename_never(v, e) == FALSE

\* The name v of a binder would catch, or be confused with, one in e.
MustRename(v, e) == OccursIn(v, e, "anywhere")

\* substitute: e for the variable v in x.
RECURSIVE Substitute(_, _, _)
Substitute(v, e, x) ==
  LET All(xs) == [i \in DOMAIN xs |-> Substitute(v, e, xs[i])]
      Scope ==
        LET p == [First(x) EXCEPT !.type = Substitute(v, e, @)]
        IN  CASE p.var = Named(v) -> Before(p, Rest(x))
              [] p.var # Named(v) /\ \E w \in ToSet(p.var) : MustRename(w, e) ->
                   LET w == p.var[1]
                       w2 == Fresh(w, Rest(x))
                   IN  Before([p EXCEPT !.var = Named(w2)],
                              Substitute(v, e, Replace(w, w2, Rest(x))))
              [] OTHER -> Before(p, Substitute(v, e, Rest(x)))
  IN  CASE x.k = "var" -> IF x = v THEN e ELSE x
        [] x.k = "binder" -> IF x.params = <<>> THEN [x EXCEPT !.rest = All(@)] ELSE Scope
        [] OTHER -> WithKids(x, All(Kids(x)))

-----------------------------------------------------------------------------
\* unify: the values of variables of `from` that make it `to`, so far.
RECURSIVE SortOf(_)
SortOf(x) ==
  CASE x.k \in {"var", "con"} -> Sorts[x.name]
    [] x.k = "because" -> SortOf(x.value)
    [] OTHER -> "value"

NoUnifier == [ok |-> FALSE, values |-> <<>>]

\* Mutant: what a variable was before does not matter.
Bind_first(u, v, x) ==
  IF v \in DOMAIN u.values THEN u
  ELSE [u EXCEPT !.values = [w \in DOMAIN @ \union {v} |-> IF w = v THEN x ELSE @[w]]]

Bind(u, v, x) ==
  CASE SortOf(v) # SortOf(x) -> NoUnifier
    [] SortOf(v) = SortOf(x) /\ v \in DOMAIN u.values ->
         IF AlphaEquivalent(x, u.values[v]) THEN u ELSE NoUnifier
    [] OTHER -> [u EXCEPT !.values = [w \in DOMAIN @ \union {v} |-> IF w = v THEN x ELSE @[w]]]

RECURSIVE UnifyIn(_, _, _)
UnifyIn(u, from, to) ==
  CASE ~u.ok -> u
    [] u.ok /\ from.k = "var" -> Bind(u, from, to)
    [] u.ok /\ from.k = "con" -> IF from = to THEN u ELSE NoUnifier
    [] u.ok /\ from.k = "because" ->
         IF to.k = "because" THEN UnifyIn(u, from.value, to.value) ELSE NoUnifier
    [] u.ok /\ from.k = "node" ->
         IF to.k = "node" /\ from.op = to.op /\ Len(from.args) = Len(to.args)
         THEN FoldLeft(LAMBDA w, i : UnifyIn(w, from.args[i], to.args[i]), u,
                       [i \in DOMAIN from.args |-> i])
         ELSE NoUnifier
    [] OTHER -> NoUnifier

Unify(from, to) == UnifyIn([ok |-> TRUE, values |-> <<>>], from, to)

-----------------------------------------------------------------------------
\* What is rewritten is an option: <<>> where nothing changed.
Chosen(new, old) == IF new = <<>> THEN old ELSE new[1]
Changes(new) == \E i \in DOMAIN new : new[i] # <<>>

\* The forms whose parts are rewritten, but then dropped.
Kept == {"list", "member", "subscript"}

\* Mutant: rewriting goes on below a binder of a name in it.
Stops_never(v, from, to) == FALSE

Stops(v, from, to) == OccursIn(v, from, "free") \/ OccursIn(v, to, "free")

\* rewrite: `to` for every part equivalent to `from`.
RECURSIVE Rewrite(_, _, _)
RewriteAll(from, to, xs) == [i \in DOMAIN xs |-> Rewrite(from, to, xs[i])]

RECURSIVE RewriteScope(_, _, _)
RewriteScope(from, to, x) ==
  IF x.params = <<>>
  THEN LET new == RewriteAll(from, to, x.rest)
       IN  IF Changes(new)
           THEN <<[x EXCEPT !.rest = [i \in DOMAIN new |-> Chosen(new[i], @[i])]]>> ELSE <<>>
  ELSE LET p == First(x)
           type == Rewrite(from, to, p.type)
           scope == IF \E v \in ToSet(p.var) : Stops(v, from, to) THEN <<>>
                    ELSE RewriteScope(from, to, Rest(x))
       IN  IF type = <<>> /\ scope = <<>> THEN <<>>
           ELSE <<Before([p EXCEPT !.type = Chosen(type, @)], Chosen(scope, Rest(x)))>>

Rewrite(from, to, x) ==
  LET new == RewriteAll(from, to, Kids(x))
  IN  CASE AlphaEquivalent(x, from) -> <<to>>
        [] ~AlphaEquivalent(x, from) /\ x.k = "binder" -> RewriteScope(from, to, x)
        [] ~AlphaEquivalent(x, from) /\ x.k \in {"node", "impossible"} ->
             IF (x.k = "node" /\ x.op \in Kept) \/ ~Changes(new) THEN <<>>
             ELSE <<WithKids(x, [i \in DOMAIN new |-> Chosen(new[i], Kids(x)[i])])>>
        [] OTHER -> <<>>
=============================================================================
