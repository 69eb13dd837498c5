------------------------------ MODULE Nameless ------------------------------
(***************************************************************************)
(* What expressions mean, names apart: a bound variable is the number of   *)
(* parameters between it and the one it refers to, a free variable keeps   *)
(* its name.  Reasons are left out ("proof irrelevance"), and so are the   *)
(* quantities of parameters, which are no part of equivalence.  In this    *)
(* form substitution has nothing to rename: it is the reference that the   *)
(* algorithms on names are compared with.                                  *)
(***************************************************************************)
EXTENDS Naturals, Sequences, SequencesExt

Bound(i) == [k |-> "bound", i |-> i]

\* The meaning of x where `scope` lists the parameters around it.
RECURSIVE MeaningIn(_, _)
MeaningIn(scope, x) ==
  LET Inner(n) == scope \o [i \in 1..n |-> x.params[i].var]
      IsX(var) == var = <<x>>
  IN  CASE x.k = "var" ->
             IF <<x>> \in ToSet(scope) THEN Bound(Len(scope) - SelectLastInSeq(scope, IsX)) ELSE x
        [] x.k = "con" -> x
        [] x.k = "because" -> MeaningIn(scope, x.value)
        [] x.k = "impossible" -> [k |-> "con", name |-> "impossible"]
        [] x.k = "node" ->
             [x EXCEPT !.args = [i \in DOMAIN @ |-> MeaningIn(scope, @[i])]]
        [] x.k = "binder" ->
             [k |-> "binder", op |-> x.op, mutable |-> x.mutable,
              types |-> [i \in DOMAIN x.params |-> MeaningIn(Inner(i - 1), x.params[i].type)],
              rest |-> [i \in DOMAIN x.rest |-> MeaningIn(Inner(Len(x.params)), x.rest[i])]]

Meaning(x) == MeaningIn(<<>>, x)

\* m, with `values` for free variables and, if `first` holds a term, that for
\* the parameter that `depth` others are nested in.
RECURSIVE Filled(_, _, _, _)
Filled(depth, first, values, m) ==
  LET At(d, xs) == [i \in DOMAIN xs |-> Filled(d, first, values, xs[i])]
  IN  CASE m.k = "var" -> IF m \in DOMAIN values THEN values[m] ELSE m
        [] m.k = "con" -> m
        [] m.k = "bound" -> IF first # <<>> /\ m.i = depth THEN first[1] ELSE m
        [] m.k = "node" -> [m EXCEPT !.args = At(depth, @)]
        [] m.k = "binder" ->
             [m EXCEPT !.types = [i \in DOMAIN @ |-> Filled(depth + i - 1, first, values, @[i])],
                       !.rest = At(depth + Len(m.types), @)]

\* Every free variable in `values` replaced.
WithValues(m, values) == Filled(0, <<>>, values, m)

\* A binder without its first parameter, which becomes e.
Applied(m, e) == Filled(0, <<e>>, <<>>, [m EXCEPT !.types = Tail(@)])

\* m with `to` for all its parts that are `from`; neither has bound variables.
RECURSIVE AllReplaced(_, _, _)
AllReplaced(from, to, m) ==
  LET All(xs) == [i \in DOMAIN xs |-> AllReplaced(from, to, xs[i])]
  IN  CASE m = from -> to
        [] m # from /\ m.k = "node" -> [m EXCEPT !.args = All(@)]
        [] m # from /\ m.k = "binder" -> [m EXCEPT !.types = All(@), !.rest = All(@)]
        [] OTHER -> m
=============================================================================
