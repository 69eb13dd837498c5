---------------------------- MODULE MCTermSteps -----------------------------
(* Functions, function types and tuple types that bind two or three names,  *)
(* side by side with one that differs in at most two places; t and u also   *)
(* name variables around them.                                              *)
EXTENDS TermSteps, FiniteSets

t == Var("t", 0)
u == Var("u", 0)
x == Var("x", 0)
T == Con("typename")
c == Con("c")
f == Con("f")
Apply(g, args) == Node("app", <<g>> \o args)
Eq(a, b) == Node("eq", <<a, b>>)
Returns(e) == Node("body", <<Node("return", <<e>>)>>)
Lambda(params, ret, body) == Binder("abs", FALSE, params, <<ret, body>>)
Pi(params, ret) == Binder("pi", FALSE, params, <<ret>>)
Typename(var) == Param("many", T, var)

MCSorts == [n \in {"t", "u", "x", "c", "f", "typename", "true"} |->
              IF n \in {"f", "typename"} THEN n ELSE "value"]

\* c instead of a variable: the parameter has no name.
Var1(v) == IF v = c THEN Anonymous ELSE Named(v)

\* if (fst == c) impossible because snd; return f(fst, snd == c);
Body(ch) ==
  LET last == Node("return", <<Apply(f, <<ch.fst, Eq(ch.snd, c)>>)>>)
      check == Node("if", <<Eq(ch.fst, c), Node("body", <<Impossible(<<ch.snd>>)>>)>>)
  IN  Node("body", IF ch.check THEN <<check, last>> ELSE <<last>>)

Function(ch) ==
  Lambda(<<Typename(Named(ch.first)), Param("many", ch.first, Var1(ch.second))>>, ch.snd,
         Returns(Lambda(<<Typename(Var1(ch.inner))>>, T, Body(ch))))

\* With `check` there is no inner function type: such types can be unified.
FunctionType(ch) ==
  LET part == IF ch.check THEN Apply(f, <<ch.snd, ch.fst>>)
              ELSE Pi(<<Param("many", ch.snd, Var1(ch.inner))>>, ch.fst)
  IN  Pi(<<Typename(Named(ch.first)), Param("many", Eq(ch.snd, c), Var1(ch.second))>>,
         Apply(f, <<ch.fst, part, ch.snd>>))

Wrapped(ch) ==
  CASE ch.form = "eq" -> Eq(ch.snd, c)
    [] ch.form = "subscript" -> Node("subscript", <<Node("list", <<Eq(ch.snd, c)>>), ch.fst>>)
    [] ch.form = "because" -> Because(Eq(ch.snd, c), ch.fst)

TupleType(ch) ==
  Binder("sigma", FALSE,
         <<Typename(Named(ch.first)), Param(ch.qty, Wrapped(ch), Var1(ch.second)),
           Param("many", Apply(f, <<ch.fst, Pi(<<Typename(Named(t))>>, ch.snd)>>), Anonymous)>>, <<>>)

Build(ch) == CASE ch.kind = "function" -> Function(ch)
               [] ch.kind = "type" -> FunctionType(ch)
               [] ch.kind = "tuple" -> TupleType(ch)

Choice(kind) ==
  [kind : {kind}, first : {x, t}, second : {t, u, c}, inner : {t, u}, fst : {t, u, x}, snd : {t, c},
   check : BOOLEAN]
TupleChoice ==
  [kind : {"tuple"}, first : {x, t}, second : {t, u, c}, fst : {t, u}, snd : {t, c},
   form : {"eq", "subscript", "because"}, qty : {"one", "many"}]

\* Pairs of choices that differ in at most n places.
Near(n, choices) ==
  {ab \in choices \X choices : Cardinality({p \in DOMAIN ab[1] : ab[1][p] # ab[2][p]}) <= n}

PairsOf(n) ==
  {<<Build(ab[1]), Build(ab[2])>> :
     ab \in Near(n, Choice("function")) \union Near(n, Choice("type")) \union Near(n, TupleChoice)}

MCPairs == PairsOf(2)

\* An identity in two ways, the one the same as the other.
Id(v) == Lambda(<<Typename(Named(v))>>, T, Returns(v))

MCArguments ==
  {<<t, t>>, <<u, Var("u", 1)>>, <<Apply(f, <<t, Id(t)>>), Apply(f, <<t, Id(u)>>)>>,
   <<Apply(f, <<u>>), Because(Apply(f, <<u>>), t)>>}

MCConditions == {Eq(t, c), Eq(u, c)}

\* Below a binder that an earlier substitution renamed from t to t:1, an
\* argument can be about both.
MCSamePairs == PairsOf(0)
MCBothNames == LET e == Apply(f, <<t, Var("t", 1)>>) IN {<<e, e>>}
=============================================================================
