------------------------------- MODULE Terms --------------------------------
(***************************************************************************)
(* Expressions of dep0::ast and the algorithms on their names: occurs_in,  *)
(* max_index, replace, rename, is_alpha_equivalent and hash_code.          *)
(*                                                                         *)
(* All expression forms with sub-expressions and no binder are nodes that  *)
(* differ in `op`: "app" (the function first), "eq", "list", "subscript"   *)
(* and so on, and the statements "body", "if" and "return" too.  Kept      *)
(* apart are `because` and `impossible`, whose reasons are often ignored,  *)
(* and the forms that bind: "pi" (rest: the return type), "abs" (rest: the *)
(* return type and the body) and "sigma" (no rest).  The name of a         *)
(* variable stands for its source text and its shadow_id.                  *)
(***************************************************************************)
EXTENDS Naturals, Sequences, SequencesExt, FiniteSetsExt

Var(name, idx) == [k |-> "var", name |-> name, idx |-> idx]
Con(name) == [k |-> "con", name |-> name]
Node(op, args) == [k |-> "node", op |-> op, args |-> args]
Because(value, reason) == [k |-> "because", value |-> value, reason |-> reason]
Impossible(reason) == [k |-> "impossible", reason |-> reason]
Param(qty, type, var) == [qty |-> qty, type |-> type, var |-> var]
Binder(op, mutable, params, rest) ==
  [k |-> "binder", op |-> op, mutable |-> mutable, params |-> params, rest |-> rest]

Anonymous == <<>>
Named(v) == <<v>>

\* The parts of a term that is not a binder, in the order they are visited.
Kids(x) ==
  CASE x.k \in {"var", "con"} -> <<>>
    [] x.k = "node" -> x.args
    [] x.k = "because" -> <<x.value, x.reason>>
    [] x.k = "impossible" -> x.reason

WithKids(x, kids) ==
  CASE x.k \in {"var", "con"} -> x
    [] x.k = "node" -> [x EXCEPT !.args = kids]
    [] x.k = "because" -> Because(kids[1], kids[2])
    [] x.k = "impossible" -> [x EXCEPT !.reason = kids]

\* What follows the first parameter of a binder, where that may occur; and
\* a parameter in front of what it may occur in.
First(b) == Head(b.params)
Rest(b) == [b EXCEPT !.params = Tail(@)]
Before(p, b) == [b EXCEPT !.params = <<p>> \o @]

-----------------------------------------------------------------------------
\* occurs_in: `style` is "free" or "anywhere".
RECURSIVE OccursIn(_, _, _)
OccursIn(v, x, style) ==
  IF x.k # "binder"
  THEN x = v \/ \E i \in DOMAIN Kids(x) : OccursIn(v, Kids(x)[i], style)
  ELSE IF x.params = <<>> THEN \E i \in DOMAIN x.rest : OccursIn(v, x.rest[i], style)
  ELSE \/ OccursIn(v, First(x).type, style)
       \/ IF First(x).var = Named(v) THEN style = "anywhere"
                                     ELSE OccursIn(v, Rest(x), style)

RECURSIVE MaxIndex(_)
MaxIndex(x) ==
  LET Highest(xs) == Max({0} \union {MaxIndex(xs[i]) : i \in DOMAIN xs})
  IN  CASE x.k = "var" -> x.idx
        [] x.k = "binder" ->
             IF x.params = <<>> THEN Highest(x.rest)
             ELSE Max({ MaxIndex(First(x).type), MaxIndex(Rest(x)) }
                        \union {v.idx : v \in ToSet(First(x).var)})
        [] OTHER -> Highest(Kids(x))

\* replace: every occurrence, those that bind and those bound included.
RECURSIVE Replace(_, _, _)
Replace(from, to, x) ==
  LET All(xs) == [i \in DOMAIN xs |-> Replace(from, to, xs[i])]
  IN  CASE x.k = "var" -> IF x = from THEN to ELSE x
        [] x.k = "binder" ->
             IF x.params = <<>> THEN [x EXCEPT !.rest = All(@)]
             ELSE Before([First(x) EXCEPT !.type = Replace(from, to, @),
                                          !.var = IF @ = Named(from) THEN Named(to) ELSE @],
                         Replace(from, to, Rest(x)))
        [] OTHER -> WithKids(x, All(Kids(x)))

\* rename: the name that replaces a bound variable in its scope.
Fresh(v, scope) == [v EXCEPT !.idx = 1 + Max({v.idx, MaxIndex(scope)})]

-----------------------------------------------------------------------------
\* Mutant: a parameter without a name is as good as one with any name.
UnusedIn_any(v, scope) == TRUE

\* A named and an anonymous parameter are alike if the name is not used.
UnusedIn(v, scope) == ~OccursIn(v, scope, "free")

\* The two scopes after each has renamed the variable that both bind: the
\* lower of the two new names is then replaced by the higher.
SameName(v, x, w, y) ==
  LET v2 == Fresh(v, x)
      w2 == Fresh(w, y)
      x2 == Replace(v, v2, x)
      y2 == Replace(w, w2, y)
  IN  IF v2.idx > w2.idx THEN <<x2, Replace(w2, v2, y2)>>
                         ELSE <<Replace(v2, w2, x2), y2>>

\* is_alpha_equivalent
RECURSIVE AlphaEquivalent(_, _)
AllEquivalent(xs, ys) ==
  Len(xs) = Len(ys) /\ \A i \in DOMAIN xs : AlphaEquivalent(xs[i], ys[i])

\* What follows the first parameters of two binders.
ScopesEquivalent(x, y) ==
  LET vx == First(x).var
      vy == First(y).var
  IN  CASE vx = vy -> AlphaEquivalent(Rest(x), Rest(y))
        [] vx # vy /\ Len(vx) = 1 /\ Len(vy) = 1 ->
             LET both == SameName(vx[1], Rest(x), vy[1], Rest(y))
             IN  AlphaEquivalent(both[1], both[2])
        [] OTHER ->
             /\ IF vx # Anonymous THEN UnusedIn(vx[1], Rest(x)) ELSE UnusedIn(vy[1], Rest(y))
             /\ AlphaEquivalent(Rest(x), Rest(y))

BindersEquivalent(x, y) ==
  /\ x.op = y.op /\ x.mutable = y.mutable
  /\ Len(x.params) = Len(y.params)
  /\ IF x.params = <<>> THEN AllEquivalent(x.rest, y.rest)
     ELSE AlphaEquivalent(First(x).type, First(y).type) /\ ScopesEquivalent(x, y)

FormsEquivalent(x, y) ==
  /\ x.k = y.k
  /\ CASE x.k \in {"var", "con"} -> x = y
       [] x.k = "impossible" -> TRUE
       [] x.k = "node" -> x.op = y.op /\ AllEquivalent(x.args, y.args)
       [] x.k = "binder" -> BindersEquivalent(x, y)

AlphaEquivalent(x, y) ==
  CASE x.k = "because" -> AlphaEquivalent(x.value, y)
    [] x.k # "because" /\ y.k = "because" -> AlphaEquivalent(x, y.value)
    [] OTHER -> FormsEquivalent(x, y)

-----------------------------------------------------------------------------
\* hash_code: a hash is the sequence of what is combined.  The state gives
\* each binder a number, and keeps it when the binder's scope is left.
NoNames == [next |-> 0, ids |-> <<>>]

Store(s, v) == [next |-> s.next + 1, ids |-> <<[var |-> v, id |-> s.next]>> \o s.ids]

\* Mutant: bound variables are hashed like free ones.
HashVar_byName(s, v) == <<"free", v.name, v.idx>>

HashVar(s, v) ==
  LET IsV(e) == e.var = v
  IN  IF \E i \in DOMAIN s.ids : IsV(s.ids[i])
      THEN <<"bound", s.ids[SelectInSeq(s.ids, IsV)].id>>
      ELSE <<"free", v.name, v.idx>>

RECURSIVE HashIn(_, _)
HashNext(r, x) ==
  LET h == HashIn(r.state, x) IN [state |-> h.state, hash |-> Append(r.hash, h.hash)]

HashAll(state, tag, xs) == FoldLeft(HashNext, [state |-> state, hash |-> tag], xs)

HashBinder(state, x) ==
  IF x.params = <<>> THEN HashAll(state, <<x.op, x.mutable>>, x.rest)
  ELSE LET p == First(x)
           stored == IF p.var = Anonymous THEN state ELSE Store(state, p.var[1])
       IN  HashAll(stored, <<x.op, x.mutable, p.qty>>, <<p.type, Rest(x)>>)

HashIn(state, x) ==
  CASE x.k = "var" -> [state |-> state, hash |-> HashVar(state, x)]
    [] x.k = "con" -> [state |-> state, hash |-> <<"con", x.name>>]
    [] x.k = "node" -> HashAll(state, <<x.op>>, x.args)
    [] x.k = "because" -> HashAll(state, <<"because">>, <<x.value>>)
    [] x.k = "impossible" -> [state |-> state, hash |-> <<"impossible">>]
    [] x.k = "binder" -> HashBinder(state, x)

HashCode(x) == HashIn(NoNames, x).hash
=============================================================================
