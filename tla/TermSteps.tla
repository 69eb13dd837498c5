----------------------------- MODULE TermSteps ------------------------------
(***************************************************************************)
(* Two functions, or function types, are given their arguments one by one, *)
(* the way beta_normalize and type_assign_app do: each argument is         *)
(* substituted for the first parameter in all that follows it.  Two tuple  *)
(* types, or structs, are given the elements of an initializer list, the   *)
(* way check_expr does.                                                    *)
(*                                                                         *)
(*   left, right    the two expressions, with names                        *)
(*   meanings       what each should mean: the same steps taken without    *)
(*                  names, where nothing needs to be renamed               *)
(*   expected       the tuple type that left was, if it was one            *)
(*   list           the elements it was given, each with the type that it  *)
(*                  was checked against                                    *)
(***************************************************************************)
EXTENDS Substitution

CONSTANTS
  Pairs,       \* of expressions to begin with
  Arguments,   \* pairs of arguments, one for each expression
  Conditions,  \* expressions that are rewritten to `true`
  OwnNames     \* whether a renamed variable may meet a binder of its old name

VARIABLES left, right, meanings, expected, list

vars == <<left, right, meanings, expected, list>>

N == INSTANCE Nameless

IsTuple(x) == x.k = "binder" /\ x.op = "sigma"

Init ==
  /\ \E pair \in Pairs : left = pair[1] /\ right = pair[2]
  /\ meanings = <<N!Meaning(left), N!Meaning(right)>>
  /\ expected = IF IsTuple(left) THEN <<left>> ELSE <<>>
  /\ list = <<>>

RECURSIVE VarsOf(_)
VarsOf(x) ==
  CASE x.k = "var" -> {x}
    [] x.k = "binder" ->
         UNION {VarsOf(x.params[i].type) \union ToSet(x.params[i].var) : i \in DOMAIN x.params}
           \union UNION {VarsOf(x.rest[i]) : i \in DOMAIN x.rest}
    [] OTHER -> UNION {VarsOf(Kids(x)[i]) : i \in DOMAIN Kids(x)}

\* The variables that are bound in x, one by one.
RECURSIVE BindersIn(_)
BindersIn(x) ==
  LET All(xs) == FlattenSeq([i \in DOMAIN xs |-> BindersIn(xs[i])])
  IN  CASE x.k = "binder" ->
             FlattenSeq([i \in DOMAIN x.params |-> x.params[i].var \o BindersIn(x.params[i].type)])
               \o All(x.rest)
        [] OTHER -> All(Kids(x))

BindersOf(x) == ToSet(BindersIn(x))

\* A bound of the runs, not of the code: no renamed variable, in the argument
\* or in the place of the parameter, meets a binder of its old name.
Meets(x, e) ==
  \E v \in ToSet(First(x).var) \union VarsOf(e), w \in BindersOf(Rest(x)) :
    v.idx > 0 /\ v.name = w.name

\* One turn of the loop over the arguments.
Given(x, e) ==
  IF First(x).var = Anonymous THEN Rest(x) ELSE Substitute(First(x).var[1], e, Rest(x))

Waiting(x) == x.k = "binder" /\ x.params # <<>>

Instantiate(e, f) ==
  /\ OwnNames \/ (~Meets(left, e) /\ ~Meets(right, f))
  /\ left' = Given(left, e)
  /\ right' = Given(right, f)
  /\ meanings' = <<N!Applied(meanings[1], N!Meaning(e)), N!Applied(meanings[2], N!Meaning(f))>>

PassArgument(e, f) ==
  /\ Waiting(left) /\ Waiting(right)
  /\ ~IsTuple(left) /\ ~IsTuple(right)
  /\ Instantiate(e, f)
  /\ UNCHANGED <<expected, list>>

\* The elements of a list, the values of a struct's fields alike.
GiveElement(e, f) ==
  /\ Waiting(left) /\ Waiting(right)
  /\ IsTuple(left) /\ IsTuple(right)
  /\ Instantiate(e, f)
  /\ list' = Append(list, [value |-> e, type |-> First(left).type])
  /\ UNCHANGED expected

\* All arguments are given: what a function type returns, or a function that
\* does nothing but return a value.
HasResult(x) == x.k = "binder" /\ x.params = <<>> /\ x.op \in {"pi", "abs"}
Result(x) == IF x.op = "pi" THEN x.rest[1] ELSE x.rest[2].args[1].args[1]

Return ==
  /\ HasResult(left) /\ HasResult(right)
  /\ left' = Result(left)
  /\ right' = Result(right)
  /\ meanings' = <<Result(meanings[1]), Result(meanings[2])>>
  /\ UNCHANGED <<expected, list>>

Next == Return \/ \E a \in Arguments : PassArgument(a[1], a[2]) \/ GiveElement(a[1], a[2])

Spec == Init /\ [][Next]_vars

-----------------------------------------------------------------------------
Index(i) == Con(ToString(i))
Subscript(object, i) == Node("subscript", <<object, Index(i)>>)

\* Mutant: an element counts as the one after it.
SubscriptType_nextOne(type, object, i) ==
  First(FoldLeft(LAMBDA x, j : Given(x, Subscript(object, j)), type, [j \in 1..i |-> j])).type

\* The type of object[i], or of the i-th member of a struct: the subscripts of
\* the elements before it are what they are called in its type.
SubscriptType(type, object, i) ==
  First(FoldLeft(LAMBDA x, j : Given(x, Subscript(object, j)), type, [j \in 1..i |-> j - 1])).type

\* delta_unfold, as often as it changes anything: a subscript of a list is the
\* element there.
RECURSIVE Unfolded(_)
Unfolded(x) ==
  LET All(xs) == [i \in DOMAIN xs |-> Unfolded(xs[i])]
      kids == All(Kids(x))
      found == {i \in DOMAIN kids[1].args : kids[2] = Index(i - 1)}
  IN  CASE x.k = "binder" ->
             [x EXCEPT !.params = [i \in DOMAIN @ |-> [@[i] EXCEPT !.type = Unfolded(@)]],
                       !.rest = All(@)]
        [] x.k = "node" /\ x.op = "subscript" /\ kids[1].k = "node" /\ kids[1].op = "list" /\ found # {} ->
             kids[1].args[CHOOSE i \in found : TRUE]
        [] OTHER -> WithKids(x, kids)

\* A parameter that every tuple is passed for in turn: nothing else has its name.
Object == Var("object", 0)
IsUnused(v, x) == Replace(v, Fresh(v, x), x) = x

ASSUME ObjectAssumption ==
  \A e \in Arguments \union Pairs : \A i \in DOMAIN e : IsUnused(Object, e[i])

ListOf(elements) == Node("list", [i \in DOMAIN elements |-> elements[i].value])

(***************************************************************************)
(* The type a subscript is assigned where only the type of the tuple is    *)
(* known is, once the tuple is there, the type that its element was        *)
(* checked against when the list was: the two loops that put earlier       *)
(* elements into the types of later ones (check.cpp, type_assign.cpp)      *)
(* agree, through substitution and unfolding.                              *)
(***************************************************************************)
SubscriptHasElementType ==
  \A i \in DOMAIN list :
    LET type == SubscriptType(expected[1], Object, i - 1)
    IN  N!Meaning(Unfolded(Substitute(Object, ListOf(list), type))) = N!Meaning(list[i].type)

-----------------------------------------------------------------------------
(***************************************************************************)
(* Substitution captures nothing and stops where it should: after every    *)
(* argument the two expressions mean what they would mean if bound         *)
(* variables had no names ("Perform capture-avoiding substitution").       *)
(***************************************************************************)
SubstitutionAvoidsCapture ==
  meanings = <<N!Meaning(left), N!Meaning(right)>>

(***************************************************************************)
(* Two expressions are equivalent exactly if they are the same but for the *)
(* names of bound variables, whatever was renamed before; and the order in *)
(* which they are compared does not matter.                                *)
(***************************************************************************)
EquivalenceIsNameless ==
  LET same == N!Meaning(left) = N!Meaning(right)
  IN  AlphaEquivalent(left, right) = same /\ AlphaEquivalent(right, left) = same

\* Every parameter has a name that is used for nothing else, and there is
\* nothing in x that hashes look at and equivalence does not.
RECURSIVE IsPlain(_)
IsPlain(x) ==
  CASE x.k = "because" -> FALSE
    [] x.k = "binder" ->
         /\ \A i \in DOMAIN x.params :
              /\ x.params[i].var # Anonymous /\ x.params[i].qty = "many"
              /\ IsPlain(x.params[i].type)
         /\ \A i \in DOMAIN x.rest : IsPlain(x.rest[i])
    [] OTHER -> \A i \in DOMAIN Kids(x) : IsPlain(Kids(x)[i])

NamesApart(x) ==
  /\ IsPlain(x) /\ IsInjective(BindersIn(x))
  /\ \A v \in BindersOf(x) : ~OccursIn(v, x, "free")

(***************************************************************************)
(* "Alpha-equivalent expressions are guaranteeed to have the same hash     *)
(* code": so they do, if in each every parameter has a name of its own and *)
(* the same quantity, and there is no `because`.                           *)
(***************************************************************************)
EquivalentsHashAlike ==
  AlphaEquivalent(left, right) /\ NamesApart(left) /\ NamesApart(right)
    => HashCode(left) = HashCode(right)

(***************************************************************************)
(* The values found by unifying what two function types return make them   *)
(* equal, all put in at once, though both may use the same variables.      *)
(***************************************************************************)
UnifierUnifies ==
  left.k = "binder" /\ right.k = "binder" /\ left.op = "pi" /\ right.op = "pi" =>
    LET from == left.rest[1]
        to == right.rest[1]
        u == Unify(from, to)
    IN  u.ok => N!WithValues(N!Meaning(from), [v \in DOMAIN u.values |-> N!Meaning(u.values[v])])
                  = N!Meaning(to)

RECURSIVE HasOp(_, _)
HasOp(ops, x) ==
  CASE x.k = "binder" ->
         \/ \E i \in DOMAIN x.params : HasOp(ops, x.params[i].type)
         \/ \E i \in DOMAIN x.rest : HasOp(ops, x.rest[i])
    [] OTHER -> \/ x.k \in ops \/ (x.k = "node" /\ x.op \in ops)
                \/ \E i \in DOMAIN Kids(x) : HasOp(ops, Kids(x)[i])

AfterRewriting(from, x) == Chosen(Rewrite(from, Con("true"), x), x)

RewritesAllOf(from, x) ==
  N!Meaning(AfterRewriting(from, x)) = N!AllReplaced(N!Meaning(from), Con("true"), N!Meaning(x))

(***************************************************************************)
(* Rewriting a condition to `true` replaces every part that means the      *)
(* condition and none that only looks like it, because its variables are   *)
(* bound there.  "It replaces all occurrences of `from` with `to`": not    *)
(* those inside of lists, members, subscripts and `because`.               *)
(***************************************************************************)
RewriteReplacesAll == \A c \in Conditions : RewritesAllOf(c, left)

RewriteIsExact ==
  HasOp(Kept \union {"because"}, left) \/ RewriteReplacesAll
=============================================================================
