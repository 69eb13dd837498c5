---- MODULE MCBodyFlow ----
(***************************************************************************)
(* Families of functions for the runs: short bodies of calls, returns,     *)
(* `impossible` and nested ifs; and bodies with lambdas invoked in place.  *)
(***************************************************************************)
EXTENDS BodyFlow

A == Immutable("a")
M == Mutable("m")
MCAtoms == {"a"}

One == Value("int", "one")
Two == Value("int", "two")
Effect == Call("f", TRUE, <<>>)
NoEffect == Call("p", FALSE, <<>>)
ReturnOne == Return(<<One>>)
ReturnTwo == Return(<<Two>>)

Given == {{}, {<<A, TRUE>>}, {<<A, TRUE>>, <<A, FALSE>>}}

UpTo1(S) == {<<>>} \union {<<x>> : x \in S}
UpTo2(S) == UpTo1(S) \union {<<x, y>> : x, y \in S}
Ifs(conds, Yes, No) == {IfElse(c, y, n) : c \in conds, y \in Yes, n \in UpTo1(No)}
Functions(ty, given, bodies) == [ty : {ty}, given : given, body : bodies]

Plain == {Effect, ReturnOne, Impossible}
Simple == Plain \union {NoEffect}
Split == Ifs({A, M}, UpTo1(Simple), UpTo1(Simple))

(* Two statements, then a return. *)
InARow == {b \o <<ReturnTwo>> : b \in UpTo2(Simple \union Split)}

(* An `if` inside an `if`, and what may follow. *)
Nested ==
    LET Inner == Ifs({A, M}, UpTo1(Plain), UpTo1(Plain))
        Outer == Ifs({A, M}, UpTo1(Inner), {<<x>> : x \in Plain})
    IN  {<<x>> \o rest : x \in Outer, rest \in {<<>>, <<ReturnTwo>>, <<Effect, ReturnTwo>>}}

(* Lambdas, as delta unfolding and beta reduction leave them. *)
Lambdas ==
    {<<ReturnTwo>>, <<NoEffect, ReturnTwo>>, <<Effect, ReturnTwo>>}
    \union {<<IfElse(c, <<ReturnOne>>, <<<<ReturnTwo>>>>)>> : c \in {A, M, Constant(TRUE), Constant(FALSE)}}
    \union {<<IfElse(c, y, <<>>), ReturnTwo>> : c \in {A, M, Constant(TRUE)}, y \in UpTo1(Simple)}

Twice == {<<Return(<<Invoked("int", b)>>)>> : b \in Lambdas}

WithLambdas ==
    LET Es == {<<Invoked("int", b)>> : b \in Lambdas \union Twice}
        Xs == {Return(e) : e \in Es} \union {Call("f", TRUE, e) : e \in Es} \union {Call("p", FALSE, e) : e \in Es}
    IN  {<<x, ReturnOne>> : x \in Xs}
        \union {<<IfElse(A, <<x>>, <<>>), y, ReturnOne>> : x \in Xs, y \in {Effect} \union Xs}

(* Functions of type unit_t, whose return may be bare or missing. *)
Bare == Return(<<>>)
UnitBodies ==
    LET UnitLambdas == {<<>>, <<NoEffect>>, <<IfElse(A, <<>>, <<>>)>>, <<IfElse(M, <<Effect>>, <<>>), Bare>>}
        Given1 == {Call("f", TRUE, <<Invoked(Unit, b)>>) : b \in UnitLambdas}
    IN  UpTo2({Effect, Bare, Return(<<Value(Unit, Unit)>>)} \union Given1
              \union Ifs({A, M}, UpTo1({Effect, Bare}), UpTo1({Effect, Bare})))

MCAll ==
    Functions("int", Given, InARow \union Nested)
    \union Functions("int", {{}}, WithLambdas)
    \union Functions(Unit, {{}}, UnitBodies)

====
