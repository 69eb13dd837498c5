---- MODULE Statements ----
(***************************************************************************)
(* The statements of a DepC function after type-checking, and the          *)
(* questions the compiler asks about them:                                 *)
(*   is_terminator, returns_from_all_branches, is_mutable, is_impossible   *)
(* and the part of check_stmt that decides where `impossible` may stand.   *)
(*                                                                         *)
(* A body is a sequence of statements.  An expression is either a value or *)
(* a lambda invoked on the spot, the shape beta reduction leaves behind    *)
(* once every argument was substituted; everything else about expressions  *)
(* is abstracted to a name.  A condition is a constant, an immutable       *)
(* expression (whose value is fixed for one call of the function) or a     *)
(* mutable one (whose value is new every time it is evaluated).            *)
(***************************************************************************)
EXTENDS Naturals, Sequences

Unit == "unit"

Value(ty, v) == [e |-> "value", ty |-> ty, v |-> v]
Invoked(ty, body) == [e |-> "invoked", ty |-> ty, body |-> body]

Call(f, mutable, args) == [s |-> "call", f |-> f, mutable |-> mutable, args |-> args]
IfElse(cond, yes, no) == [s |-> "if", cond |-> cond, yes |-> yes, no |-> no]
Return(expr) == [s |-> "return", expr |-> expr]      \* expr is <<>> or <<e>>
Impossible == [s |-> "impossible"]

Constant(b) == [c |-> "constant", of |-> b]
Immutable(atom) == [c |-> "immutable", of |-> atom]
Mutable(atom) == [c |-> "mutable", of |-> atom]

Some(P(_), seq) == \E i \in DOMAIN seq : P(seq[i])

RECURSIVE ReturnsFromAllBranches(_), IsImpossible(_), HasMutable(_)

(***************************************************************************)
(* returns_from_all_branches.cpp and is_terminator.cpp                     *)
(***************************************************************************)
IsTerminator(stmt) ==
    \/ stmt.s \in {"return", "impossible"}
    \/ /\ stmt.s = "if"
       /\ stmt.no # <<>>
       /\ ReturnsFromAllBranches(stmt.yes)
       /\ ReturnsFromAllBranches(stmt.no[1])

ReturnsFromAllBranches(body) == Some(IsTerminator, body)

(***************************************************************************)
(* is_mutable.cpp: a lambda is as mutable as what its body does.           *)
(***************************************************************************)
IsMutableExpr(expr) == expr.e = "invoked" /\ HasMutable(expr.body)

IsMutableCall(stmt) == stmt.mutable \/ Some(IsMutableExpr, stmt.args)

IsMutableCond(cond) == cond.c = "mutable"

HasMutable(body) ==
    LET Touches(stmt) ==
            \/ stmt.s = "call" /\ IsMutableCall(stmt)
            \/ stmt.s = "return" /\ Some(IsMutableExpr, stmt.expr)
            \/ /\ stmt.s = "if"
               /\ \/ IsMutableCond(stmt.cond)
                  \/ HasMutable(stmt.yes)
                  \/ Some(HasMutable, stmt.no)
    IN  Some(Touches, body)

(***************************************************************************)
(* is_impossible.cpp: the scan stops, and the body counts as possible, at  *)
(* an `if` without else whose branch is possible.                          *)
(***************************************************************************)
IsImpossibleExpr(expr) == expr.e = "invoked" /\ IsImpossible(expr.body)

IsImpossibleStmt(stmt) ==
    CASE stmt.s = "call" -> Some(IsImpossibleExpr, stmt.args)
      [] stmt.s = "return" -> Some(IsImpossibleExpr, stmt.expr)
      [] stmt.s = "if" -> /\ stmt.no # <<>>
                          /\ IsImpossible(stmt.yes)
                          /\ IsImpossible(stmt.no[1])
      [] OTHER -> TRUE

IsImpossible(body) ==
    /\ body # <<>>
    /\ LET first == Head(body)
       IN  \/ IsImpossibleStmt(first)
           \/ /\ ~(first.s = "if" /\ first.no = <<>> /\ ~IsImpossible(first.yes))
              /\ IsImpossible(Tail(body))

(***************************************************************************)
(* check_stmt and check_body.  `facts` are the pairs <<condition, value>>  *)
(* the context holds a proof of: an argument of type true_t, the condition *)
(* of a branch being checked, or the negation of one whose branch always   *)
(* returns.  Rewriting the condition in the context turns two opposite     *)
(* facts into a proof of false, which is what `impossible` asks for.       *)
(***************************************************************************)
ProvesFalse(facts) == \E f \in facts : f[1].c # "constant" /\ <<f[1], ~f[2]>> \in facts

\* Mutant: an `if` without else is always taken for a branch not taken.
FactsAfter_always(stmt, facts) ==
    IF stmt.s = "if" /\ stmt.no = <<>> THEN facts \union {<<stmt.cond, FALSE>>} ELSE facts

FactsAfter(stmt, facts) ==
    IF stmt.s = "if" /\ stmt.no = <<>> /\ ReturnsFromAllBranches(stmt.yes)
    THEN facts \union {<<stmt.cond, FALSE>>} ELSE facts

RECURSIVE CheckBody(_, _, _)

CheckExpr(expr, facts) ==
    expr.e = "invoked" => /\ CheckBody(expr.body, facts, expr.ty)
                          /\ ReturnsFromAllBranches(expr.body) \/ expr.ty = Unit

CheckStmt(stmt, facts, goal) ==
    CASE stmt.s = "call" -> \A i \in DOMAIN stmt.args : CheckExpr(stmt.args[i], facts)
      [] stmt.s = "if" -> 
            /\ CheckBody(stmt.yes, facts \union {<<stmt.cond, TRUE>>}, goal)
            /\ stmt.no # <<>> => CheckBody(stmt.no[1], facts \union {<<stmt.cond, FALSE>>}, goal)
      [] stmt.s = "return" ->
            IF stmt.expr = <<>> THEN goal = Unit
            ELSE stmt.expr[1].ty = goal /\ CheckExpr(stmt.expr[1], facts)
      [] OTHER -> ProvesFalse(facts)

CheckBody(body, facts, goal) ==
    body # <<>> => /\ CheckStmt(Head(body), facts, goal)
                   /\ CheckBody(Tail(body), FactsAfter(Head(body), facts), goal)

(***************************************************************************)
(* A function is accepted: type_assign_abs.                                *)
(***************************************************************************)
Accepts(f) ==
    /\ CheckBody(f.body, f.given, f.ty)
    /\ ReturnsFromAllBranches(f.body) \/ f.ty = Unit

(***************************************************************************)
(* What a body means, as the source reads.  `run` carries the conditions'  *)
(* values, the answers mutable conditions will give, the trace so far and  *)
(* how the run stands: "on", <<"return", v>>, "absurd" or "waiting" for an *)
(* answer.                                                                 *)
(***************************************************************************)
Returned(v) == <<"return", v>>
Called(f, v) == <<"call", f, v>>
Asked(cond, answer) == <<"ask", cond.of, answer>>

RECURSIVE Runs(_, _)

Evaluates(expr, run) ==                  \* the value is in run.v
    IF expr.e = "value" THEN [run EXCEPT !.v = expr.v]
    ELSE LET inner == Runs(expr.body, run)
         IN  CASE inner.out = <<"on">> -> [inner EXCEPT !.v = Unit]
               [] inner.out[1] = "return" -> [inner EXCEPT !.v = inner.out[2], !.out = <<"on">>]
               [] OTHER -> inner

Asks(cond, run) ==                       \* the answer is in run.v
    CASE cond.c = "constant" -> [run EXCEPT !.v = cond.of]
      [] cond.c = "immutable" -> [run EXCEPT !.v = run.values[cond.of]]
      [] run.answers = <<>> -> [run EXCEPT !.out = <<"waiting">>]
      [] OTHER -> [run EXCEPT !.v = Head(run.answers), !.answers = Tail(@),
                              !.trace = Append(@, Asked(cond, Head(run.answers)))]

RunsCall(stmt, run) ==
    LET given == IF stmt.args = <<>> THEN [run EXCEPT !.v = Unit] ELSE Evaluates(stmt.args[1], run)
    IN  IF given.out = <<"on">> /\ stmt.mutable
        THEN [given EXCEPT !.trace = Append(@, Called(stmt.f, given.v))] ELSE given

RunsIf(stmt, run) ==
    LET asked == Asks(stmt.cond, run)
    IN  CASE asked.out # <<"on">> -> asked
          [] asked.v -> Runs(stmt.yes, asked)
          [] stmt.no # <<>> -> Runs(stmt.no[1], asked)
          [] OTHER -> asked

RunsReturn(stmt, run) ==
    IF stmt.expr = <<>> THEN [run EXCEPT !.out = Returned(Unit)]
    ELSE LET value == Evaluates(stmt.expr[1], run)
         IN  IF value.out = <<"on">> THEN [value EXCEPT !.out = Returned(value.v)] ELSE value

Runs(body, run) ==
    IF body = <<>> \/ run.out # <<"on">> THEN run
    ELSE LET first == Head(body)
             after == CASE first.s = "call" -> RunsCall(first, run)
                        [] first.s = "if" -> RunsIf(first, run)
                        [] first.s = "return" -> RunsReturn(first, run)
                        [] OTHER -> [run EXCEPT !.out = <<"absurd">>]
         IN  Runs(Tail(body), after)

Meaning(body, values, answers) ==
    LET end == Runs(body, [values |-> values, answers |-> answers, trace |-> <<>>,
                           v |-> Unit, out |-> <<"on">>])
    IN  [trace |-> end.trace, out |-> IF end.out = <<"on">> THEN Returned(Unit) ELSE end.out]

====
