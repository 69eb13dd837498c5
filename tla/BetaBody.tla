---- MODULE BetaBody ----
(***************************************************************************)
(* Beta normalisation of a body of statements: beta_reduction.cpp and      *)
(* drop_unreachable_stmts.cpp.  Arguments are substituted elsewhere: the   *)
(* lambdas met here take none.                                             *)
(***************************************************************************)
EXTENDS Statements, SequencesExt

RECURSIVE DropUnreachable(_), BetaNormalize(_), Prune(_)

(***************************************************************************)
(* drop_unreachable_stmts: keep up to the first terminator, forget the     *)
(* branch a constant condition never takes, then go into the branches.     *)
(***************************************************************************)
Reachable(body) ==
    LET ends == {i \in DOMAIN body : IsTerminator(body[i])}
    IN  IF ends = {} THEN body
        ELSE SubSeq(body, 1, CHOOSE i \in ends : \A j \in ends : i <= j)

DropDeadBranch(stmt) ==
    IF stmt.s # "if" \/ stmt.cond.c # "constant" THEN stmt
    ELSE IF stmt.cond.of THEN [stmt EXCEPT !.no = <<>>] ELSE [stmt EXCEPT !.yes = <<>>]

DropInside(stmt) ==
    IF stmt.s # "if" THEN stmt
    ELSE [stmt EXCEPT !.yes = DropUnreachable(@),
                      !.no = [i \in DOMAIN @ |-> DropUnreachable(@[i])]]

DropUnreachable(body) ==
    LET kept == Reachable(body)
    IN  [i \in DOMAIN kept |-> DropInside(DropDeadBranch(kept[i]))]

(***************************************************************************)
(* beta_normalize(expr_t&): a lambda that is a single `return e` becomes   *)
(* e.  A statement-level application keeps its lambda, and only its        *)
(* arguments and the lambda's body are normalised.                         *)
(***************************************************************************)
NormalExpr(expr) ==
    IF expr.e = "value" THEN expr
    ELSE LET body == BetaNormalize(expr.body)
         IN  IF Len(body) = 1 /\ body[1].s = "return" /\ body[1].expr # <<>>
             THEN body[1].expr[1] ELSE [expr EXCEPT !.body = body]

NormalExprs(exprs) == [i \in DOMAIN exprs |-> NormalExpr(exprs[i])]

NormalStmt(stmt) ==
    CASE stmt.s = "call" -> [stmt EXCEPT !.args = NormalExprs(@)]
      [] stmt.s = "return" -> [stmt EXCEPT !.expr = NormalExprs(@)]
      [] stmt.s = "if" -> [stmt EXCEPT !.yes = BetaNormalize(@),
                                       !.no = [i \in DOMAIN @ |-> BetaNormalize(@[i])]]
      [] OTHER -> stmt

(***************************************************************************)
(* The second pass of beta_normalize(body_t&): from a statement to the end *)
(* of the body, drop the calls that do nothing and lift the only branch    *)
(* that can be taken.                                                      *)
(***************************************************************************)
ReplaceWith(stmts, rest) == Prune(DropUnreachable(stmts \o rest))

\* Mutant: a mutable condition goes away with its dead branch.
PruneIf_mutableToo(if, rest) ==
    CASE if.cond.c # "constant" /\ IsImpossible(if.yes) /\ if.no = <<>> -> Prune(rest)
      [] if.cond.c # "constant" /\ Some(IsImpossible, if.no) -> ReplaceWith(if.yes, rest)
      [] OTHER -> <<if>> \o Prune(rest)

PruneIf(if, rest) ==
    LET else == IF if.no = <<>> THEN <<>> ELSE if.no[1]
        ElseInstead == IF if.no = <<>> THEN Prune(rest) ELSE ReplaceWith(else, rest)
    IN  CASE if.cond.c = "constant" ->
                IF if.cond.of THEN ReplaceWith(if.yes, rest) ELSE ElseInstead
          [] IsMutableCond(if.cond) -> <<if>> \o Prune(rest)
          [] IsImpossible(if.yes) -> ElseInstead
          [] IsImpossible(else) -> ReplaceWith(if.yes, rest)
          [] if.no = <<>> /\ IsImpossible(rest) -> ReplaceWith(if.yes, <<>>)
          [] OTHER -> <<if>> \o Prune(rest)

Prune(body) ==
    IF body = <<>> THEN <<>>
    ELSE LET first == Head(body)
             rest == Tail(body)
         IN  CASE first.s = "if" -> PruneIf(first, rest)
               [] first.s = "call" /\ ~IsMutableCall(first) -> Prune(rest)
               [] OTHER -> <<first>> \o Prune(rest)

BetaNormalize(body) ==
    LET dropped == DropUnreachable(body)
    IN  Prune([i \in DOMAIN dropped |-> NormalStmt(dropped[i])])

====
