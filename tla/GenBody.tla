---- MODULE GenBody ----
(***************************************************************************)
(* How a body of statements becomes basic blocks: gen_body.cpp, the        *)
(* inlining of gen_val.cpp and gen_func_body of gen_func.cpp.              *)
(*                                                                         *)
(* A function under construction is its blocks (sequences of instructions, *)
(* named by position) and the slots allocated so far.  A snippet adds the  *)
(* builder's insertion block, the snippet's entry block and its open       *)
(* blocks.  Values are abstract: an operand is a value or a slot.          *)
(***************************************************************************)
EXTENDS Statements, SequencesExt

None == 0                                   \* no inlined_result

Terminators == {"br", "condbr", "ret", "unreachable"}
IsTerminated(block) == block # <<>> /\ Last(block).i \in Terminators

Emit(g, instr) == [g EXCEPT !.blocks[g.at] = Append(@, instr)]
NewBlock(g) == [g EXCEPT !.blocks = Append(@, <<>>)]
NewSlot(g) == [g EXCEPT !.slots = @ + 1]
Branch(to) == [i |-> "br", to |-> to]
Ret(operand) == [i |-> "ret", of |-> operand]

(***************************************************************************)
(* snippet_t::seal_open_blocks, in a build without assertions.             *)
(***************************************************************************)
SealOpenBlocks(g, instr) ==
    LET open == ToSet(g.open)
    IN  [g EXCEPT !.open = <<>>,
                  !.blocks = [b \in DOMAIN @ |-> IF b \in open THEN Append(@[b], instr) ELSE @[b]]]

RECURSIVE GenStmts(_, _, _), GenStmt(_, _, _)

(***************************************************************************)
(* gen_body: a fresh entry block, a builder of its own, no open blocks.    *)
(* Back in the caller only the blocks and slots have moved.                *)
(***************************************************************************)
GenBody(g, body, inlined) ==
    LET new == NewBlock(g)
        entry == Len(new.blocks)
        snippet == [new EXCEPT !.at = entry, !.entry = entry, !.open = <<>>]
    IN  IF IsImpossible(body) THEN Emit(snippet, [i |-> "unreachable"])
        ELSE GenStmts(snippet, body, inlined)

Resume(g, snippet) == [snippet EXCEPT !.at = g.at, !.entry = g.entry, !.open = g.open]

(***************************************************************************)
(* gen_stmts                                                               *)
(***************************************************************************)
SealBeforeNext(g) ==
    IF g.open = <<>> THEN g
    ELSE LET next == Len(g.blocks) + 1
         IN  [SealOpenBlocks(NewBlock(g), Branch(next)) EXCEPT !.at = next]

RECURSIVE GenRest(_, _, _)
GenRest(g, rest, inlined) ==
    IF rest = <<>> THEN g
    ELSE GenRest(GenStmt(SealBeforeNext(g), Head(rest), inlined), Tail(rest), inlined)

\* Mutant: an empty body opens nothing.
GenStmts_nothingOpen(g, body, inlined) ==
    IF body = <<>> THEN g ELSE GenRest(GenStmt(g, Head(body), inlined), Tail(body), inlined)

GenStmts(g, body, inlined) ==
    IF body = <<>> THEN [g EXCEPT !.open = Append(@, g.entry)]
    ELSE GenRest(GenStmt(g, Head(body), inlined), Tail(body), inlined)

(***************************************************************************)
(* gen_val.  `dest` is the slot the value is built in, or None; the        *)
(* operand of the result is in g.operand.                                  *)
(***************************************************************************)
Store(g, dest, operand) ==
    IF dest = None THEN g ELSE Emit(g, [i |-> "store", to |-> dest, of |-> operand])

GenInlined(g, expr, dest) ==
    LET body == GenBody(g, expr.body, dest)
        jump == Emit(Resume(g, body), Branch(body.entry))
        cont == Len(jump.blocks) + 1
        sealed == SealOpenBlocks([NewBlock(jump) EXCEPT !.open = body.open], Branch(cont))
    IN  [sealed EXCEPT !.at = cont, !.open = g.open, !.operand = [slot |-> dest]]

GenVal(g, expr, dest) ==
    LET built == [value |-> IF expr.e = "value" THEN expr.v ELSE Unit]
        inner == IF dest = None THEN NewSlot(g) ELSE g
    IN  IF expr.e = "value" \/ expr.body = <<>>
        THEN [Store(g, dest, built) EXCEPT !.operand = built]
        ELSE GenInlined(inner, expr, IF dest = None THEN inner.slots ELSE dest)

(***************************************************************************)
(* gen_stmt                                                                *)
(***************************************************************************)
GenCall(g, stmt) ==
    LET given == IF stmt.args = <<>> THEN [g EXCEPT !.operand = [value |-> Unit]]
                 ELSE GenVal(g, stmt.args[1], None)
    IN  Emit(given, [i |-> "call", f |-> stmt.f, mutable |-> stmt.mutable, of |-> given.operand])

\* Mutant: a condition whose answer is known is not evaluated.
GenCondition_skips(g, cond) == g

GenCondition(g, cond) ==                  \* for its effects only
    IF IsMutableCond(cond) THEN Emit(g, [i |-> "ask", cond |-> cond]) ELSE g

GenBranches(g, stmt, inlined) ==
    LET then == GenBody(g, stmt.yes, inlined)
        back == [Resume(g, then) EXCEPT !.open = g.open \o then.open]
        else == IF stmt.no # <<>> THEN GenBody(back, stmt.no[1], inlined)
                ELSE LET new == NewBlock(back)
                     IN  [new EXCEPT !.entry = Len(new.blocks), !.open = <<Len(new.blocks)>>]
        both == [Resume(g, else) EXCEPT !.open = back.open \o else.open]
    IN  Emit(both, [i |-> "condbr", cond |-> stmt.cond, then |-> then.entry, else |-> else.entry])

GenIf(g, stmt, inlined) ==
    CASE IsImpossible(stmt.yes) ->
            LET asked == GenCondition(g, stmt.cond)
            IN  IF stmt.no = <<>> THEN asked ELSE GenStmts(asked, stmt.no[1], inlined)
      [] Some(IsImpossible, stmt.no) /\ ~IsImpossible(stmt.yes) ->
            GenStmts(GenCondition(g, stmt.cond), stmt.yes, inlined)
      [] OTHER -> GenBranches(g, stmt, inlined)

GenReturn(g, stmt, inlined) ==
    IF stmt.expr = <<>> THEN Emit(g, Ret([value |-> Unit]))
    ELSE LET value == GenVal(g, stmt.expr[1], inlined)
             operand == IF stmt.expr[1].ty = Unit THEN [value |-> Unit] ELSE value.operand
         IN  IF inlined = None THEN Emit(value, Ret(operand))
             ELSE [value EXCEPT !.open = Append(@, value.at)]

GenStmt(g, stmt, inlined) ==
    CASE stmt.s = "call" -> GenCall(g, stmt)
      [] stmt.s = "if" -> GenIf(g, stmt, inlined)
      [] stmt.s = "return" -> GenReturn(g, stmt, inlined)
      [] OTHER -> Emit(g, [i |-> "unreachable"])

(***************************************************************************)
(* gen_func_body                                                           *)
(***************************************************************************)
NoBlocks == [blocks |-> <<>>, slots |-> 0, at |-> 0, entry |-> 0, open |-> <<>>,
             operand |-> [value |-> Unit]]

GenSnippet(body) == GenBody(NoBlocks, body, None)

GenFuncBody(f) ==
    LET snippet == GenSnippet(f.body)
    IN  IF f.ty = Unit THEN SealOpenBlocks(snippet, Ret([value |-> Unit])) ELSE snippet

(***************************************************************************)
(* What llvm::verifyModule asks of the blocks of a function whose returned *)
(* values have the type ty: one terminator in each block, at its end, and  *)
(* no value of another type returned.                                      *)
(***************************************************************************)
IsValid(g, ty) ==
    \A b \in DOMAIN g.blocks :
        LET block == g.blocks[b]
        IN  /\ IsTerminated(block)
            /\ \A n \in 1 .. Len(block) - 1 : block[n].i \notin Terminators
            /\ Last(block).i = "ret" =>
                  (Last(block).of = [value |-> Unit]) = (ty = Unit)

====
