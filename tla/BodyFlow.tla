---- MODULE BodyFlow ----
(***************************************************************************)
(* One function on its way from accepted source to running code: checked   *)
(* (type_assign_abs), transformed or not (beta_delta_normalization),       *)
(* generated and verified (llvmgen::gen), called with some argument values *)
(* and executed one instruction at a time, mutable conditions answering as *)
(* the world pleases.                                                      *)
(***************************************************************************)
EXTENDS BetaBody, GenBody

CONSTANTS
    Written,        \* the functions that may be written: [ty, given, body]
    Atoms,          \* the immutable conditions
    MayTransform,   \* the values of "the transform stage runs" to explore
    MaxAnswers      \* bound: answers considered when comparing two bodies

ASSUME BodyFlowAssumption ==
    /\ MayTransform \subseteq BOOLEAN
    /\ MaxAnswers \in Nat

VARIABLES
    stage,      \* "written", "checked", "ready", "built", "running", "done"; "rejected", "refused"
    func,       \* the function as type-checked
    code,       \* its body as given to the generator
    gen,        \* the function under construction
    values,     \* the value of every immutable condition during the call
    at,         \* the next instruction: [block, next]
    memory,     \* what the slots hold
    trace,      \* the effects so far
    out         \* how the call ended

vars == <<stage, func, code, gen, values, at, memory, trace, out>>

Init ==
    /\ stage = "written"
    /\ func \in Written
    /\ code = func.body
    /\ gen = NoBlocks
    /\ values = [a \in Atoms |-> FALSE]
    /\ at = [block |-> 1, next |-> 1]
    /\ memory = <<>>
    /\ trace = <<>>
    /\ out = <<"on">>

Check ==
    /\ stage = "written"
    /\ stage' = IF Accepts(func) THEN "checked" ELSE "rejected"
    /\ UNCHANGED <<func, code, gen, values, at, memory, trace, out>>

Transform ==
    /\ stage = "checked"
    /\ TRUE \in MayTransform
    /\ code' = BetaNormalize(code)
    /\ stage' = "ready"
    /\ UNCHANGED <<func, gen, values, at, memory, trace, out>>

SkipTransformations ==
    /\ stage = "checked"
    /\ FALSE \in MayTransform
    /\ stage' = "ready"
    /\ UNCHANGED <<func, code, gen, values, at, memory, trace, out>>

Generate ==
    /\ stage = "ready"
    /\ gen' = GenFuncBody([func EXCEPT !.body = code])
    /\ stage' = IF IsValid(gen', func.ty) THEN "built" ELSE "refused"
    /\ UNCHANGED <<func, code, values, at, memory, trace, out>>

Allows(given, vals) ==
    \A fact \in given : fact[1].c = "immutable" => vals[fact[1].of] = fact[2]

Invoke ==
    /\ stage = "built"
    /\ values' \in {vals \in [Atoms -> BOOLEAN] : Allows(func.given, vals)}
    /\ memory' = [s \in 1 .. gen.slots |-> Unit]
    /\ stage' = "running"
    /\ UNCHANGED <<func, code, gen, at, trace, out>>

(***************************************************************************)
(* LLVM's instructions                                                     *)
(***************************************************************************)
Here == gen.blocks[at.block][at.next]
Holds(operand) == IF "slot" \in DOMAIN operand THEN memory[operand.slot] ELSE operand.value
Goto(b) == [block |-> b, next |-> 1]
Following == [at EXCEPT !.next = @ + 1]

StepCall ==
    /\ Here.i = "call"
    /\ trace' = IF Here.mutable THEN Append(trace, Called(Here.f, Holds(Here.of))) ELSE trace
    /\ at' = Following
    /\ UNCHANGED <<stage, memory, out>>

StepStore ==
    /\ Here.i = "store"
    /\ memory' = [memory EXCEPT ![Here.to] = Holds(Here.of)]
    /\ at' = Following
    /\ UNCHANGED <<stage, trace, out>>

StepAsk ==
    /\ Here.i = "ask"
    /\ \E answer \in BOOLEAN : trace' = Append(trace, Asked(Here.cond, answer))
    /\ at' = Following
    /\ UNCHANGED <<stage, memory, out>>

StepBranch ==
    /\ Here.i = "br"
    /\ at' = Goto(Here.to)
    /\ UNCHANGED <<stage, memory, trace, out>>

Answers(cond) ==
    CASE cond.c = "constant" -> {cond.of}
      [] cond.c = "immutable" -> {values[cond.of]}
      [] OTHER -> BOOLEAN

StepCondBranch ==
    /\ Here.i = "condbr"
    /\ \E answer \in Answers(Here.cond) :
         /\ at' = Goto(IF answer THEN Here.then ELSE Here.else)
         /\ trace' = IF IsMutableCond(Here.cond) THEN Append(trace, Asked(Here.cond, answer)) ELSE trace
    /\ UNCHANGED <<stage, memory, out>>

StepRet ==
    /\ Here.i = "ret"
    /\ out' = Returned(Holds(Here.of))
    /\ stage' = "done"
    /\ UNCHANGED <<at, memory, trace>>

StepUnreachable ==
    /\ Here.i = "unreachable"
    /\ out' = <<"absurd">>
    /\ stage' = "done"
    /\ UNCHANGED <<at, memory, trace>>

Step ==
    /\ stage = "running"
    /\ StepCall \/ StepStore \/ StepAsk \/ StepBranch \/ StepCondBranch \/ StepRet \/ StepUnreachable
    /\ UNCHANGED <<func, code, gen, values>>

Next == Check \/ Transform \/ SkipTransformations \/ Generate \/ Invoke \/ Step

Spec == Init /\ [][Next]_vars

(***************************************************************************)
(* Shapes of bodies the properties speak of.                               *)
(***************************************************************************)
Exprs(stmt) == CASE stmt.s = "call" -> stmt.args [] stmt.s = "return" -> stmt.expr [] OTHER -> <<>>
Branches(stmt) == IF stmt.s = "if" THEN <<stmt.yes>> \o stmt.no ELSE <<>>

RECURSIVE MayReturn(_), ReturnsLast(_), EndsOpen(_), OneSided(_), Invocations(_), Questions(_)

MayReturn(body) ==
    LET Exits(stmt) == stmt.s = "return" \/ Some(MayReturn, Branches(stmt)) IN Some(Exits, body)

ReturnsLast(body) ==             \* nothing follows a return, and each has a value
    \A i \in DOMAIN body :
        /\ body[i].s = "return" => body[i].expr # <<>>
        /\ i < Len(body) => ~MayReturn(<<body[i]>>)
        /\ \A k \in DOMAIN Branches(body[i]) : ReturnsLast(Branches(body[i])[k])

EndsOpen(body) ==                \* some branch ends in a call
    LET Open(stmt) == Some(EndsOpen, Branches(stmt))
    IN  body # <<>> /\ (Last(body).s = "call" \/ Some(Open, body))

OneSided(body) ==                \* some `if` has an impossible branch
    LET Bad(branch) == IsImpossible(branch) \/ OneSided(branch)
        Split(stmt) == Some(Bad, Branches(stmt))
    IN  Some(Split, body)

Invocations(body) ==             \* the bodies of the lambdas invoked in a body
    UNION {    UNION {IF e.e = "invoked" THEN {e.body} \union Invocations(e.body) ELSE {}
                        : e \in Range(Exprs(body[i]))}
        \union UNION {Invocations(b) : b \in Range(Branches(body[i]))} : i \in DOMAIN body}

Questions(body) ==               \* how many mutable conditions a body evaluates
    FoldSeq(LAMBDA stmt, n :
                n + (IF stmt.s = "if" /\ IsMutableCond(stmt.cond) THEN 1 ELSE 0)
                  + FoldSeq(LAMBDA b, k : k + Questions(b), 0, Branches(stmt)),
            0, body)

Answered == LET asked == SelectSeq(trace, LAMBDA e : e[1] = "ask")
            IN  [i \in DOMAIN asked |-> asked[i][3]]

Worlds == {vals \in [Atoms -> BOOLEAN] : Allows(func.given, vals)}
AnswerSeqs == UNION {[1 .. n -> BOOLEAN] : n \in 0 .. MaxAnswers}

(***************************************************************************)
(* A statement the checker let stand as `impossible` is never reached, for *)
(* any values of the arguments the function's type allows: is_terminator   *)
(* and the generator's `unreachable` rest on it.  Stated for functions     *)
(* that evaluate at most one mutable condition.                            *)
(***************************************************************************)
ImpossibleIsUnreachable ==
    stage = "checked" /\ Questions(func.body) <= 1 =>
        \A vals \in Worlds, answers \in AnswerSeqs :
            Meaning(func.body, vals, answers).out # <<"absurd">>

(***************************************************************************)
(* Normalising a body never changes what a call does: the same effects in  *)
(* the same order, the same questions asked, the same value returned.      *)
(***************************************************************************)
NormalBodyMeansTheSame ==
    stage = "ready" =>
        \A vals \in Worlds, answers \in AnswerSeqs :
            LET before == Meaning(func.body, vals, answers)
            IN  before.out = <<"absurd">> \/ Meaning(code, vals, answers) = before

(***************************************************************************)
(* A finished call of the compiled function had the effects and the result *)
(* the source has, given the answers the world gave.  The first form is    *)
(* for bodies whose inlined lambdas return a value and only at their end.  *)
(***************************************************************************)
RunsLikeSource ==
    stage = "done" =>
        LET run == Meaning(func.body, values, Answered)
        IN  run.out = <<"absurd">> \/ (run.trace = trace /\ run.out = out)

PlainCallsRunLikeSource ==
    (\A body \in Invocations(code) : ReturnsLast(body)) => RunsLikeSource

(***************************************************************************)
(* LLVM refuses a function only for one of five reasons: a branch that     *)
(* ends in a call, an `if` with an impossible branch left in it, a return  *)
(* without a value in an inlined lambda, a statement after the last one    *)
(* that runs (when nothing was transformed), or a normalisation that lost  *)
(* a return.                                                               *)
(***************************************************************************)
RefusedForAReason ==
    stage = "refused" =>
        \/ func.ty # Unit /\ ~ReturnsFromAllBranches(code)
        \/ \E body \in {code} \union Invocations(code) :
            \/ EndsOpen(body)
            \/ OneSided(body)
            \/ DropUnreachable(body) # body
            \/ body # code /\ ~ReturnsLast(body)

====
