---- MODULE Ownership ----
(***************************************************************************)
(* A generated function runs, from a call to its return.  Its code is what *)
(* GenFunc makes of a function of the source language; the functions that  *)
(* it calls keep the promise this module is about: they read their         *)
(* arguments, hand over a result whose boxes are all new, and keep none.   *)
(***************************************************************************)
EXTENDS GenValue, Memory

CONSTANTS
    Signature,            \* [function |-> [args: <<Field>>, ret: type]]
    Behaviour(_, _),      \* the value a function returns, for the leaves of each argument
    Functions,            \* functions to generate: [args, ret, body]
    Inputs(_)             \* the arguments a function is run on: [name |-> value]

VARIABLES
    source,     \* the function being run
    given,      \* the value of each of its arguments
    operands,   \* the operand that each argument, and the result, came as
    todo,       \* the instructions left
    entry,      \* the memory at the call, which is the caller's
    mem, regs,
    phase       \* "running", "returned", "fault", or "refused" by the generator

vars == <<source, given, operands, todo, entry, mem, regs, phase>>

-----------------------------------------------------------------------------
(* What the source says. *)
RECURSIVE Eval(_, _), Run(_, _)

Eval(expr, env) ==
    LET Argument(i) == Flatten(expr.args[i].ty, Eval(expr.args[i], env))
    IN  CASE expr.e = "num" -> Word(expr.n)
          [] expr.e = "var" -> env[expr.x]
          [] expr.e = "call" -> Behaviour(expr.f, [i \in DOMAIN expr.args |-> Argument(i)])
          [] expr.e = "list" -> [i \in DOMAIN expr.values |-> Eval(expr.values[i], env)]
          [] expr.e = "at" -> Eval(expr.of, env)[Eval(expr.index, env).int + 1]
          [] OTHER -> Eval(expr.of, env)

Run(stmts, env) ==
    LET stmt == Head(stmts)
        chosen == IF Eval(stmt.cond, env) = Word(0) THEN stmt.no ELSE stmt.yes
    IN  CASE stmt.s = "return" -> Eval(stmt.expr, env)
          [] stmt.s = "if" -> Run(chosen \o Tail(stmts), env)
          [] stmt.s = "call" -> Run(Tail(stmts), env)

-----------------------------------------------------------------------------
(* The call: the caller keeps the arguments, and has room for the result. *)
Passed(f, values) ==
    LET PassNext(acc, arg) == LET one == Pass(acc.mem, arg.ty, values[arg.var])
                              IN  [mem |-> one.mem, cells |-> (arg.var :> one.cell) @@ acc.cells]
    IN  FoldLeft(PassNext, [mem |-> <<>>, cells |-> NoVars], f.args)

Entry(f, values) ==
    LET passed == Passed(f, values)
        size == IF IsArray(f.ret) THEN Length(f.ret, values) * Width(Element(f.ret)) ELSE Width(f.ret)
    IN  [mem |-> NewObject(passed.mem, FALSE, size),
         cells |-> ("result" :> Pointer(Len(passed.mem) + 1, 1)) @@ passed.cells]

Init ==
    /\ source \in Functions
    /\ given \in Inputs(source)
    /\ \E g \in {GenFunc(source)} :
          /\ todo = MoveAllocas(g.code)
          /\ phase = IF g.asserts \/ g.invalid THEN "refused" ELSE "running"
    /\ \E called \in {Entry(source, given)} :
          operands = called.cells /\ entry = called.mem /\ mem = called.mem
    /\ regs = NoVars

-----------------------------------------------------------------------------
(* One instruction at a time. *)
Now == Head(todo)

ValueOf(operand) ==
    CASE operand.k = "const" -> Word(operand.n)
      [] operand.k = "arg" -> operands[operand.x]
      [] operand.k = "reg" -> IF operand.r \in DOMAIN regs THEN regs[operand.r] ELSE Undefined

Amount(count) == ValueOf(count).int * Now.width

\* What a callee sees of its arguments.
Names(sig) ==
    [x \in {sig.args[i].var : i \in DOMAIN sig.args} |->
        ValueOf(Now.args[CHOOSE i \in DOMAIN sig.args : sig.args[i].var = x])]

Seen(sig) ==
    [i \in DOMAIN Now.args |-> ViewOperand(mem, ValueOf(Now.args[i]), sig.args[i].ty, Names(sig)).leaves]

Returned(f) == Behaviour(f, Seen(Signature[f]))

CellsOf(ty, v) == Len(Elements(ty, v)) * Width(Element(ty))

\* What must be true for LLVM to define what the instruction does.
IsDefined ==
    CASE Now.i = "alloca" -> IsInt(ValueOf(Now.count))
      [] Now.i = "load" -> HasRoom(mem, ValueOf(Now.from), 1)
      [] Now.i = "store" -> HasRoom(mem, ValueOf(Now.at), 1)
      [] Now.i = "gep" -> IsPointer(ValueOf(Now.base)) /\ IsInt(ValueOf(Now.index))
      [] Now.i = "mul" -> IsInt(ValueOf(Now.a)) /\ IsInt(ValueOf(Now.b))
      [] Now.i = "copy" ->
           /\ IsInt(ValueOf(Now.count))
           /\ HasRoom(mem, ValueOf(Now.from), Amount(Now.count))
           /\ HasRoom(mem, ValueOf(Now.at), Amount(Now.count))
      [] Now.i = "call" ->
           LET sig == Signature[Now.f]
           IN  /\ \A i \in DOMAIN Now.args : Undefined \notin ToSet(Seen(sig)[i])
               /\ IsPassByPtr(sig.ret) =>
                     HasRoom(mem, ValueOf(Now.sret), CellsOf(sig.ret, Returned(Now.f)))
      [] Now.i = "free" ->
           LET at == ValueOf(Now.at) IN HasRoom(mem, at, 0) /\ mem[at.obj].heap /\ at.off = 1
      [] Now.i = "if" -> IsInt(ValueOf(Now.cond))
      [] Now.i = "loop" -> IsInt(ValueOf(Now.count))
      [] OTHER -> TRUE

Executing(i) == phase = "running" /\ todo # <<>> /\ Now.i = i /\ IsDefined
Set(r, cell) == regs' = (r :> cell) @@ regs
Step == todo' = Tail(todo) /\ UNCHANGED <<source, given, operands, entry, phase>>
Goto(code) == /\ todo' = code \o Tail(todo)
              /\ UNCHANGED <<source, given, operands, entry, mem, phase>>

Allocates ==
    /\ Executing("alloca")
    /\ mem' = NewObject(mem, Now.heap, Amount(Now.count))
    /\ Set(Now.to, Pointer(Len(mem) + 1, 1))
    /\ Step

Loads ==
    /\ Executing("load")
    /\ Set(Now.to, Read(mem, ValueOf(Now.from)))
    /\ Step /\ UNCHANGED mem

Stores ==
    /\ Executing("store")
    /\ mem' = Write(mem, ValueOf(Now.at), ValueOf(Now.of))
    /\ Step /\ UNCHANGED regs

Offsets ==
    /\ Executing("gep")
    /\ Set(Now.to, Shift(ValueOf(Now.base), Amount(Now.index)))
    /\ Step /\ UNCHANGED mem

Multiplies ==
    /\ Executing("mul")
    /\ Set(Now.to, Word(ValueOf(Now.a).int * ValueOf(Now.b).int))
    /\ Step /\ UNCHANGED mem

Copies ==
    /\ Executing("copy")
    /\ LET CopyCell(m, n) == Write(m, Shift(ValueOf(Now.at), n - 1),
                                      Read(mem, Shift(ValueOf(Now.from), n - 1)))
       IN  mem' = FoldLeft(CopyCell, mem, [n \in 1 .. Amount(Now.count) |-> n])
    /\ Step /\ UNCHANGED regs

Calls ==
    /\ Executing("call")
    /\ LET ret == Signature[Now.f].ret
           result == Returned(Now.f)
       IN  IF IsPassByPtr(ret)
           THEN /\ mem' = IF IsArray(ret) THEN PutElements(mem, ValueOf(Now.sret), ret, result)
                                          ELSE Put(mem, ValueOf(Now.sret), ret, result)
                /\ UNCHANGED regs
           ELSE Set(Now.to, result) /\ UNCHANGED mem
    /\ Step

Frees ==
    /\ Executing("free")
    /\ mem' = [mem EXCEPT ![ValueOf(Now.at).obj].live = FALSE]
    /\ Step /\ UNCHANGED regs

Invokes == Executing("invoke") /\ Goto(Now.body) /\ UNCHANGED regs

Branches ==
    /\ Executing("if")
    /\ Goto(IF ValueOf(Now.cond) = Word(0) THEN Now.else ELSE Now.then)
    /\ UNCHANGED regs

Iteration(count) == IF Now.down THEN count - 1 - Now.turn ELSE Now.turn

Loops ==
    /\ Executing("loop")
    /\ LET count == ValueOf(Now.count).int
       IN  IF Now.turn < count
           THEN Goto(Now.body \o <<[Now EXCEPT !.turn = @ + 1]>>) /\ Set(Now.index, Word(Iteration(count)))
           ELSE Goto(<<>>) /\ UNCHANGED regs

Mine == Len(entry) + 1 .. Len(mem)

\* The stack of the function is gone when it returns.
Returns ==
    /\ Executing("ret")
    /\ mem' = [o \in DOMAIN mem |->
                  IF o \in Mine /\ ~mem[o].heap THEN [mem[o] EXCEPT !.live = FALSE] ELSE mem[o]]
    /\ operands' = IF IsPassByPtr(source.ret) THEN operands
                   ELSE ("result" :> ValueOf(Now.of)) @@ operands
    /\ todo' = <<>>
    /\ phase' = "returned"
    /\ UNCHANGED <<source, given, entry, regs>>

Machine == \/ Allocates \/ Loads \/ Stores \/ Offsets \/ Multiplies \/ Copies
           \/ Calls \/ Frees \/ Invokes \/ Branches \/ Loops \/ Returns

\* What no instruction defines: anything may happen next.
Fault ==
    /\ phase = "running" /\ (todo = <<>> \/ ~IsDefined)
    /\ phase' = "fault"
    /\ UNCHANGED <<source, given, operands, todo, entry, mem, regs>>

Ended == phase # "running" /\ UNCHANGED vars

Next == Machine \/ Fault \/ Ended

Spec == Init /\ [][Next]_vars

-----------------------------------------------------------------------------
(* Sources that the generator is known to get wrong, or to refuse. *)
RECURSIVE Parts(_)
Parts(expr) ==                             \* the sizes of its type included
    {expr} \union
    UNION {Parts(x) : x \in ToSet(Dimensions(expr.ty)) \union
        CASE expr.e \in {"num", "var"} -> {}
          [] expr.e = "call" -> ToSet(expr.args)
          [] expr.e = "list" -> ToSet(expr.values)
          [] expr.e = "at" -> {expr.of, expr.index}
          [] OTHER -> {expr.of}}

RECURSIVE PartsOf(_)
PartsOf(stmts) ==
    UNION {CASE stmt.s = "call" -> Parts(stmt.call)
             [] stmt.s = "return" -> Parts(stmt.expr)
             [] stmt.s = "if" -> Parts(stmt.cond) \union PartsOf(stmt.yes) \union PartsOf(stmt.no)
           : stmt \in ToSet(stmts)}

\* The variables whose address is saved: for the others it is the value.
Saved(parts) ==
    {place.x : place \in {part.of : part \in {p \in parts :
        p.e = "addressof" /\ p.of.e = "var" /\ p.of.ty.t # "tuple"}}}

\* An address first taken in a branch is not taken again outside of it.
RECURSIVE AddressesHold(_, _)
AddressesHold(stmts, saved) ==
    IF stmts = <<>> THEN TRUE
    ELSE LET stmt == Head(stmts)
             now == saved \union Saved(IF stmt.s = "if" THEN Parts(stmt.cond) ELSE PartsOf(<<stmt>>))
             yes == Saved(PartsOf(stmt.yes)) \ now
             no == Saved(PartsOf(stmt.no)) \ now
         IN  /\ AddressesHold(Tail(stmts), now)
             /\ stmt.s = "if" =>
                   /\ AddressesHold(stmt.yes, now) /\ AddressesHold(stmt.no, now)
                   /\ yes \intersect no = {}
                   /\ (yes \union no) \intersect Saved(PartsOf(Tail(stmts))) = {}

\* A lambda invoked in place has nothing to destruct.
LosesNothing(part) ==
    part.e = "inlined" =>
        \A inner \in Parts(part.of) : inner.e = "call" => IsTrivial(inner.ty)

\* A field that the type of a later one names is not built where it will be.
SizesAreValues(part) ==
    part.e = "list" /\ part.ty.t = "tuple" =>
        \A i, j \in DOMAIN part.values :
            /\ i < j
            /\ part.ty.fields[j].ty # Substituted(part.ty.fields[j].ty, part.ty.fields[i].var, Num(0))
            => part.values[i].e \notin {"call", "inlined"}

\* No value of a list names a variable with the name of an earlier field.
NamesApart(part) ==
    part.e = "list" /\ part.ty.t = "tuple" =>
        \A i, j \in DOMAIN part.values :
            i < j => Var(part.ty.fields[i].var, Int32) \notin Parts(part.values[j])

\* Copying it takes a loop in a loop.
RECURSIVE LoopsToCopy(_)
LoopsToCopy(ty) ==
    CASE IsArray(ty) /\ ~IsTrivial(ty) -> 1 + LoopsToCopy(Element(ty))
      [] ty.t = "tuple" -> Max({0} \union {LoopsToCopy(ty.fields[i].ty) : i \in DOMAIN ty.fields})
      [] OTHER -> 0

CopiesInOneLoop(part) == LoopsToCopy(part.ty) > 1 => part.e \in {"call", "list", "inlined"}

Regular(f) ==
    /\ AddressesHold(f.body, {})
    /\ \A part \in PartsOf(f.body) :
          LosesNothing(part) /\ SizesAreValues(part) /\ NamesApart(part) /\ CopiesInOneLoop(part)

-----------------------------------------------------------------------------
Result == ViewOperand(mem, operands["result"], source.ret, given)

(***************************************************************************)
(* The generator refuses no function, a call never reads, writes or frees  *)
(* what is not there, and the caller finds the value the source means      *)
(* (gen_val.cpp, gen_store, gen_body.cpp).                                 *)
(***************************************************************************)
ExecutesLikeSource ==
    /\ phase \in {"refused", "fault"} => ~Regular(source)
    /\ phase = "returned" /\ Regular(source) =>
          Result.leaves = Flatten(source.ret, Run(source.body, given))

(***************************************************************************)
(* After the return, the boxes the function has allocated are those of the *)
(* result, each owned once: the temporaries' were freed, and whatever the  *)
(* caller passed is as it was (gen_destructors, select_allocator).         *)
(***************************************************************************)
OwnsWhatItReturns ==
    phase = "returned" /\ Regular(source) =>
        LET boxes == Result.boxes
        IN  /\ IsInjective(boxes)
            /\ \A n \in DOMAIN boxes : IsPointer(boxes[n]) /\ boxes[n].off = 1
            /\ {o \in Mine : mem[o].live} = {boxes[n].obj : n \in DOMAIN boxes}
            /\ \A o \in DOMAIN entry : mem[o] = entry[o] \/ o = Len(entry)

====
