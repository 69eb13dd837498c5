---- MODULE GenValue ----
(***************************************************************************)
(* The code generated for the values of a function: gen_val.cpp, the       *)
(* allocations, loops and destructors it needs, and the return statement   *)
(* that hands the result over.  GenBody tells how blocks are connected;    *)
(* here code is structured: a loop, a branch or an invoked destructor is   *)
(* one instruction that holds the code inside it.                          *)
(*                                                                         *)
(* A function under construction: the code so far, the next register, the  *)
(* local context (vars, and the addresses saved in it, which extensions    *)
(* share), the values to destruct at the end of the statement, the operand *)
(* of the value generated last; `asserts` once an assertion of the         *)
(* generator or of LLVM fails, `invalid` once LLVM's verifier would refuse *)
(* the code.                                                               *)
(***************************************************************************)
EXTENDS Layout, TLC

Const(n) == [k |-> "const", n |-> n]
Arg(x, points) == [k |-> "arg", x |-> x, points |-> points]
Reg(r, points) == [k |-> "reg", r |-> r, points |-> points]
None == [k |-> "none"]
IsConst(operand) == operand.k = "const"

NoVars == [x \in {} |-> None]

Give(g, operand) == [g EXCEPT !.val = operand]
Emit(g, instr) == [g EXCEPT !.code = Append(@, instr)]
Into(g, instr) == [i |-> instr, to |-> g.next]
Define(g, instr, rest) ==
    LET emitted == Emit(g, rest @@ Into(g, instr))
    IN  [emitted EXCEPT !.next = @ + 1, !.val = Reg(g.next, instr \in {"alloca", "gep"})]

Load(g, from) == Define(g, "load", [from |-> from])
Store(g, operand, at) == Emit(g, [i |-> "store", of |-> operand, at |-> at])
Gep(g, base, width, index) ==
    Define(g, "gep", [base |-> base, width |-> width, index |-> index])
FieldAddress(g, base, ty, i) == Gep(g, base, 1, Const(FieldOffset(ty, i)))

Mul(g, a, b) ==                        \* the builder folds constants
    IF IsConst(a) /\ IsConst(b) THEN Give(g, Const(a.n * b.n))
    ELSE Define(g, "mul", [a |-> a, b |-> b])

\* A name that is bound again is another entry, until its context is left.
Bind(g, x, operand) ==
    [g EXCEPT !.vars = (x :> operand) @@ @, !.addresses = Restrict(@, DOMAIN @ \ {x})]

Leave(g, extended) ==
    LET mine == {x \in DOMAIN g.vars : extended.vars[x] = g.vars[x]}
        seen == Restrict(extended.addresses, mine \intersect DOMAIN extended.addresses)
    IN  [extended EXCEPT !.vars = g.vars, !.addresses = seen @@ g.addresses]

(***************************************************************************)
(* gen_for_loop_upward and gen_for_loop_downward.  The body of a loop must *)
(* stay in its block: `loop` is the predecessor that the induction         *)
(* variable names, whatever block the builder is in after the body.        *)
(***************************************************************************)
EnterLoop(g) == [g EXCEPT !.code = <<>>, !.next = @ + 1]
LoopIndex(g) == Reg(g.next, FALSE)

Loop(g, body, down, count) ==
    LET moved == \E n \in DOMAIN body.code : body.code[n].i = "loop"
    IN  [body EXCEPT !.invalid = @ \/ moved,
                     !.code = Append(g.code, [i |-> "loop", index |-> g.next, down |-> down, turn |-> 0,
                                              count |-> count, body |-> body.code])]

\* `once` is the body for index 0, where it needs no loop.
LoopUpward(g, once, body, count) ==
    CASE IsConst(count) /\ count.n = 0 -> g
      [] IsConst(count) /\ count.n = 1 -> once
      [] OTHER -> Loop(g, body, FALSE, count)

(***************************************************************************)
(* A value needs room, room is counted in elements, how many there are is  *)
(* a value, and each is copied and destructed: what is generated for one   *)
(* of these asks for the others through Gen.                               *)
(***************************************************************************)
RECURSIVE Gen(_, _)

GenVal(g, expr, category, dest) ==
    Gen(g, [gen |-> "value", expr |-> expr, category |-> category, dest |-> dest])
GenTemporary(g, expr) == GenVal(g, expr, "temporary", None)
GenTotalSize(g, ty) == Gen(g, [gen |-> "size", of |-> Dimensions(ty)])
GenStride(g, ty) == Gen(g, [gen |-> "size", of |-> Tail(Dimensions(ty))])
GenStore(g, category, value, dest, ty) ==
    Gen(g, [gen |-> "store", category |-> category, value |-> value, dest |-> dest, ty |-> ty])
GenStmts(g, stmts, sret) == Gen(g, [gen |-> "statements", of |-> stmts, sret |-> sret])
GenDestructorCall(g, value, ty) == Gen(g, [gen |-> "destructor call", value |-> value, ty |-> ty])

(***************************************************************************)
(* gen_array_total_size and gen_stride_size_if_needed                      *)
(***************************************************************************)
GenSize(g, size) ==                     \* LLVM asserts that it is an integer
    LET sized == GenTemporary(g, size)
    IN  [sized EXCEPT !.asserts = @ \/ (~IsConst(sized.val) /\ sized.val.points)]

GenProduct(g, sizes) ==
    LET Times(acc, size) == LET n == GenSize(acc, size) IN Mul(n, acc.val, n.val)
    IN  FoldLeft(Times, GenSize(g, Head(sizes)), Tail(sizes))

(***************************************************************************)
(* gen_alloca and select_allocator.  An array has room for its elements,   *)
(* anything else is one element of its own type.                           *)
(***************************************************************************)
Allocate(g, heap, width, count) ==
    Define(g, "alloca", [heap |-> heap, width |-> width, count |-> count])

GenAlloca(g, category, ty) ==
    LET sized == IF IsArray(ty) THEN GenTotalSize(g, ty) ELSE Give(g, Const(1))
    IN  Allocate(sized, category = "result", Width(Element(ty)), sized.val)

\* The stack slot that holds the value or the box that an operand is.
Spill(g, operand) ==
    LET slot == Allocate(g, FALSE, 1, Const(1))
    IN  Store(slot, operand, slot.val)

(***************************************************************************)
(* gen_store: the value is copied, with every box it owns.                 *)
(***************************************************************************)
CopyCells(g, value, dest, width, count) ==
    Emit(g, [i |-> "copy", from |-> value, at |-> dest, width |-> width, count |-> count])

\* Mutant: the copy of a tuple shares the boxes of the original.
GenStoreField_shared(g, category, value, dest, ty, i) ==
    LET from == FieldAddress(g, value, ty, i)
        to == FieldAddress(from, dest, ty, i)
        old == Load(to, from.val)
    IN  Bind(Store(old, old.val, to.val), ty.fields[i].var, old.val)

GenStoreField(g, category, value, dest, ty, i) ==
    LET field == ty.fields[i].ty
        from == FieldAddress(g, value, ty, i)
        to == FieldAddress(from, dest, ty, i)
        box == GenAlloca(to, category, field)
        old == Load(Store(box, box.val, to.val), from.val)
        plain == Load(to, from.val)
    IN  CASE IsBoxed(field) ->
               Bind(GenStore(old, category, old.val, box.val, field), ty.fields[i].var, box.val)
          [] IsPassByPtr(field) /\ ~IsBoxed(field) ->
               Bind(GenStore(to, category, from.val, to.val, field), ty.fields[i].var, to.val)
          [] OTHER -> Bind(Store(plain, plain.val, to.val), ty.fields[i].var, plain.val)

GenStoreElement(g, category, value, dest, element, i) ==
    LET from == Gep(g, value, Width(element), i)
        to == Gep(from, dest, Width(element), i)
    IN  GenStore(to, category, from.val, to.val, element)

GenStoreArray(g, category, value, dest, ty) ==
    LET size == GenTotalSize(g, ty)
        Copy(h, i) == GenStoreElement(h, category, value, dest, Element(ty), i)
    IN  IF IsTrivial(ty) THEN CopyCells(size, value, dest, Width(Element(ty)), size.val)
        ELSE LoopUpward(size, Copy(size, Const(0)), Copy(EnterLoop(size), LoopIndex(size)), size.val)

GenStoreTuple(g, category, value, dest, ty) ==
    LET Copy(h, i) == GenStoreField(h, category, value, dest, ty, i)
    IN  IF IsTrivial(ty) THEN CopyCells(g, value, dest, Width(ty), Const(1))
        ELSE Leave(g, FoldLeftDomain(Copy, g, ty.fields))

GenCopy(g, category, value, dest, ty) ==
    CASE ty.t = "array" -> GenStoreArray(g, category, value, dest, ty)
      [] ty.t = "tuple" -> GenStoreTuple(g, category, value, dest, ty)
      [] OTHER -> Store(g, value, dest)

(***************************************************************************)
(* gen_val, one operator per form of expression.                           *)
(***************************************************************************)
MaybeStore(g, category, dest, ty) ==
    IF dest = None THEN g ELSE Give(GenStore(g, category, g.val, dest, ty), g.val)

Unknown(g) == [Give(g, Const(0)) EXCEPT !.asserts = TRUE]

GenVar(g, var) ==
    IF var.x \in DOMAIN g.vars THEN Give(g, g.vars[var.x]) ELSE Unknown(g)

(***************************************************************************)
(* gen_func_call.  A value that owns boxes and is used as a temporary is   *)
(* destructed when its statement ends; a result is the caller's.           *)
(***************************************************************************)
GenArgs(g, args) ==
    LET Next_(acc, arg) == LET given == GenTemporary(acc[1], arg)
                           IN  <<given, Append(acc[2], given.val)>>
    IN  FoldLeft(Next_, <<g, <<>>>>, args)

GenCall(g, call, dest) ==
    LET args == GenArgs(g, call.args)
        rest == [f |-> call.f, args |-> args[2], sret |-> dest]
    IN  IF dest # None THEN Give(Emit(args[1], rest @@ [i |-> "call", to |-> 0]), dest)
        ELSE Define(args[1], "call", rest)

GenFuncCall(g, call, category, dest) ==
    LET byPtr == IsPassByPtr(call.ty)
        room == IF byPtr /\ dest = None THEN GenAlloca(g, category, call.ty) ELSE Give(g, dest)
        called == GenCall(room, call, IF byPtr THEN room.val ELSE None)
        result == IF ~byPtr /\ dest # None THEN Give(Store(called, called.val, dest), dest) ELSE called
    IN  IF category = "temporary" /\ ~IsTrivial(call.ty)
        THEN [result EXCEPT !.dtors = Append(@, [of |-> result.val, ty |-> call.ty])]
        ELSE result

(***************************************************************************)
(* A lambda invoked in place, whose body returns one expression: its       *)
(* context dies with the values it had to destruct, which is asserted      *)
(* against (context.hpp).                                                  *)
(***************************************************************************)
GenInlined(g, result, category, dest) ==
    LET room == CASE dest # None -> Give(g, dest)
                  [] dest = None /\ IsPassByPtr(result.ty) -> GenAlloca(g, category, result.ty)
                  [] OTHER -> Allocate(g, FALSE, 1, Const(1))
        body == GenVal([room EXCEPT !.dtors = <<>>], result, category, room.val)
        back == [body EXCEPT !.dtors = room.dtors, !.asserts = @ \/ body.dtors # <<>>]
    IN  IF dest = None /\ ~IsPassByPtr(result.ty) THEN Load(back, room.val) ELSE Give(back, room.val)

(***************************************************************************)
(* Initializer lists.  An earlier field may be named by the type of a      *)
(* later one, so each is bound in a context of the list's own.             *)
(***************************************************************************)
GenListField(g, category, value, dest, ty, i) ==
    LET field == ty.fields[i]
        ptr == FieldAddress(g, dest, ty, i)
        box == GenAlloca(ptr, category, field.ty)
        boxed == GenVal(box, value, category, box.val)
        plain == GenVal(ptr, value, category, ptr.val)
    IN  IF IsBoxed(field.ty) THEN Bind(Store(boxed, box.val, ptr.val), field.var, box.val)
        ELSE Bind(plain, field.var, plain.val)

GenListElement(g, category, value, dest, ty, stride, i) ==
    LET offset == IF stride = None THEN Give(g, Const(i - 1)) ELSE Mul(g, stride, Const(i - 1))
        ptr == Gep(offset, dest, Width(Element(ty)), offset.val)
    IN  GenVal(ptr, value, category, ptr.val)

GenList(g, list, category, dest) ==
    LET room == IF dest = None THEN GenAlloca(g, category, list.ty) ELSE Give(g, dest)
        strided == IF IsArray(list.ty) /\ IsArray(list.ty.of) THEN GenStride(room, list.ty)
                   ELSE Give(room, None)
        Init_(h, i) ==
            IF IsArray(list.ty)
            THEN GenListElement(h, category, list.values[i], room.val, list.ty, strided.val, i)
            ELSE GenListField(h, category, list.values[i], room.val, list.ty, i)
    IN  Give(Leave(g, FoldLeftDomain(Init_, strided, list.values)), room.val)

(***************************************************************************)
(* gen_tuple_element_address, gen_field_address, gen_array_element_address *)
(***************************************************************************)
ElementAddress(g, at) ==
    LET ty == at.of.ty
        strided == IF IsArray(ty) /\ IsArray(ty.of) THEN GenStride(g, ty) ELSE Give(g, None)
        base == GenTemporary(strided, at.of)
        index == GenTemporary(base, at.index)
        offset == IF strided.val = None THEN index ELSE Mul(index, strided.val, index.val)
    IN  IF IsArray(ty) THEN Gep(offset, base.val, Width(Element(ty)), offset.val)
        ELSE FieldAddress(base, base.val, ty, at.index.n + 1)

GenAt(g, at) ==
    LET address == ElementAddress(g, at)
        isBox == IsBoxed(at.ty) /\ ~IsArray(at.of.ty)
    IN  IF isBox \/ ~IsPassByPtr(at.ty) THEN Load(address, address.val) ELSE address

GenDeref(g, deref) ==
    LET base == GenTemporary(g, deref.of)
    IN  IF IsBoxed(deref.ty) \/ ~IsPassByPtr(deref.ty) THEN Load(base, base.val) ELSE base

(***************************************************************************)
(* addressof: the address of a variable is saved in its entry, for every   *)
(* context that sees the entry, from wherever it is first taken.           *)
(***************************************************************************)
AddressOfValue(g, value) ==
    LET built == GenTemporary(g, value)
    IN  IF IsBoxed(value.ty) \/ ~IsPassByPtr(value.ty) THEN Spill(built, built.val) ELSE built

AddressOfVar(g, var) ==
    IF var.x \in DOMAIN g.addresses THEN Give(g, g.addresses[var.x])
    ELSE LET taken == AddressOfValue(g, var)
         IN  [taken EXCEPT !.addresses = (var.x :> taken.val) @@ @]

GenAddressOf(g, place) ==
    CASE place.e = "var" -> AddressOfVar(g, place)
      [] place.e = "at" -> ElementAddress(g, place)
      [] OTHER -> AddressOfValue(g, place)

GenExpr(g, expr, category, dest) ==
    LET Stored(h) == MaybeStore(h, category, dest, expr.ty)
    IN  CASE expr.e = "num" -> Stored(Give(g, Const(expr.n)))
          [] expr.e = "var" -> Stored(GenVar(g, expr))
          [] expr.e = "call" -> GenFuncCall(g, expr, category, dest)
          [] expr.e = "inlined" -> GenInlined(g, expr.of, category, dest)
          [] expr.e = "list" -> GenList(g, expr, category, dest)
          [] expr.e = "at" -> Stored(GenAt(g, expr))
          [] expr.e = "deref" -> Stored(GenDeref(g, expr))
          [] expr.e = "addressof" ->
               IF expr.of.e = "deref" THEN GenVal(g, expr.of.of, category, dest)
               ELSE Stored(GenAddressOf(g, expr.of))

(***************************************************************************)
(* gen_destructor: a function of its own, which knows none of the local    *)
(* variables.  Here it is the code that an invocation executes.            *)
(***************************************************************************)
SiblingsOf(g, value, ty) ==
    LET Sibling(h, i) ==
            LET field == ty.fields[i]
                ptr == FieldAddress(h, value, ty, i)
                known == IF IsBoxed(field.ty) \/ ~IsPassByPtr(field.ty) THEN Load(ptr, ptr.val) ELSE ptr
            IN  Bind(known, field.var, known.val)
    IN  FoldLeftDomain(Sibling, g, ty.fields)

DestructField(g, value, ty, i) ==
    LET field == ty.fields[i].ty
        ptr == FieldAddress(g, value, ty, i)
        box == Load(ptr, ptr.val)
        emptied == IF IsTrivial(field) THEN box ELSE GenDestructorCall(box, box.val, field)
    IN  CASE IsBoxed(field) -> Emit(emptied, [i |-> "free", at |-> box.val])
          [] ~IsBoxed(field) /\ ~IsTrivial(field) -> GenDestructorCall(ptr, ptr.val, field)
          [] OTHER -> g

GenDestructor(g, value, count, ty) ==
    LET Destruct(h, i) == LET ptr == Gep(h, value, Width(Element(ty)), i)
                          IN  GenDestructorCall(ptr, ptr.val, Element(ty))
        Backwards(h, i) == DestructField(h, value, ty, Len(ty.fields) + 1 - i)
    IN  IF IsArray(ty) THEN Loop(g, Destruct(EnterLoop(g), LoopIndex(g)), TRUE, count)
        ELSE FoldLeftDomain(Backwards, SiblingsOf(g, value, ty), ty.fields)

GenInvoke(g, value, ty) ==
    LET sized == IF IsArray(ty) THEN GenTotalSize(g, ty) ELSE Give(g, None)
        callee == GenDestructor([sized EXCEPT !.code = <<>>, !.vars = NoVars, !.addresses = NoVars],
                                value, sized.val, ty)
    IN  [callee EXCEPT !.vars = g.vars, !.addresses = sized.addresses,
                       !.code = Append(sized.code, [i |-> "invoke", body |-> callee.code])]

GenDestructors(g) ==
    LET Destruct(h, dtor) == GenDestructorCall(h, dtor.of, dtor.ty)
    IN  FoldLeft(Destruct, [g EXCEPT !.dtors = <<>>], Reverse(g.dtors))

(***************************************************************************)
(* gen_stmt.  The statement's context is gone after it, but not the        *)
(* addresses saved in it.  `sret` is where the caller wants the result, or *)
(* None if it is returned by value.                                        *)
(***************************************************************************)
\* Mutant: the result is built like any temporary.
GenReturn_temporary(g, expr, sret) ==
    LET result == GenVal(g, expr, "temporary", sret)
    IN  Emit(GenDestructors(result), [i |-> "ret", of |-> result.val])

GenReturn(g, expr, sret) ==
    LET result == GenVal(g, expr, "result", sret)
    IN  Emit(GenDestructors(result), [i |-> "ret", of |-> result.val])

GenIf(g, stmt, sret) ==
    LET cond == GenTemporary(g, stmt.cond)
        asked == GenDestructors(cond)
        then == GenStmts([asked EXCEPT !.code = <<>>], stmt.yes, sret)
        else == GenStmts([then EXCEPT !.code = <<>>], stmt.no, sret)
    IN  [else EXCEPT !.code = Append(asked.code, [i |-> "if", cond |-> cond.val,
                                                  then |-> then.code, else |-> else.code])]

GenStmt(g, stmt, sret) ==
    CASE stmt.s = "call" -> GenDestructors(GenFuncCall(g, stmt.call, "temporary", None))
      [] stmt.s = "if" -> GenIf(g, stmt, sret)
      [] stmt.s = "return" -> GenReturn(g, stmt.expr, sret)

GenEach(g, stmts, sret) ==
    LET Stmt(h, stmt) == GenStmt(h, stmt, sret)
    IN  FoldLeft(Stmt, g, stmts)

Gen(g, what) ==
    CASE g.asserts -> g                 \* the program has ended
      [] what.gen = "value" -> GenExpr(g, what.expr, what.category, what.dest)
      [] what.gen = "size" -> GenProduct(g, what.of)
      [] what.gen = "store" -> GenCopy(g, what.category, what.value, what.dest, what.ty)
      [] what.gen = "destructor call" -> GenInvoke(g, what.value, what.ty)
      [] what.gen = "statements" -> GenEach(g, what.of, what.sret)

(***************************************************************************)
(* move_allocas_to_entry_block: those whose size is known on entry, from   *)
(* wherever they are, loops included.                                      *)
(***************************************************************************)
IsMovable(instr) == instr.i = "alloca" /\ ~instr.heap /\ instr.count.k \in {"const", "arg"}

RECURSIVE Movable(_), WithoutMovable(_)
Movable(code) ==
    LET HasBlocks(instr) == instr.i \in {"loop", "if"}
        Inside(found, instr) ==
            found \o IF instr.i = "loop" THEN Movable(instr.body)
                     ELSE Movable(instr.then) \o Movable(instr.else)
    IN  FoldLeft(Inside, SelectSeq(code, IsMovable), SelectSeq(code, HasBlocks))

WithoutMovable(code) ==
    LET Kept(instr) == ~IsMovable(instr)
        Inside(instr) ==
            CASE instr.i = "loop" -> [instr EXCEPT !.body = WithoutMovable(@)]
              [] instr.i = "if" -> [instr EXCEPT !.then = WithoutMovable(@), !.else = WithoutMovable(@)]
              [] OTHER -> instr
        kept == SelectSeq(code, Kept)
    IN  [n \in DOMAIN kept |-> Inside(kept[n])]

MoveAllocas(code) == Movable(code) \o WithoutMovable(code)

(***************************************************************************)
(* gen_func: the arguments are known by their names; a result passed by    *)
(* pointer goes where the first argument points.                           *)
(***************************************************************************)
GenFunc(f) ==
    LET named == {f.args[i].var : i \in DOMAIN f.args}
        points == {f.args[i].var : i \in {j \in DOMAIN f.args : f.args[j].ty.t # "int"}}
        known == [x \in named |-> Arg(x, x \in points)]
        empty == [code |-> <<>>, next |-> 1, vars |-> known, addresses |-> NoVars, dtors |-> <<>>,
                  val |-> None, asserts |-> FALSE, invalid |-> FALSE]
    IN  GenStmts(empty, f.body, IF IsPassByPtr(f.ret) THEN Arg("result", TRUE) ELSE None)

====
