---- MODULE Memory ----
(***************************************************************************)
(* The memory of a running program, and the values in it.                  *)
(*                                                                         *)
(* Memory is a sequence of objects, on the stack of some function or on    *)
(* the heap; an object is a sequence of cells; a pointer is an object and  *)
(* the position of a cell.  A value of the source language is a cell for   *)
(* an integer and a sequence for a tuple or an array; a reference stands   *)
(* for what it refers to.  The LLVM machine is modelled from how the       *)
(* generated code uses it.                                                 *)
(***************************************************************************)
EXTENDS Layout, TLC

Word(n) == [int |-> n]
Pointer(obj, off) == [obj |-> obj, off |-> off]
Undefined == [undef |-> TRUE]                 \* never written, or not there

IsInt(cell) == "int" \in DOMAIN cell
IsPointer(cell) == "obj" \in DOMAIN cell
Shift(ptr, n) == [ptr EXCEPT !.off = @ + n]

NewObject(mem, heap, size) ==
    Append(mem, [heap |-> heap, live |-> TRUE, cells |-> [n \in 1 .. size |-> Undefined]])

\* The cells from ptr on are those of an object that is there.
HasRoom(mem, ptr, size) ==
    /\ IsPointer(ptr)
    /\ mem[ptr.obj].live
    /\ ptr.off - 1 \in 0 .. Len(mem[ptr.obj].cells) - size

Read(mem, ptr) == IF HasRoom(mem, ptr, 1) THEN mem[ptr.obj].cells[ptr.off] ELSE Undefined
Write(mem, ptr, cell) == [mem EXCEPT ![ptr.obj].cells[ptr.off] = cell]

(***************************************************************************)
(* What a pointer shows of a value of type ty: the integers in it, in      *)
(* order, and the boxes it owns.  `names` has the sizes that are variables.*)
(***************************************************************************)
Nothing == [leaves |-> <<>>, boxes |-> <<>>]
Both(a, b) == [leaves |-> a.leaves \o b.leaves, boxes |-> a.boxes \o b.boxes]

Size(size, names) ==
    IF size.e = "num" THEN size.n
    ELSE IF IsInt(names[size.x]) THEN names[size.x].int ELSE 0

RECURSIVE Length(_, _)
Length(ty, names) == IF IsArray(ty) THEN Size(ty.size, names) * Length(ty.of, names) ELSE 1

RECURSIVE View(_, _, _, _), ViewElements(_, _, _, _)
View(mem, ptr, ty, names) ==
    LET cell == Read(mem, ptr)
        box == ViewElements(mem, cell, ty, names)
        ViewField(seen, i) ==
            LET field == ty.fields[i]
                at == Shift(ptr, FieldOffset(ty, i))
            IN  [sum |-> Both(seen.sum, View(mem, at, field.ty, seen.names)),
                 names |-> (field.var :> Read(mem, at)) @@ seen.names]
    IN  CASE ty.t = "int" -> [Nothing EXCEPT !.leaves = <<cell>>]
          [] ty.t = "ref" -> [View(mem, cell, ty.of, names) EXCEPT !.boxes = <<>>]
          [] IsArray(ty) -> [box EXCEPT !.boxes = <<cell>> \o @]
          [] ty.t = "tuple" ->
               IF IsPointer(ptr)
               THEN FoldLeftDomain(ViewField, [sum |-> Nothing, names |-> names], ty.fields).sum
               ELSE [Nothing EXCEPT !.leaves = <<Undefined>>]

ViewElements(mem, ptr, ty, names) ==
    LET element == Element(ty)
        ViewElement(seen, i) ==
            Both(seen, View(mem, Shift(ptr, (i - 1) * Width(element)), element, names))
    IN  IF IsPointer(ptr)
        THEN FoldLeft(ViewElement, Nothing, [i \in 1 .. Length(ty, names) |-> i])
        ELSE [Nothing EXCEPT !.leaves = <<Undefined>>]

\* The same of an operand: a pointer to the value, or the value itself.
ViewOperand(mem, cell, ty, names) ==
    CASE ty.t = "int" -> [Nothing EXCEPT !.leaves = <<cell>>]
      [] IsArray(ty) -> ViewElements(mem, cell, ty, names)
      [] OTHER -> [View(mem, cell, IF ty.t = "ref" THEN ty.of ELSE ty, names)
                      EXCEPT !.boxes = IF ty.t = "ref" THEN <<>> ELSE @]

(***************************************************************************)
(* What a caller or a callee does to hand a value over: each box is a heap *)
(* object of its own.                                                      *)
(***************************************************************************)
RECURSIVE Flatten(_, _), Put(_, _, _, _)
Flatten(ty, v) ==
    CASE ty.t = "int" -> <<v>>
      [] ty.t = "ref" -> Flatten(ty.of, v)
      [] IsArray(ty) -> FoldLeft(LAMBDA all, x : all \o Flatten(ty.of, x), <<>>, v)
      [] ty.t = "tuple" ->
           FoldLeftDomain(LAMBDA all, i : all \o Flatten(ty.fields[i].ty, v[i]), <<>>, v)

\* The innermost elements of an array.
RECURSIVE Elements(_, _)
Elements(ty, v) ==
    IF IsArray(ty) THEN FoldLeft(LAMBDA all, x : all \o Elements(ty.of, x), <<>>, v) ELSE <<v>>

PutElements(mem, ptr, ty, v) ==
    LET flat == Elements(ty, v)
        Next_(m, i) == Put(m, Shift(ptr, (i - 1) * Width(Element(ty))), Element(ty), flat[i])
    IN  FoldLeftDomain(Next_, mem, flat)

Put(mem, ptr, ty, v) ==
    LET box == Pointer(Len(mem) + 1, 1)
        boxed == NewObject(mem, TRUE, Len(Elements(ty, v)) * Width(Element(ty)))
        PutField(m, i) == Put(m, Shift(ptr, FieldOffset(ty, i)), ty.fields[i].ty, v[i])
    IN  CASE ty.t = "int" -> Write(mem, ptr, v)
          [] IsArray(ty) -> PutElements(Write(boxed, ptr, box), box, ty, v)
          [] ty.t = "tuple" -> FoldLeftDomain(PutField, mem, v)

\* An argument, and the memory that the caller keeps it in.
Pass(mem, ty, v) ==
    LET kept == IF ty.t = "ref" THEN ty.of ELSE ty
        ptr == Pointer(Len(mem) + 1, 1)
        elements == Len(Elements(kept, v)) * Width(Element(kept))
        room == NewObject(mem, FALSE, IF IsArray(ty) THEN elements ELSE Width(kept))
    IN  CASE ty.t = "int" -> [mem |-> mem, cell |-> v]
          [] IsArray(ty) -> [mem |-> PutElements(room, ptr, ty, v), cell |-> ptr]
          [] OTHER -> [mem |-> Put(room, ptr, kept, v), cell |-> ptr]

====
