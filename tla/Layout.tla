---- MODULE Layout ----
(***************************************************************************)
(* The types of runtime values, the expressions that build them, and how   *)
(* a value is laid out: gen_type.cpp and gen_array.cpp.                    *)
(*                                                                         *)
(* All integers are one type, a struct is a tuple (they are generated      *)
(* alike, but for the sort of a list), and memory is counted in cells: an integer, a reference and the *)
(* pointer to a box take one each.  Every expression carries its type; the *)
(* size of an array type is an expression too, which may name arguments of *)
(* the function, or earlier fields of the tuple the array is a field of.   *)
(***************************************************************************)
EXTENDS Integers, SequencesExt

Int32 == [t |-> "int"]
Ref(ty) == [t |-> "ref", of |-> ty]
Array(ty, size) == [t |-> "array", of |-> ty, size |-> size]
Tuple(fields) == [t |-> "tuple", fields |-> fields]
Field(x, ty) == [var |-> x, ty |-> ty]

Num(n) == [e |-> "num", n |-> n, ty |-> Int32]
Var(x, ty) == [e |-> "var", x |-> x, ty |-> ty]
Call(f, args, ty) == [e |-> "call", f |-> f, args |-> args, ty |-> ty]
List(values, ty) == [e |-> "list", values |-> values, ty |-> ty]
At(object, index, ty) == [e |-> "at", of |-> object, index |-> index, ty |-> ty]
AddressOf(place) == [e |-> "addressof", of |-> place, ty |-> Ref(place.ty)]
Deref(ref) == [e |-> "deref", of |-> ref, ty |-> ref.ty.of]
Inlined(result) == [e |-> "inlined", of |-> result, ty |-> result.ty]

IsArray(ty) == ty.t = "array"
IsBoxed(ty) == IsArray(ty)
IsPassByPtr(ty) == ty.t \in {"array", "tuple"}

(***************************************************************************)
(* An array of arrays is one block of the innermost elements.              *)
(***************************************************************************)
RECURSIVE Element(_), Dimensions(_), Width(_), IsTrivial(_)
Element(ty) == IF IsArray(ty) THEN Element(ty.of) ELSE ty

Dimensions(ty) == IF IsArray(ty) THEN <<ty.size>> \o Dimensions(ty.of) ELSE <<>>

Width(ty) ==                                    \* of a field: an array is in its box
    IF ty.t = "tuple" THEN FoldLeft(LAMBDA sum, f : sum + Width(f.ty), 0, ty.fields) ELSE 1

FieldOffset(ty, i) == Width(Tuple(SubSeq(ty.fields, 1, i - 1)))

(***************************************************************************)
(* The list of a struct has the struct for its sort.  The sort of a        *)
(* tuple's list is its own: the values were put in for the names of their  *)
(* fields in the types of later ones, while the list was checked.  That a  *)
(* later field whose name the value has is renamed then is left out here.  *)
(***************************************************************************)
RECURSIVE Substituted(_, _, _)
Substituted(ty, x, value) ==
    LET Field_(i) == IF \E j \in 1 .. i - 1 : ty.fields[j].var = x THEN ty.fields[i]
                     ELSE Field(ty.fields[i].var, Substituted(ty.fields[i].ty, x, value))
    IN  CASE ty.t = "int" -> ty
          [] ty.t = "ref" -> Ref(Substituted(ty.of, x, value))
          [] IsArray(ty) -> Array(Substituted(ty.of, x, value),
                                  IF ty.size = Var(x, Int32) THEN value ELSE ty.size)
          [] ty.t = "tuple" -> Tuple([i \in DOMAIN ty.fields |-> Field_(i)])

TupleList(values, ty) ==
    LET Give_(given, i) ==
            LET x == given.fields[i].var
                later == Substituted(Tuple(SubSeq(given.fields, i + 1, Len(values))), x, values[i])
            IN  Tuple(SubSeq(given.fields, 1, i) \o later.fields)
    IN  List(values, FoldLeftDomain(Give_, ty, values))

(***************************************************************************)
(* is_trivially_destructible, which is is_trivially_copyable too: nothing  *)
(* in a value of this type is in a box of its own.                         *)
(***************************************************************************)
IsTrivial(ty) ==
    CASE ty.t = "array" -> IsTrivial(Element(ty))
      [] ty.t = "tuple" -> \A i \in DOMAIN ty.fields : ~IsBoxed(ty.fields[i].ty) /\ IsTrivial(ty.fields[i].ty)
      [] OTHER -> TRUE

====
