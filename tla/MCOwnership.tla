---- MODULE MCOwnership ----
(***************************************************************************)
(* Functions of one signature, over vectors (a tuple of a length and an    *)
(* array of that length), pairs of a vector and an integer, arrays of two  *)
(* vectors and vectors of vectors.                                         *)
(***************************************************************************)
EXTENDS Ownership

Vector == Tuple(<<Field("k", Int32), Field("xs", Array(Int32, Var("k", Int32)))>>)
Pair == Tuple(<<Field("first", Vector), Field("second", Int32)>>)
Clash == Tuple(<<Field("n", Int32), Field("last", Vector)>>)
Two == Array(Vector, Num(2))
Nest == Tuple(<<Field("m", Int32), Field("vs", Array(Vector, Var("m", Int32)))>>)
Deep == Tuple(<<Field("d", Int32), Field("ws", Array(Nest, Var("d", Int32)))>>)
Row(n) == Array(Int32, n)
ListsOf(values, ty) == {List(values, ty), TupleList(values, ty)}
Matrix == Array(Array(Int32, Num(2)), Num(2))

n == Var("n", Int32)
v == Var("v", Vector)
p == Var("p", Pair)
w == Var("w", Nest)
r == Var("r", Ref(Vector))
xs == Var("row", Row(n))
m == Var("mat", Matrix)
Grid == Array(Row(n), Num(2))
grid == Var("grid", Grid)
deep == Var("d", Deep)

Args == <<Field("n", Int32), Field("v", Vector), Field("p", Pair), Field("w", Nest),
          Field("r", Ref(Vector)), Field("row", Row(n)), Field("mat", Matrix),
          Field("grid", Grid), Field("d", Deep)>>

MCSignature ==
    [num |-> [args |-> <<Field("a", Int32)>>, ret |-> Int32],
     make |-> [args |-> <<Field("a", Int32)>>, ret |-> Vector],
     row |-> [args |-> <<Field("a", Int32)>>, ret |-> Row(Var("a", Int32))],
     nest |-> [args |-> <<Field("a", Int32)>>, ret |-> Nest],
     deep |-> [args |-> <<Field("a", Int32)>>, ret |-> Deep],
     count |-> [args |-> <<Field("a", Vector)>>, ret |-> Int32],
     look |-> [args |-> <<Field("a", Ref(Int32))>>, ret |-> Int32],
     peek |-> [args |-> <<Field("a", Ref(Vector))>>, ret |-> Int32],
     both |-> [args |-> <<Field("a", Vector), Field("b", Pair)>>, ret |-> Pair]]

UpTo(k) == [i \in 1 .. k |-> Word(6 + i)]
VectorOf(k) == <<Word(k), UpTo(k)>>
NestOf(k) == <<Word(k), [i \in 1 .. k |-> VectorOf(k + 1 - i)]>>
DeepOf(k) == <<Word(k), [i \in 1 .. k |-> NestOf(i)]>>

MCBehaviour(f, leaves) ==
    LET a == leaves[1][1].int
    IN  CASE f = "num" -> Word(1 - (a % 2))
          [] f = "make" -> VectorOf(a % 3)
          [] f = "row" -> UpTo(a)
          [] f = "nest" -> NestOf(a % 3)
          [] f = "deep" -> DeepOf(a)
          [] f = "count" -> Word(Len(leaves[1]))
          [] f = "look" -> Word(a + 1)
          [] f = "peek" -> Word(a)
          [] f = "both" -> <<VectorOf(a), Word(Len(leaves[2]))>>

-----------------------------------------------------------------------------
MakeOf(e) == Call("make", <<e>>, Vector)
NestCall == Call("nest", <<n>>, Nest)
Ints0 == {Num(1), n}
Looks == Call("look", <<AddressOf(n)>>, Int32)
One == Call("num", <<n>>, Int32)
RowOf(e) == Call("row", <<e>>, Row(e))
RowIn(e) == At(e, Num(1), Row(At(e, Num(0), Int32)))

Vectors0 == {v, Deref(r), At(p, Num(0), Vector)}
Vectors1 ==
    {MakeOf(n), MakeOf(Num(2)),
     MakeOf(Looks),
     At(At(w, Num(1), Array(Vector, At(w, Num(0), Int32))), Num(0), Vector),
     At(List(<<MakeOf(Num(1)), v>>, Two), Num(1), Vector),
     At(List(<<v, n>>, Pair), Num(0), Vector),
     At(Call("both", <<v, p>>, Pair), Num(0), Vector),
     At(Call("both", <<MakeOf(n), List(<<MakeOf(n), n>>, Pair)>>, Pair), Num(0), Vector),
     Deref(AddressOf(v)), Deref(AddressOf(MakeOf(n))),
     Deref(AddressOf(At(p, Num(0), Vector))), Deref(AddressOf(Deref(r))),
     Inlined(v), Inlined(MakeOf(n)),
     At(List(<<Num(2), v>>, Clash), Num(1), Vector),
     At(List(<<Num(2), MakeOf(n)>>, Clash), Num(1), Vector),
     At(List(<<Looks, v>>, Clash), Num(1), Vector)}
    \union UNION {ListsOf(values, Vector) : values \in
        {<<Num(2), List(<<Num(8), n>>, Row(Num(2)))>>, <<n, xs>>, <<n, Call("row", <<n>>, Row(n))>>,
         <<Num(2), At(m, Num(1), Row(Num(2)))>>, <<At(v, Num(0), Int32), RowIn(v)>>, <<One, RowOf(One)>>}}
Vectors == Vectors0 \union Vectors1

Ints1 ==
    {Call("count", <<e>>, Int32) : e \in Vectors}
    \union {Call("peek", <<AddressOf(e)>>, Int32) : e \in Vectors}
    \union {Call("look", <<AddressOf(n)>>, Int32), Call("look", <<AddressOf(Call("num", <<n>>, Int32))>>, Int32),
            Call("look", <<AddressOf(At(MakeOf(n), Num(0), Int32))>>, Int32),
            Inlined(n), Deref(AddressOf(n)), At(At(m, Num(1), Row(Num(2))), Num(1), Int32),
            At(Call("deep", <<n>>, Deep), Num(0), Int32)}
    \union {At(e, Num(0), Int32) : e \in Vectors}
    \union {At(RowIn(e), Num(0), Int32) : e \in {v, MakeOf(Num(2))}}
Ints == Ints0 \union Ints1

Pairs == {p} \union {List(<<e, n>>, Pair) : e \in Vectors}
             \union {Inlined(List(<<e, n>>, Pair)) : e \in Vectors1}
             \union {Call("both", <<e, List(<<f, Num(3)>>, Pair)>>, Pair) : e \in Vectors, f \in Vectors0}
             \union {List(<<MakeOf(i), i>>, Pair) : i \in Ints1}
Nests == {w, NestCall, Deref(AddressOf(NestCall)), Inlined(w),
          List(<<Num(2), List(<<Deref(r), v>>, Two)>>, Nest)}
         \union ListsOf(<<Num(2), List(<<MakeOf(n), v>>, Two)>>, Nest)
Twos == {List(<<e, f>>, Two) : e \in Vectors, f \in {v, MakeOf(n)}}
            \union {Inlined(List(<<e, v>>, Two)) : e \in Vectors0}
Deeps == {deep, Call("deep", <<n>>, Deep), Deref(AddressOf(deep))}
Grids == {grid, List(<<xs, At(grid, Num(0), Row(n))>>, Grid), List(<<Call("row", <<n>>, Row(n)), xs>>, Grid)}
Rows == {xs, At(grid, Num(1), Row(n)), Inlined(xs), Call("row", <<n>>, Row(n)), Deref(AddressOf(xs))}
Matrices == {m, List(<<At(m, Num(1), Row(Num(2))), List(<<n, Num(4)>>, Row(Num(2)))>>, Matrix)}

Returning(e) == [s |-> "return", expr |-> e]
Calling(e) == [s |-> "call", call |-> e]
If(c, yes, no) == [s |-> "if", cond |-> c, yes |-> yes, no |-> no]

\* A function has the arguments that it names.
Function(body, ret) ==
    LET named == {part.x : part \in {q \in PartsOf(body) : q.e = "var"}}
        IsNamed(arg) == arg.var \in named
    IN  [args |-> SelectSeq(Args, IsNamed), ret |-> ret, body |-> body]
Just(es, ret) == {Function(<<Returning(e)>>, ret) : e \in es}

Statements ==
    {Function(<<Calling(c), Returning(e)>>, Vector) :
        c \in {Call("count", <<MakeOf(n)>>, Int32), MakeOf(Num(2)), Looks, NestCall,
              Call("count", <<At(List(<<Looks, v>>, Clash), Num(1), Vector)>>, Int32)}, e \in {v, MakeOf(Looks)}}
    \union
    {Function(<<If(c, <<Returning(e)>>, <<>>), Returning(f)>>, Vector) :
        c \in {n, At(MakeOf(n), Num(0), Int32), Looks}, e \in {v, MakeOf(Looks)}, f \in {MakeOf(Looks), Deref(r)}}
    \union
    {Function(<<If(n, <<Calling(c)>>, <<Calling(d)>>), Returning(e)>>, Pair) :
        c \in {Looks, MakeOf(n)}, d \in {Call("peek", <<AddressOf(MakeOf(n))>>, Int32), Looks},
        e \in {p, List(<<MakeOf(Looks), n>>, Pair)}}

MCFunctions == Just(Vectors, Vector) \union Just(Ints, Int32) \union Just(Pairs, Pair)
               \union Just(Nests, Nest) \union Just(Twos, Two) \union Just(Rows, Row(n))
               \union Just(Matrices, Matrix) \union Just(Grids, Grid) \union Just(Deeps, Deep) \union Statements

MCInputs(f) ==
    {[n |-> Word(k), v |-> VectorOf(1), p |-> <<VectorOf(2), Word(5)>>, w |-> NestOf(2), r |-> VectorOf(1),
      row |-> UpTo(k), mat |-> <<UpTo(2), UpTo(2)>>, grid |-> <<UpTo(k), UpTo(k)>>, d |-> DeepOf(1)] : k \in 0 .. 2}

====
