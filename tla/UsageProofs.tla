----------------------------- MODULE UsageProofs -----------------------------
(***************************************************************************)
(* That usage counting is exact, for any variables, declarations and terms *)
(* and for branches nested to any depth.                                   *)
(*                                                                         *)
(* CountIsExact is not inductive: that committing adds what a branch used  *)
(* and no more rests on how objects extend each other.  An object of the   *)
(* stack extends that of the frame below *as it is now*, so nothing was    *)
(* added below since; it has an entry of its own only for what was not     *)
(* used below yet (Extends), and is younger than all below (Younger), so   *)
(* adding to the topmost changes no other count.                           *)
(***************************************************************************)
EXTENDS BranchUsage, Integers, FiniteSetTheorems, TLAPS

L == INSTANCE HeapLemmas WITH Keys <- Vars

-----------------------------------------------------------------------------
(* The inductive invariant.                                                *)

Counts == {one, many}
Heap == {h \in Seq(L!NodeOf(Counts)) : L!WellFormed(h, Counts)}
Kinds == {"body", "then", "else", "left", "right"}
AFrame == [kind : Kinds, cur : Nat, alt : Nat, use : [Vars -> Qty], saved : [Vars -> Qty]]
Frames == Seq(AFrame)

\* Object x extends object p as p is now.  For a variable that is counted, x
\* has an entry of its own only if p has no use of it yet.
Extends(h, x, p) ==
  /\ x \in DOMAIN h /\ h[x].outer = U!H!Levels(h, p)
  /\ \A v \in Vars : h[x].index[v] # 0 /\ Decl[v] # many => U!Count(h, p, v) = zero

\* The objects of a frame are younger than those of the frames below.
Younger(f, e) == /\ e.cur < f.cur /\ e.alt < f.cur
                 /\ e.cur < f.alt /\ e.alt < f.alt

Stacked(h, fs) ==
  /\ fs # <<>> /\ fs[1].cur \in DOMAIN h /\ fs[1].alt = 0
  /\ \A i \in DOMAIN fs : (fs[i].kind = "body") = (i = 1)
  /\ \A i \in 2..Len(fs) : /\ Extends(h, fs[i].cur, fs[i - 1].cur)
                          /\ Extends(h, fs[i].alt, fs[i - 1].cur)
                          /\ fs[i].cur # fs[i].alt
  /\ \A i \in DOMAIN fs, j \in DOMAIN fs : i < j => Younger(fs[j], fs[i])

ExactIn(h, n, use) ==
  \A v \in Vars : LET c == U!Count(h, n, v)
                  IN  IF Decl[v] = many THEN (c = zero) = (use[v] = zero)
                      ELSE c = use[v]

Accounted(h, f) ==
  /\ \A v \in Vars : f.use[v] <= Decl[v] /\ f.saved[v] <= Decl[v]
  /\ ExactIn(h, f.cur, f.use)
  /\ f.kind \in {"then", "else", "left"} => ExactIn(h, f.alt, f.saved)

Sound(h, fs) ==
  /\ h \in Heap /\ fs \in Frames /\ Stacked(h, fs)
  /\ \A i \in DOMAIN fs : Accounted(h, fs[i])

Inv == Sound(heap, frames)

-----------------------------------------------------------------------------
(* Usage objects as nodes of a heap.                                        *)

LEMMA SameOperators ==
  ASSUME NEW h, NEW n, NEW v
  PROVE  /\ U!H!Levels(h, n) = L!Levels(h, n)
         /\ U!H!ChildNode(h, n) = L!ChildNode(h, n)
         /\ U!H!RootNode = L!RootNode
         /\ U!H!Absent = 0 /\ L!Absent = 0
         /\ U!H!Find(h, n, v) = L!Find(h, n, v)
         /\ U!H!NoCell = L!NoCell
         /\ U!Count(h, n, v) = L!Value(h, n, v, zero)
         /\ \A q : U!H!Emplaced(h, n, v, q) = L!Emplaced(h, n, v, q)
         /\ \A q : U!H!Written(h, n, q) = L!Written(h, n, q)
  <1>1. U!H!Levels(h, n) = L!Levels(h, n) /\ U!H!RootNode = L!RootNode /\ U!H!NoCell = L!NoCell
        /\ U!H!ChildNode(h, n) = L!ChildNode(h, n) /\ U!H!Absent = 0 /\ L!Absent = 0
    BY DEF U!H!Levels, L!Levels, U!H!ChildNode, L!ChildNode, U!H!EmptyNode, L!EmptyNode,
           U!H!RootNode, L!RootNode, U!H!NoCell, L!NoCell, U!H!Absent, L!Absent
  <1>2. U!H!Find(h, n, v) = L!Find(h, n, v)
    BY DEF U!H!Find, L!Find, U!H!HitLevels, L!HitLevels, U!H!Levels, L!Levels,
           U!H!PlaceAt, L!PlaceAt, U!H!Absent, L!Absent, U!H!NoCell, L!NoCell
  <1>3. U!Count(h, n, v) = L!Value(h, n, v, zero)
    BY <1>1, <1>2 DEF U!Count, L!Value, L!At, zero, U!zero
  <1>4. \A q : U!H!Emplaced(h, n, v, q) = L!Emplaced(h, n, v, q)
    BY DEF U!H!Emplaced, L!Emplaced, U!H!Absent, L!Absent
  <1>5. \A q : U!H!Written(h, n, q) = L!Written(h, n, q)
    BY DEF U!H!Written, L!Written
  <1> QED BY <1>1, <1>2, <1>3, <1>4, <1>5

\* The arithmetic of quantities.
LEMMA Saturating ==
  ASSUME NEW c \in Qty, NEW t \in Nat, NEW m \in {one, many}
  PROVE  /\ Plus(c, Times(t, m)) \in Qty
         /\ Plus(Plus(c, Times(t, m)), Times(one, m)) = Plus(c, Times(t + 1, m))
         /\ Plus(c, Times(0, m)) = c
  <1>1. CASE m = one
    BY <1>1 DEF Plus, Times, Qty, one, many, zero
  <1>2. CASE m = many
    BY <1>2 DEF Plus, Times, Qty, one, many, zero
  <1> QED BY <1>1, <1>2

LEMMA SameArithmetic ==
  ASSUME NEW a, NEW b
  PROVE  /\ U!Plus(a, b) = Plus(a, b) /\ U!Times(a, b) = Times(a, b)
         /\ U!QtyMax(a, b) = QtyMax(a, b)
         /\ U!zero = zero /\ U!one = one /\ U!many = many
BY DEF U!Plus, Plus, U!Times, Times, U!QtyMax, QtyMax, U!zero, zero, U!one, one, U!many, many

\* How often an object says a variable was used.
LEMMA CountFacts ==
  ASSUME NEW h \in Heap, NEW n \in DOMAIN h, NEW v \in Vars
  PROVE  /\ U!Count(h, n, v) \in Qty
         /\ h[n].index[v] # 0 => U!Count(h, n, v) \in Counts
         /\ h[n].index[v] = 0 => U!Count(h, n, v) = L!ValueIn(h, h[n].outer, v, zero)
  <1>1. L!WellFormed(h, Counts) /\ h \in Seq(L!NodeOf(Counts))
    BY DEF Heap
  <1>2. U!Count(h, n, v) = L!Value(h, n, v, zero) /\ L!Absent = 0
    BY SameOperators
  <1>3. L!Value(h, n, v, zero) \in Counts \union {zero}
    BY <1>1, L!ValueType
  <1>4. L!Value(h, n, v, zero) = IF h[n].index[v] # L!Absent THEN h[n].data[h[n].index[v]].val
                                ELSE L!ValueIn(h, h[n].outer, v, zero)
    BY <1>1, L!ValueFrom
  <1>5. h[n].index[v] # 0 => h[n].data[h[n].index[v]].val \in Counts
    <2> SUFFICES ASSUME h[n].index[v] # 0 PROVE h[n].data[h[n].index[v]].val \in Counts
      OBVIOUS
    <2>1. h[n].data \in Seq(L!EntryOf(Counts)) /\ h[n].index[v] \in DOMAIN h[n].data
      BY <1>1, <1>2, L!NodeParts DEF L!WellFormed, L!Indexed
    <2>2. h[n].data[h[n].index[v]] \in L!EntryOf(Counts)
      BY <2>1
    <2> QED BY <2>2 DEF L!EntryOf
  <1> QED BY <1>2, <1>3, <1>4, <1>5 DEF Counts, Qty

\* g is h but for the entries of object n.
Only(h, g, n) ==
  /\ DOMAIN g = DOMAIN h /\ Len(g) = Len(h) /\ g[n].outer = h[n].outer
  /\ \A m \in DOMAIN h \ {n} : g[m] = h[m]

\* One use that is allowed: an entry of the object itself has the new count,
\* and nothing else changes.
LEMMA AddedOnce ==
  ASSUME NEW h \in Heap, NEW n \in DOMAIN h, NEW v \in Vars, NEW mult \in Counts,
         U!Allowed(h, n, v, mult)
  PROVE  LET g == U!Added(h, n, v, mult)
         IN  /\ g \in Heap /\ Only(h, g, n)
             /\ g[n].index[v] # 0
             /\ U!Count(g, n, v) = Plus(U!Count(h, n, v), Times(one, mult))
             /\ U!Count(g, n, v) <= Decl[v]
             /\ \A w \in Vars \ {v} : /\ U!Count(g, n, w) = U!Count(h, n, w)
                                     /\ g[n].index[w] = h[n].index[w]
  <1> DEFINE q == U!NewCount(h, n, v, mult)
             g == U!Added(h, n, v, mult)
  <1>1. L!WellFormed(h, Counts) /\ h \in Seq(L!NodeOf(Counts))
    BY DEF Heap
  <1>2. q = Plus(U!Count(h, n, v), Times(one, mult)) /\ U!Count(h, n, v) \in Qty
    BY SameArithmetic, CountFacts DEF U!NewCount
  <1>3. q \in Counts /\ q <= Decl[v]
    <2>1. mult # zero /\ mult \in {one, many}
      BY DEF Counts, zero, one, many
    <2>2. q <= Decl[v]
      BY <2>1, SameArithmetic DEF U!Allowed
    <2> QED BY <1>2, <2>1, <2>2 DEF Counts, Plus, Times, Qty, zero, one, many
  <1>4. g = IF h[n].index[v] = 0 THEN L!Emplaced(h, n, v, q)
            ELSE L!Written(h, <<n, h[n].index[v]>>, q)
    <2>1. mult # U!zero
      BY SameArithmetic DEF Counts, zero, one, many
    <2> QED BY <2>1, SameOperators DEF U!Added, U!Put
  <1>5. h[n].index \in [Vars -> Nat] /\ Len(h[n].data) \in Nat /\ L!Absent = 0
    BY <1>1, L!NodeParts, SameOperators
  <1>6. CASE h[n].index[v] = 0
    <2> HIDE DEF q, g
    <2>1. L!EntryAdded(h, g, n, v, q) /\ g \in Seq(L!NodeOf(Counts))
      BY <1>1, <1>3, <1>4, <1>5, <1>6, L!EmplacedAdds
    <2>2. L!WellFormed(g, Counts)
      BY <1>1, <1>3, <1>5, <1>6, <2>1, L!AddedWellFormed
    <2>3. /\ L!Value(g, n, v, zero) = q
          /\ \A w \in Vars \ {v} : L!Value(g, n, w, zero) = L!Value(h, n, w, zero)
      BY <1>1, <1>3, <1>5, <1>6, <2>1, <2>2, L!AddedSees
    <2>4. /\ DOMAIN g = DOMAIN h /\ Len(g) = Len(h) /\ g[n].outer = h[n].outer
          /\ \A m \in DOMAIN h \ {n} : g[m] = h[m]
          /\ g[n].index = [h[n].index EXCEPT ![v] = Len(h[n].data) + 1]
      BY <2>1 DEF L!EntryAdded
    <2>5. g[n].index[v] # 0 /\ \A w \in Vars \ {v} : g[n].index[w] = h[n].index[w]
      BY <1>5, <2>4
    <2> QED BY <1>2, <1>3, <2>1, <2>2, <2>3, <2>4, <2>5, SameOperators DEF Only, Heap, g
  <1>7. CASE h[n].index[v] # 0
    <2> DEFINE i == h[n].index[v]
    <2>1. i \in DOMAIN h[n].data /\ h[n].data[i].key = v
      BY <1>1, <1>5, <1>7 DEF L!WellFormed, L!Indexed
    <2>2. L!HasNode(h, n, h[n])
      BY DEF L!HasNode
    <2>3. L!Find(h, n, v) = <<n, i>>
      BY <1>1, <1>5, <1>7, <2>2, L!OwnOrOuter
    <2>4. \A w \in Vars \ {v} : L!Find(h, n, w) # <<n, i>>
      <3> SUFFICES ASSUME NEW w \in Vars, L!Find(h, n, w) = <<n, i>> PROVE w = v
        OBVIOUS
      <3>1. <<n, i>> # L!NoCell
        BY <1>7 DEF L!NoCell
      <3>2. h[n].data[i].key = w
        BY <1>1, <3>1, L!FindCell
      <3> QED BY <2>1, <3>2
    <2> HIDE DEF q, g, i
    <2>5. L!EntryWritten(h, g, n, i, q) /\ g \in Seq(L!NodeOf(Counts))
      BY <1>1, <1>3, <1>4, <1>7, <2>1, L!WrittenWrites DEF i
    <2>6. /\ L!WellFormed(g, Counts)
          /\ \A m \in DOMAIN h, j \in Vars : \A none :
               L!Value(g, m, j, none) = IF L!Find(h, m, j) = <<n, i>> THEN q ELSE L!Value(h, m, j, none)
      BY <1>1, <1>3, <2>1, <2>5, L!WrittenSees
    <2>7. /\ L!Value(g, n, v, zero) = q
          /\ \A w \in Vars \ {v} : L!Value(g, n, w, zero) = L!Value(h, n, w, zero)
      BY <2>3, <2>4, <2>6
    <2>8. /\ DOMAIN g = DOMAIN h /\ Len(g) = Len(h) /\ g[n].outer = h[n].outer
          /\ \A m \in DOMAIN h \ {n} : g[m] = h[m]
          /\ g[n].index = h[n].index
      BY <2>5 DEF L!EntryWritten
    <2> QED BY <1>2, <1>3, <1>7, <2>5, <2>6, <2>7, <2>8, SameOperators DEF Only, Heap, g
  <1> QED BY <1>6, <1>7

\* g is h after the uses t of object n, with multiplier m, are added to it.
After(h, g, n, t, m) ==
  /\ g \in Heap /\ Only(h, g, n)
  /\ \A v \in Vars :
       /\ U!Count(g, n, v) = Plus(U!Count(h, n, v), Times(t[v], m))
       /\ t[v] = 0 => g[n].index[v] = h[n].index[v]
       /\ t[v] # 0 => g[n].index[v] # 0 /\ U!Count(g, n, v) <= Decl[v]

LEMMA AfterNothing ==
  ASSUME NEW h \in Heap, NEW n \in DOMAIN h, NEW m \in Counts
  PROVE  After(h, h, n, [v \in Vars |-> 0], m)
  <1>1. \A v \in Vars : U!Count(h, n, v) = Plus(U!Count(h, n, v), Times(0, m))
    BY CountFacts, Saturating DEF Counts
  <1> QED BY <1>1 DEF After, Only

LEMMA AfterOneMore ==
  ASSUME NEW h \in Heap, NEW n \in DOMAIN h, NEW m \in Counts, NEW t \in [Vars -> Nat],
         NEW g, After(h, g, n, t, m), NEW v \in Vars, U!Allowed(g, n, v, m)
  PROVE  After(h, U!Added(g, n, v, m), n, [t EXCEPT ![v] = @ + 1], m)
  <1> DEFINE f == U!Added(g, n, v, m)
  <1>1. g \in Heap /\ Only(h, g, n) /\ n \in DOMAIN g
    BY DEF After, Only
  <1>2. /\ f \in Heap /\ Only(g, f, n)
        /\ f[n].index[v] # 0
        /\ U!Count(f, n, v) = Plus(U!Count(g, n, v), Times(one, m))
        /\ U!Count(f, n, v) <= Decl[v]
        /\ \A w \in Vars \ {v} : /\ U!Count(f, n, w) = U!Count(g, n, w)
                                /\ f[n].index[w] = g[n].index[w]
    BY <1>1, AddedOnce
  <1> HIDE DEF f
  <1>3. Only(h, f, n)
    BY <1>1, <1>2 DEF Only
  <1>4. U!Count(f, n, v) = Plus(U!Count(h, n, v), Times(t[v] + 1, m))
    <2>1. U!Count(g, n, v) = Plus(U!Count(h, n, v), Times(t[v], m)) /\ U!Count(h, n, v) \in Qty
      BY CountFacts DEF After
    <2>2. t[v] \in Nat /\ m \in {one, many}
      BY DEF Counts
    <2>3. Plus(Plus(U!Count(h, n, v), Times(t[v], m)), Times(one, m))
            = Plus(U!Count(h, n, v), Times(t[v] + 1, m))
      BY <2>1, <2>2, Saturating
    <2> QED BY <1>2, <2>1, <2>3
  <1> DEFINE s == [t EXCEPT ![v] = @ + 1]
  <1>5. s[v] = t[v] + 1 /\ s[v] # 0 /\ \A w \in Vars \ {v} : s[w] = t[w]
    OBVIOUS
  <1> HIDE DEF s
  <1>6. ASSUME NEW w \in Vars
        PROVE  /\ U!Count(f, n, w) = Plus(U!Count(h, n, w), Times(s[w], m))
               /\ s[w] = 0 => f[n].index[w] = h[n].index[w]
               /\ s[w] # 0 => f[n].index[w] # 0 /\ U!Count(f, n, w) <= Decl[w]
    <2>1. CASE w = v
      BY <1>2, <1>4, <1>5, <2>1
    <2>2. CASE w # v
      BY <1>2, <1>5, <2>2 DEF After
    <2> QED BY <2>1, <2>2
  <1>7. After(h, f, n, s, m)
    BY <1>2, <1>3, <1>6 DEF After
  <1> QED BY <1>7 DEF s, f

\* How often v is in the first i of uses.
UsesOfVar(uses, i, v) == Cardinality({j \in 1..i : uses[j][1] = v})

LEMMA OneMoreTime ==
  ASSUME NEW uses, NEW i \in Nat, NEW v
  PROVE  /\ UsesOfVar(uses, 0, v) = 0 /\ UsesOfVar(uses, i, v) \in Nat
         /\ UsesOfVar(uses, i + 1, v) = UsesOfVar(uses, i, v) + (IF uses[i + 1][1] = v THEN 1 ELSE 0)
  <1> DEFINE S == {j \in 1..i : uses[j][1] = v}
             T == {j \in 1..(i + 1) : uses[j][1] = v}
  <1>1. IsFiniteSet(S)
    <2>1. IsFiniteSet(1..i)
      BY FS_Interval
    <2>2. S \subseteq 1..i
      OBVIOUS
    <2> QED BY <2>1, <2>2, FS_Subset
  <1>2. {j \in 1..0 : uses[j][1] = v} = {}
    OBVIOUS
  <1>3. i + 1 \notin S /\ T = IF uses[i + 1][1] = v THEN S \union {i + 1} ELSE S
    <2>1. 1..(i + 1) = 1..i \union {i + 1} /\ i + 1 \notin 1..i
      OBVIOUS
    <2> QED BY <2>1
  <1>4. Cardinality(S) \in Nat /\ Cardinality(S \union {i + 1}) = Cardinality(S) + 1
    <2> HIDE DEF S
    <2> QED BY <1>1, <1>3, FS_AddElement, FS_CardinalityType
  <1>5. Cardinality({}) = 0
    BY FS_EmptySet
  <1>6. UsesOfVar(uses, i, v) = Cardinality(S) /\ UsesOfVar(uses, i + 1, v) = Cardinality(T)
        /\ UsesOfVar(uses, 0, v) = Cardinality({j \in 1..0 : uses[j][1] = v})
    BY DEF UsesOfVar
  <1> HIDE DEF S, T
  <1>7. Cardinality(T) = Cardinality(S) + (IF uses[i + 1][1] = v THEN 1 ELSE 0)
    <2>1. CASE uses[i + 1][1] = v
      BY <1>3, <1>4, <2>1
    <2>2. CASE uses[i + 1][1] # v
      BY <1>3, <1>4, <2>2
    <2> QED BY <2>1, <2>2
  <1> QED BY <1>2, <1>4, <1>5, <1>6, <1>7

\* The i-th use, after those before it, is one too many.
TooMany(h, n, uses, i, m) ==
  LET v == uses[i][1]
  IN  ~(Plus(U!Count(h, n, v), Times(UsesOfVar(uses, i, v), m)) <= Decl[v])

\* The uses before the first that is not allowed are added in turn.
LEMMA AddingInTurn ==
  ASSUME NEW h \in Heap, NEW n \in DOMAIN h, NEW m \in Counts,
         NEW uses \in Seq(Vars \X {m})
  PROVE  LET r == U!AddInTurn(h, n, uses)
         IN  \E t \in [Vars -> Nat] :
               /\ After(h, r.heap, n, t, m)
               /\ r.ok \in BOOLEAN
               /\ r.ok => t = [v \in Vars |-> UsesOfVar(uses, Len(uses), v)]
               /\ ~r.ok => \E i \in 1..Len(uses) : TooMany(h, n, uses, i, m)
  <1> DEFINE N == Len(uses)
             base == [ok |-> TRUE, heap |-> h]
             After1(r, u) == IF ~r.ok THEN r
                             ELSE IF U!Allowed(r.heap, n, u[1], u[2])
                                  THEN [ok |-> TRUE, heap |-> U!Added(r.heap, n, u[1], u[2])]
                                  ELSE [ok |-> FALSE, heap |-> r.heap]
             body(f) == [s \in SUBSET DOMAIN uses |->
                           IF s = {} THEN base ELSE After1(f[s \ {Max(s)}], uses[Max(s)])]
             it == CHOOSE f : f = body(f)
  <1>1. U!AddInTurn(h, n, uses) = it[DOMAIN uses]
    BY DEF U!AddInTurn, U!FoldLeft, U!MapThenFoldSet, Max, U!Max
  <1> DEFINE Reached == {g \in Heap : \E t \in [Vars -> Nat] : After(h, g, n, t, m)}
             S == [ok : BOOLEAN, heap : Reached]
             W == Vars \X {m}
             step == [x \in S \X W |-> After1(x[1], x[2])]
  <1>2. base \in S /\ N \in Nat /\ DOMAIN uses = 1..N /\ uses \in Seq(W)
    <2>1. [v \in Vars |-> 0] \in [Vars -> Nat]
      OBVIOUS
    <2> QED BY <2>1, AfterNothing
  \* One use more is added, or is the first not allowed.
  <1>3. ASSUME NEW r \in S, NEW u \in W
        PROVE  /\ After1(r, u) \in S
               /\ After1(r, u).ok =>
                    /\ r.ok
                    /\ \A t \in [Vars -> Nat] : After(h, r.heap, n, t, m) =>
                         After(h, After1(r, u).heap, n, [t EXCEPT ![u[1]] = @ + 1], m)
               /\ ~After1(r, u).ok => (r.ok => ~U!Allowed(r.heap, n, u[1], m))
    <2>1. r.ok \in BOOLEAN /\ r.heap \in Reached /\ u[1] \in Vars /\ u[2] = m
      OBVIOUS
    <2>2. CASE ~r.ok
      BY <2>2
    <2>3. CASE r.ok /\ U!Allowed(r.heap, n, u[1], m)
      <3>1. ASSUME NEW t \in [Vars -> Nat], After(h, r.heap, n, t, m)
            PROVE  /\ [t EXCEPT ![u[1]] = @ + 1] \in [Vars -> Nat]
                   /\ After(h, U!Added(r.heap, n, u[1], m), n, [t EXCEPT ![u[1]] = @ + 1], m)
        <4> DEFINE v == u[1]
                   g == r.heap
        <4>1. v \in Vars /\ U!Allowed(g, n, v, m) /\ After(h, g, n, t, m)
          BY <2>1, <2>3, <3>1
        <4> HIDE DEF v, g
        <4>2. [t EXCEPT ![v] = @ + 1] \in [Vars -> Nat]
          BY <4>1
        <4>3. After(h, U!Added(g, n, v, m), n, [t EXCEPT ![v] = @ + 1], m)
          BY <4>1, AfterOneMore
        <4> QED BY <4>2, <4>3 DEF v, g
      <3>2. U!Added(r.heap, n, u[1], m) \in Reached
        BY <2>1, <3>1, ZenonT(60) DEF After
      <3>3. After1(r, u) = [ok |-> TRUE, heap |-> U!Added(r.heap, n, u[1], m)]
        BY <2>1, <2>3
      <3> HIDE DEF After1, Reached
      <3> QED BY <2>3, <3>1, <3>2, <3>3
    <2>4. CASE r.ok /\ ~U!Allowed(r.heap, n, u[1], m)
      BY <2>1, <2>4
    <2> QED BY <2>1, <2>2, <2>3, <2>4
  <1> HIDE DEF base, After1, S, W, N
  <1>4. step \in [S \X W -> S]
    BY <1>3
  <1>5. \E f : f = body(f)
    <2>1. PICK f \in [SUBSET (1..N) -> S] : L!FoldsBy(f, N, base, step, uses)
      BY <1>2, <1>4, L!FoldExists DEF N
    <2>2. ASSUME NEW s \in SUBSET DOMAIN uses
          PROVE  f[s] = IF s = {} THEN base ELSE After1(f[s \ {Max(s)}], uses[Max(s)])
      <3>1. f[s] = IF s = {} THEN base ELSE step[<<f[s \ {Max(s)}], uses[Max(s)]>>]
        BY <1>2, <2>1 DEF L!FoldsBy, Max, L!Max
      <3>2. CASE s # {}
        <4>1. f[s \ {Max(s)}] \in S /\ Max(s) \in 1..N
          <5>1. s \in SUBSET (1..N) /\ s \ {Max(s)} \in SUBSET (1..N)
            BY <1>2
          <5>2. L!Max(s) \in s
            BY <1>2, <3>2, <5>1, L!GreatestOf
          <5> QED BY <5>1, <5>2 DEF Max, L!Max
        <4>2. uses[Max(s)] \in W
          BY <1>2, <4>1
        <4> QED BY <3>1, <3>2, <4>1, <4>2
      <3> QED BY <3>1, <3>2
    <2>3. f = body(f)
      BY <1>2, <2>1, <2>2
    <2> QED BY <2>3
  <1>6. it = body(it)
    <2> HIDE DEF body
    <2> QED BY <1>5
  <1> HIDE DEF it
  <1>7. it[1..0] = base /\ \A i \in 1..N : it[1..i] = After1(it[1..(i - 1)], uses[i])
    <2>1. it[1..0] = base
      <3>1. 1..0 = {} /\ {} \in SUBSET DOMAIN uses
        OBVIOUS
      <3> QED BY <1>6, <3>1
    <2>2. ASSUME NEW i \in 1..N PROVE it[1..i] = After1(it[1..(i - 1)], uses[i])
      <3>1. i \in Nat \ {0} /\ 1..i \in SUBSET DOMAIN uses /\ 1..i # {}
        <4>1. N \in Nat /\ DOMAIN uses = 1..N
          BY <1>2
        <4>2. i \in Nat \ {0} /\ 1..i \subseteq 1..N /\ 1 \in 1..i
          BY <4>1
        <4> QED BY <4>1, <4>2
      <3>2. Max(1..i) = i /\ (1..i) \ {i} = 1..(i - 1)
        BY <3>1, L!MaxUpTo DEF Max, L!Max
      <3> QED BY <1>6, <3>1, <3>2
    <2> QED BY <2>1, <2>2
  <1> DEFINE Count(i) == [v \in Vars |-> UsesOfVar(uses, i, v)]
             Good == {i \in 0..N : /\ it[1..i] \in S
                                   /\ it[1..i].ok => After(h, it[1..i].heap, n, Count(i), m)
                                   /\ ~it[1..i].ok => \E j \in 1..i : TooMany(h, n, uses, j, m)}
  <1>8. 0 \in Good
    <2>1. Count(0) = [v \in Vars |-> 0]
      BY OneMoreTime
    <2> QED BY <1>2, <1>7, <2>1, AfterNothing DEF base
  <1>9. ASSUME NEW i \in 0..(N - 1), i \in Good PROVE i + 1 \in Good
    <2>1. i \in Nat /\ i + 1 \in 1..N /\ (i + 1) - 1 = i /\ i + 1 \in 0..N
      BY <1>2
    <2>2. it[1..(i + 1)] = After1(it[1..i], uses[i + 1]) /\ uses[i + 1] \in W /\ it[1..i] \in S
      BY <1>2, <1>7, <1>9, <2>1
    <2>3. it[1..(i + 1)] \in S
      BY <1>3, <2>2
    <2>4. ASSUME it[1..(i + 1)].ok
          PROVE  After(h, it[1..(i + 1)].heap, n, Count(i + 1), m)
      <3> DEFINE v == uses[i + 1][1]
      <3>1. v \in Vars
        BY <2>2 DEF W
      <3>2. Count(i) \in [Vars -> Nat] /\ Count(i + 1) = [Count(i) EXCEPT ![v] = @ + 1]
        <4>1. \A w \in Vars : /\ UsesOfVar(uses, i, w) \in Nat
                             /\ UsesOfVar(uses, i + 1, w) =
                                  UsesOfVar(uses, i, w) + (IF v = w THEN 1 ELSE 0)
          <5> TAKE w \in Vars
          <5>1. /\ UsesOfVar(uses, i, w) \in Nat
                /\ UsesOfVar(uses, i + 1, w) =
                     UsesOfVar(uses, i, w) + (IF uses[i + 1][1] = w THEN 1 ELSE 0)
            <6> HIDE DEF body, Reached, step, Good
            <6> QED BY <2>1, OneMoreTime
          <5> QED BY <5>1
        <4> HIDE DEF v
        <4>2. Count(i) \in [Vars -> Nat] /\ Count(i + 1) \in [Vars -> Nat]
          BY <4>1
        <4>3. \A w \in Vars : Count(i + 1)[w] = Count(i)[w] + (IF v = w THEN 1 ELSE 0)
          BY <4>1
        <4> DEFINE c == Count(i)
                   d == Count(i + 1)
        <4> HIDE DEF Count, c, d
        <4>4. c \in [Vars -> Nat] /\ d \in [Vars -> Nat]
          BY <4>2 DEF c, d
        <4>5. \A w \in Vars : d[w] = [c EXCEPT ![v] = @ + 1][w]
          BY <3>1, <4>3, <4>4 DEF c, d
        <4>6. d = [c EXCEPT ![v] = @ + 1]
          BY <4>4, <4>5
        <4> QED BY <4>4, <4>6 DEF c, d
      <3>3. it[1..i].ok
        BY <1>3, <2>2, <2>4
      <3>4. After(h, it[1..i].heap, n, Count(i), m)
        BY <1>9, <3>3
      <3> HIDE DEF Count
      <3>5. After(h, After1(it[1..i], uses[i + 1]).heap, n, [Count(i) EXCEPT ![v] = @ + 1], m)
        BY <1>3, <2>2, <2>4, <3>2, <3>4
      <3> HIDE DEF v
      <3> QED BY <2>2, <3>2, <3>5
    <2>5. ASSUME ~it[1..(i + 1)].ok
          PROVE  \E j \in 1..(i + 1) : TooMany(h, n, uses, j, m)
      <3>1. CASE ~it[1..i].ok
        <4>1. PICK j \in 1..i : TooMany(h, n, uses, j, m)
          BY <1>9, <3>1
        <4> QED BY <2>1, <4>1
      <3>2. CASE it[1..i].ok
        <4> DEFINE v == uses[i + 1][1]
                   g == it[1..i].heap
                   c == U!Count(h, n, v)
                   k == UsesOfVar(uses, i, v)
        <4>1. v \in Vars /\ ~U!Allowed(g, n, v, m) /\ After(h, g, n, Count(i), m)
          <5>1. v \in Vars
            <6>1. \A u \in Vars \X {m} : u[1] \in Vars
              OBVIOUS
            <6>2. uses[i + 1] \in Vars \X {m}
              BY <2>2 DEF W
            <6> QED BY <6>1, <6>2
          <5>2. ~U!Allowed(g, n, uses[i + 1][1], m)
            BY <1>3, <2>2, <2>5, <3>2
          <5>3. After(h, g, n, Count(i), m)
            BY <1>9, <3>2
          <5> QED BY <5>1, <5>2, <5>3
        <4>2. ~(Plus(U!Count(g, n, v), Times(one, m)) <= Decl[v])
          BY <4>1, SameArithmetic DEF U!Allowed, U!NewCount
        <4> HIDE DEF v
        <4>3. U!Count(g, n, v) = Plus(c, Times(k, m)) /\ c \in Qty
          BY <4>1, CountFacts DEF After
        <4>4. k \in Nat /\ UsesOfVar(uses, i + 1, v) = k + 1 /\ m \in {one, many}
          BY <2>1, OneMoreTime DEF v, Counts
        <4>5. Plus(Plus(c, Times(k, m)), Times(one, m)) = Plus(c, Times(k + 1, m))
          BY <4>3, <4>4, Saturating
        <4>6. ~(Plus(c, Times(UsesOfVar(uses, i + 1, v), m)) <= Decl[v])
          BY <4>2, <4>3, <4>4, <4>5
        <4>7. i + 1 \in 1..(i + 1)
          BY <2>1
        <4> QED BY <4>6, <4>7 DEF TooMany, v
      <3> QED BY <3>1, <3>2
    <2> QED BY <2>1, <2>3, <2>4, <2>5
  <1>10. N \in Good
    <2> HIDE DEF Good
    <2>1. \A i \in 0..N : i \in Good
      BY <1>2, <1>8, <1>9, L!UpTo
    <2> QED BY <1>2, <2>1
  <1>11. /\ it[1..N] \in S
         /\ it[1..N].ok => After(h, it[1..N].heap, n, Count(N), m)
         /\ ~it[1..N].ok => \E j \in 1..N : TooMany(h, n, uses, j, m)
    BY <1>10
  <1>12. Count(N) \in [Vars -> Nat]
    BY <1>2, OneMoreTime
  <1> QED BY <1>1, <1>2, <1>11, <1>12 DEF S, N
\* g is h with object n replaced by x: by itself with other entries, or by a
\* new object with the same levels around it.
Replaced(h, g, n, x) ==
  /\ g \in Heap /\ DOMAIN h \subseteq DOMAIN g
  /\ x = n \/ x > Len(h)
  /\ x \in DOMAIN g /\ g[x].outer = h[n].outer
  /\ \A i \in DOMAIN h \ {n} : g[i] = h[i]

\* All of the uses or none.
LEMMA AddingAll ==
  ASSUME NEW h \in Heap, NEW n \in DOMAIN h, NEW m \in Counts,
         NEW uses \in Seq(Vars \X {m})
  PROVE  LET r == U!TryAddAll(h, n, uses)
         IN  /\ Replaced(h, r.heap, n, r.node)
             /\ r.ok => /\ r.node = n
                        /\ After(h, r.heap, n, [v \in Vars |-> UsesOfVar(uses, Len(uses), v)], m)
             /\ ~r.ok => /\ r.heap[r.node].index = h[n].index
                         /\ \A v \in Vars : U!Count(r.heap, r.node, v) = U!Count(h, n, v)
                         /\ \E i \in 1..Len(uses) : TooMany(h, n, uses, i, m)
  <1> DEFINE r == U!TryAddAll(h, n, uses)
             a == U!AddInTurn(h, n, uses)
             g == a.heap
  <1>1. PICK t \in [Vars -> Nat] : /\ After(h, g, n, t, m)
                                   /\ a.ok => t = [v \in Vars |-> UsesOfVar(uses, Len(uses), v)]
                                   /\ ~a.ok => \E i \in 1..Len(uses) : TooMany(h, n, uses, i, m)
    BY AddingInTurn
  <1>2. /\ g \in Heap /\ DOMAIN g = DOMAIN h /\ Len(g) = Len(h) /\ g[n].outer = h[n].outer
        /\ \A i \in DOMAIN h \ {n} : g[i] = h[i]
    BY <1>1 DEF After, Only
  <1>3. L!WellFormed(h, Counts) /\ h \in Seq(L!NodeOf(Counts)) /\ L!WellFormed(g, Counts)
        /\ g \in Seq(L!NodeOf(Counts))
    BY <1>2 DEF Heap
  <1>4. CASE a.ok
    <2>1. r.ok /\ r.heap = g /\ r.node = n
      BY <1>4 DEF U!TryAddAll
    <2> QED BY <1>1, <1>2, <1>4, <2>1 DEF Replaced
  <1>5. CASE ~a.ok
    <2> DEFINE x == h[n]
               f == Append(g, x)
               e == Len(g) + 1
    <2>1. ~r.ok /\ r.heap = f /\ r.node = e
      BY <1>5 DEF U!TryAddAll
    <2>2. /\ x \in L!NodeOf(Counts) /\ L!Indexed(x) /\ x.outer \in Seq(L!Level)
          /\ x.index \in [Vars -> Nat] /\ L!Absent = 0 /\ L!HasNode(h, n, x)
      BY <1>3, L!NodeParts, SameOperators DEF L!WellFormed, L!HasNode
    <2>3. L!InHeap(g, x.outer)
      BY <1>2, <1>3, L!LevelsInHeap
    <2>4. L!KeepsLevels(h, g, x.outer)
      <3>1. L!InHeap(h, x.outer)
        BY <1>3, L!LevelsInHeap
      <3>2. \A i \in DOMAIN x.outer : x.outer[i].node \in DOMAIN h /\ x.outer[i].node \in 1..(n - 1)
        BY <1>3, L!OuterNodes
      <3>3. n \in Nat
        BY <1>3
      <3>4. \A i \in DOMAIN x.outer : g[x.outer[i].node] = h[x.outer[i].node]
        BY <1>2, <3>2, <3>3
      <3> QED BY <1>3, <2>2, <3>1, <3>4, L!SameNodesSameLookups
    <2> HIDE DEF x, r, a
    <2>11. e = Len(g) + 1
      OBVIOUS
    <2>14. /\ L!WellFormed(g, Counts) /\ x \in L!NodeOf(Counts) /\ L!InHeap(g, x.outer)
           /\ L!Indexed(x) /\ f = Append(g, x)
      BY <1>3, <2>2, <2>3
    <2> HIDE DEF f, e, g
    <2>15. /\ L!WellFormed(f, Counts) /\ Len(f) = Len(g) + 1 /\ f[Len(g) + 1] = x
           /\ Len(g) + 1 \in DOMAIN f
           /\ \A i \in DOMAIN g : L!KeepsNode(g, f, i)
           /\ L!KeepsLevels(g, f, x.outer)
      BY <2>14, L!Appending
    <2>5. /\ L!WellFormed(f, Counts) /\ Len(f) = Len(g) + 1 /\ f[e] = x /\ e \in DOMAIN f
          /\ \A i \in DOMAIN g : L!KeepsNode(g, f, i)
          /\ L!KeepsLevels(g, f, x.outer)
      BY <2>11, <2>15
    <2>6. f \in Heap
      BY <2>5 DEF Heap, L!WellFormed
    <2>7. e > Len(h) /\ DOMAIN h \subseteq DOMAIN f
      <3>1. e > Len(h)
        <4>1. Len(g) = Len(h) /\ Len(h) \in Nat
          BY <1>2, <1>3
        <4> QED BY <2>11, <4>1
      <3> QED BY <1>2, <2>5, <3>1 DEF L!KeepsNode
    <2>8. \A i \in DOMAIN h \ {n} : f[i] = h[i]
      BY <1>2, <2>5 DEF L!KeepsNode
    <2>9. L!HasNode(f, e, x)
      BY <2>5 DEF L!HasNode
    <2>10. ASSUME NEW v \in Vars PROVE U!Count(f, e, v) = U!Count(h, n, v)
      <3>1. CASE x.index[v] # 0
        <4>1. L!Value(f, e, v, zero) = x.data[x.index[v]].val
          BY <2>2, <2>5, <2>9, <3>1, L!OwnOrOuter
        <4>2. L!Value(h, n, v, zero) = x.data[x.index[v]].val
          BY <1>3, <2>2, <3>1, L!OwnOrOuter
        <4> QED BY <4>1, <4>2, SameOperators
      <3>2. CASE x.index[v] = 0
        <4>1. L!Value(f, e, v, zero) = L!ValueIn(f, x.outer, v, zero)
          BY <2>2, <2>5, <2>9, <3>2, L!OwnOrOuter
        <4>2. L!Value(h, n, v, zero) = L!ValueIn(h, x.outer, v, zero)
          BY <1>3, <2>2, <3>2, L!OwnOrOuter
        <4>3. /\ L!ValueIn(f, x.outer, v, zero) = L!ValueIn(g, x.outer, v, zero)
              /\ L!ValueIn(g, x.outer, v, zero) = L!ValueIn(h, x.outer, v, zero)
          BY <2>4, <2>5 DEF L!KeepsLevels
        <4> QED BY <4>1, <4>2, <4>3, SameOperators
      <3> QED BY <3>1, <3>2
    <2>12. Replaced(h, f, n, e)
      BY <2>5, <2>6, <2>7, <2>8 DEF Replaced, x
    <2>13. f[e].index = h[n].index
      BY <2>5 DEF x
    <2> QED BY <1>1, <1>5, <2>1, <2>10, <2>12, <2>13 DEF r
  <1> QED BY <1>4, <1>5

\* Object i does not extend n.
NotVia(h, i, n) == \A j \in DOMAIN h[i].outer : h[i].outer[j].node # n

\* Object i is what it was, and is read as it was.
Stays(h, g, i) ==
  /\ i \in DOMAIN g /\ g[i] = h[i] /\ U!H!Levels(g, i) = U!H!Levels(h, i)
  /\ \A v \in Vars : U!Count(g, i, v) = U!Count(h, i, v)

LEMMA KeptStays ==
  ASSUME NEW h, NEW g, NEW i, L!KeepsNode(h, g, i)
  PROVE  Stays(h, g, i)
  <1>1. i \in DOMAIN g /\ g[i] = h[i] /\ L!Levels(g, i) = L!Levels(h, i)
    BY DEF L!KeepsNode
  <1>2. \A v \in Vars : L!Value(g, i, v, zero) = L!Value(h, i, v, zero)
    BY DEF L!KeepsNode, L!KeepsLookups
  <1>3. \A v \in Vars : U!Count(g, i, v) = U!Count(h, i, v)
    BY <1>2, SameOperators
  <1> QED BY <1>1, <1>3, SameOperators DEF Stays

\* Other objects that do not extend n are what they were.
LEMMA OthersStay ==
  ASSUME NEW h \in Heap, NEW n \in DOMAIN h, NEW g, NEW x, Replaced(h, g, n, x),
         NEW i \in DOMAIN h, i # n, NotVia(h, i, n)
  PROVE  Stays(h, g, i)
  <1>1. L!WellFormed(h, Counts) /\ i \in DOMAIN g /\ g[i] = h[i]
    BY DEF Heap, Replaced
  <1>2. \A j \in DOMAIN h[i].outer : h[i].outer[j].node \in DOMAIN h
    BY <1>1, L!OuterNodes
  <1>3. \A j \in DOMAIN h[i].outer : g[h[i].outer[j].node] = h[h[i].outer[j].node]
    BY <1>2 DEF Replaced, NotVia
  <1>4. L!KeepsNode(h, g, i)
    BY <1>1, <1>3, L!SameNodesSameNode
  <1> QED BY <1>4, KeptStays
-----------------------------------------------------------------------------
(* Changes of the stack.                                                   *)

LEMMA FrameParts ==
  ASSUME NEW fs \in Frames
  PROVE  /\ Len(fs) \in Nat /\ DOMAIN fs = 1..Len(fs)
         /\ \A i \in 1..Len(fs) :
              /\ fs[i] \in AFrame /\ fs[i].kind \in Kinds
              /\ fs[i].cur \in Nat /\ fs[i].alt \in Nat
              /\ fs[i].use \in [Vars -> Qty] /\ fs[i].saved \in [Vars -> Qty]
  <1>1. Len(fs) \in Nat /\ DOMAIN fs = 1..Len(fs) /\ \A i \in 1..Len(fs) : fs[i] \in AFrame
    BY DEF Frames
  <1> QED BY <1>1 DEF AFrame

\* What an object extends is older than the object.
LEMMA OlderThan ==
  ASSUME NEW h \in Heap, NEW fs \in Frames, Stacked(h, fs)
  PROVE  /\ \A i \in DOMAIN fs :
              /\ fs[i].cur \in DOMAIN h
              /\ \A j \in DOMAIN h[fs[i].cur].outer :
                   h[fs[i].cur].outer[j].node \in 1..(fs[i].cur - 1)
         /\ \A i \in 2..Len(fs) : /\ fs[i].alt \in DOMAIN h
                                  /\ h[fs[i].alt].outer = h[fs[i].cur].outer
  <1>1. L!WellFormed(h, Counts) /\ DOMAIN fs = 1..Len(fs) /\ Len(fs) \in Nat
    BY DEF Heap, Frames
  <1>2. ASSUME NEW i \in DOMAIN fs PROVE fs[i].cur \in DOMAIN h
    <2>1. CASE i = 1
      BY <2>1 DEF Stacked
    <2>2. CASE i # 1
      BY <1>1, <2>2 DEF Stacked, Extends
    <2> QED BY <2>1, <2>2
  <1> QED BY <1>1, <1>2, L!OuterNodes DEF Stacked, Extends

\* gs is fs but for the object and the uses of the topmost frame.
TopIs(fs, gs, x, use) ==
  /\ gs \in Frames /\ Len(gs) = Len(fs)
  /\ \A i \in 1..(Len(fs) - 1) : gs[i] = fs[i]
  /\ gs[Len(fs)].kind = fs[Len(fs)].kind /\ gs[Len(fs)].alt = fs[Len(fs)].alt
  /\ gs[Len(fs)].saved = fs[Len(fs)].saved
  /\ gs[Len(fs)].cur = x /\ gs[Len(fs)].use = use

LEMMA FrontParts ==
  ASSUME NEW fs \in Seq(AFrame), fs # <<>>
  PROVE  /\ Front(fs) \in Seq(AFrame) /\ Len(Front(fs)) = Len(fs) - 1
         /\ \A i \in 1..(Len(fs) - 1) : Front(fs)[i] = fs[i]
  <1> DEFINE N == Len(fs)
  <1>1. /\ N \in Nat \ {0} /\ N - 1 \in Nat
        /\ \A i \in 1..(N - 1) : i \in 1..N /\ fs[i] \in AFrame
    OBVIOUS
  <1>2. Front(fs) = [i \in 1..(N - 1) |-> fs[i]]
    BY <1>1 DEF Front
  <1> HIDE DEF N
  <1>3. Front(fs) \in Seq(AFrame) /\ Len(Front(fs)) = N - 1
    BY <1>1, <1>2
  <1> QED BY <1>2, <1>3 DEF N

LEMMA NewTop ==
  ASSUME NEW fs \in Frames, fs # <<>>, NEW x \in Nat, NEW use \in [Vars -> Qty]
  PROVE  /\ Last(fs) = fs[Len(fs)]
         /\ TopIs(fs, Append(Front(fs), [[Last(fs) EXCEPT !.cur = x] EXCEPT !.use = use]), x, use)
  <1> DEFINE f == fs[Len(fs)]
             e == [f EXCEPT !.cur = x]
             d == [e EXCEPT !.use = use]
             gs == Append(Front(fs), d)
  <1>1. fs # <<>> /\ fs \in Seq(AFrame) /\ Len(fs) \in Nat \ {0} /\ f \in AFrame /\ Last(fs) = f
    <2>1. fs \in Seq(AFrame) /\ Len(fs) \in Nat \ {0} /\ Len(fs) \in 1..Len(fs)
      BY DEF Frames
    <2> QED BY <2>1, FrameParts DEF Last
  <1>2. /\ Front(fs) \in Seq(AFrame) /\ Len(Front(fs)) = Len(fs) - 1
        /\ \A i \in 1..(Len(fs) - 1) : Front(fs)[i] = fs[i]
    BY <1>1, FrontParts
  <1>3. /\ d.kind = f.kind /\ d.alt = f.alt /\ d.saved = f.saved /\ d.cur = x /\ d.use = use
        /\ d \in AFrame
    BY <1>1 DEF AFrame
  <1>4. gs = Append(Front(fs), [[Last(fs) EXCEPT !.cur = x] EXCEPT !.use = use])
    BY <1>1
  <1> HIDE DEF d, f
  <1>5. /\ gs \in Seq(AFrame) /\ Len(gs) = Len(fs) /\ gs[Len(fs)] = d
        /\ \A i \in 1..(Len(fs) - 1) : gs[i] = fs[i]
    BY <1>1, <1>2, <1>3
  <1> HIDE DEF gs
  <1>6. TopIs(fs, gs, x, use)
    BY <1>3, <1>5 DEF TopIs, Frames, f
  <1> QED BY <1>1, <1>4, <1>6 DEF f

\* The object of the topmost frame may change, if its count stays exact and it
\* gets an entry only for a variable not used yet.
LEMMA TopChanges ==
  ASSUME NEW h, NEW fs, Sound(h, fs), NEW g, NEW gs, NEW x, NEW use,
         Replaced(h, g, fs[Len(fs)].cur, x), TopIs(fs, gs, x, use),
         \A v \in Vars : use[v] <= Decl[v], ExactIn(g, x, use),
         \A v \in Vars : g[x].index[v] # 0 /\ Decl[v] # many =>
            h[fs[Len(fs)].cur].index[v] # 0 \/ U!Count(h, fs[Len(fs)].cur, v) = zero
  PROVE  Sound(g, gs)
  <1> DEFINE N == Len(fs)
             n == fs[N].cur
  <1>1. /\ h \in Heap /\ fs \in Frames /\ Stacked(h, fs) /\ g \in Heap /\ gs \in Frames
        /\ N \in Nat \ {0} /\ DOMAIN fs = 1..N /\ DOMAIN gs = 1..N /\ Len(gs) = N
        /\ \A i \in 1..N : Accounted(h, fs[i])
        /\ \A i \in 1..(N - 1) : gs[i] = fs[i]
        /\ gs[N].kind = fs[N].kind /\ gs[N].alt = fs[N].alt /\ gs[N].saved = fs[N].saved
        /\ gs[N].cur = x /\ gs[N].use = use
        /\ L!WellFormed(h, Counts)
    <2>1. /\ h \in Heap /\ fs \in Frames /\ Stacked(h, fs) /\ g \in Heap
          /\ \A i \in DOMAIN fs : Accounted(h, fs[i])
      BY DEF Sound, Replaced
    <2>2. N \in Nat /\ DOMAIN fs = 1..N /\ N # 0
      BY <2>1, FrameParts DEF Stacked, Frames
    <2>3. gs \in Frames /\ Len(gs) = N
      BY DEF TopIs
    <2>4. DOMAIN gs = 1..N
      BY <2>3, FrameParts
    <2> QED BY <2>1, <2>2, <2>3, <2>4 DEF TopIs, Heap
  <1>2. \A i \in 1..N : fs[i].cur \in Nat /\ fs[i].alt \in Nat
    BY <1>1, FrameParts
  <1> HIDE DEF N
  <1>3. \A i \in 1..(N - 1) : fs[i].cur < n /\ fs[i].alt < n /\ i \in 1..N /\ i < N
    <2> TAKE i \in 1..(N - 1)
    <2>1. i \in DOMAIN fs /\ N \in DOMAIN fs /\ i < N
      BY <1>1
    <2> QED BY <1>1, <2>1 DEF Stacked, Younger
  <1>4. /\ \A i \in 1..N : /\ fs[i].cur \in DOMAIN h
                          /\ \A j \in DOMAIN h[fs[i].cur].outer :
                               h[fs[i].cur].outer[j].node \in 1..(fs[i].cur - 1)
        /\ \A i \in 2..N : fs[i].alt \in DOMAIN h /\ h[fs[i].alt].outer = h[fs[i].cur].outer
    BY <1>1, OlderThan DEF N
  <1>5. n \in DOMAIN h /\ n \in Nat /\ DOMAIN h = 1..Len(h) /\ Len(h) \in Nat
    BY <1>1, <1>2, <1>4 DEF L!WellFormed
  <1> HIDE DEF n
  <1>6. Replaced(h, g, n, x)
    BY DEF n, N
  <1>7. \A i \in 1..(N - 1) : Stays(h, g, fs[i].cur)
    <2> TAKE i \in 1..(N - 1)
    <2>1. /\ fs[i].cur \in DOMAIN h /\ fs[i].cur < n /\ fs[i].cur \in Nat /\ fs[i].cur # n
      BY <1>2, <1>3, <1>4, <1>5
    <2>2. \A j \in DOMAIN h[fs[i].cur].outer : h[fs[i].cur].outer[j].node # n
      BY <1>3, <1>4, <1>5, <2>1
    <2> DEFINE y == fs[i].cur
    <2> HIDE DEF y
    <2>3. y \in DOMAIN h /\ y # n /\ NotVia(h, y, n)
      BY <2>1, <2>2 DEF y, NotVia
    <2>4. h \in Heap /\ n \in DOMAIN h /\ Replaced(h, g, n, x)
      BY <1>1, <1>5, <1>6
    <2>5. Stays(h, g, y)
      BY <2>3, <2>4, OthersStay
    <2> QED BY <2>5 DEF y
  <1>8. \A i \in 2..N : Stays(h, g, fs[i].alt) /\ fs[i].alt # n
    <2> TAKE i \in 2..N
    <2>1. /\ fs[i].alt \in DOMAIN h /\ fs[i].alt # n /\ i \in 1..N
          /\ h[fs[i].alt].outer = h[fs[i].cur].outer /\ fs[i].cur <= n /\ fs[i].cur \in Nat
      <3>1. CASE i = N
        BY <1>1, <1>2, <1>4, <1>5, <3>1 DEF n, Stacked, N
      <3>2. CASE i # N
        BY <1>1, <1>2, <1>3, <1>4, <1>5, <3>2
      <3> QED BY <3>1, <3>2
    <2>2. \A j \in DOMAIN h[fs[i].alt].outer : h[fs[i].alt].outer[j].node # n
      BY <1>4, <1>5, <2>1
    <2> DEFINE y == fs[i].alt
    <2> HIDE DEF y
    <2>3. y \in DOMAIN h /\ y # n /\ NotVia(h, y, n)
      BY <2>1, <2>2 DEF y, NotVia
    <2>4. h \in Heap /\ n \in DOMAIN h /\ Replaced(h, g, n, x)
      BY <1>1, <1>5, <1>6
    <2>5. Stays(h, g, y)
      BY <2>3, <2>4, OthersStay
    <2> QED BY <2>1, <2>5 DEF y
  <1>9. x \in DOMAIN g /\ g[x].outer = h[n].outer /\ x \in Nat /\ (x = n \/ x > Len(h)) /\ n <= x
    <2>1. x \in DOMAIN g /\ g[x].outer = h[n].outer /\ (x = n \/ x > Len(h))
      BY <1>6 DEF Replaced
    <2>2. x \in Nat
      BY <1>1, <2>1 DEF Heap
    <2> QED BY <1>5, <2>1, <2>2
  <1>10. Stacked(g, gs)
    <2>1. gs # <<>> /\ gs[1].cur \in DOMAIN g
      <3>1. CASE N = 1
        BY <1>1, <1>9, <3>1
      <3>2. CASE N # 1
        BY <1>1, <1>7, <3>2 DEF Stays
      <3> QED BY <3>1, <3>2
    <2>2. \A i \in DOMAIN gs : (gs[i].kind = "body") = (i = 1)
      <3> SUFFICES ASSUME NEW i \in 1..N PROVE gs[i].kind = fs[i].kind
        BY <1>1 DEF Stacked
      <3> QED BY <1>1
    <2>3. ASSUME NEW i \in 2..N
          PROVE  /\ Extends(g, gs[i].cur, gs[i - 1].cur)
                 /\ Extends(g, gs[i].alt, gs[i - 1].cur)
                 /\ gs[i].cur # gs[i].alt
      <3>1. /\ Extends(h, fs[i].cur, fs[i - 1].cur) /\ Extends(h, fs[i].alt, fs[i - 1].cur)
            /\ fs[i].cur # fs[i].alt
        BY <1>1 DEF Stacked, N
      <3>2. i - 1 \in 1..(N - 1) /\ gs[i - 1].cur = fs[i - 1].cur /\ Stays(h, g, fs[i - 1].cur)
        BY <1>1, <1>7
      <3>3. gs[i].alt = fs[i].alt /\ Stays(h, g, fs[i].alt)
        BY <1>1, <1>8
      <3>4. Extends(g, gs[i].alt, gs[i - 1].cur)
        BY <3>1, <3>2, <3>3 DEF Extends, Stays
      <3>5. CASE i = N
        <4>1. gs[i].cur = x /\ fs[i].cur = n
          BY <1>1, <3>5 DEF n
        <4>2. g[x].outer = U!H!Levels(g, gs[i - 1].cur)
          BY <1>9, <3>1, <3>2, <4>1 DEF Extends, Stays
        <4>3. \A v \in Vars : g[x].index[v] # 0 /\ Decl[v] # many =>
                U!Count(g, gs[i - 1].cur, v) = zero
          <5> SUFFICES ASSUME NEW v \in Vars, g[x].index[v] # 0, Decl[v] # many
                       PROVE  U!Count(h, fs[i - 1].cur, v) = zero
            BY <3>2 DEF Stays
          <5>1. h[n].index[v] # 0 \/ U!Count(h, n, v) = zero
            BY DEF n, N
          <5>2. CASE h[n].index[v] # 0
            BY <3>1, <4>1, <5>2 DEF Extends
          <5>3. CASE h[n].index[v] = 0 /\ U!Count(h, n, v) = zero
            <6>1. h[n].outer = U!H!Levels(h, fs[i - 1].cur)
              BY <3>1, <4>1 DEF Extends
            <6>2. L!ValueIn(h, h[n].outer, v, zero) = zero
              BY <1>1, <1>5, <5>3, CountFacts
            <6>3. U!Count(h, fs[i - 1].cur, v) = L!ValueIn(h, L!Levels(h, fs[i - 1].cur), v, zero)
              BY L!ValueAlongLevels, SameOperators
            <6> QED BY <6>1, <6>2, <6>3, SameOperators
          <5> QED BY <5>1, <5>2, <5>3
        <4>4. x # gs[i].alt
          <5>1. gs[i].alt \in 1..Len(h) /\ gs[i].alt # n
            BY <1>4, <1>5, <1>8, <3>3
          <5> QED BY <1>5, <1>9, <5>1
        <4> QED BY <1>9, <3>4, <4>1, <4>2, <4>3, <4>4 DEF Extends
      <3>6. CASE i # N
        <4>1. i \in 1..(N - 1) /\ gs[i] = fs[i] /\ Stays(h, g, fs[i].cur)
          BY <1>1, <1>7, <3>6
        <4>2. Extends(g, gs[i].cur, gs[i - 1].cur)
          BY <3>1, <3>2, <4>1 DEF Extends, Stays
        <4> QED BY <3>1, <3>4, <4>1, <4>2
      <3> QED BY <3>5, <3>6
    <2>4. ASSUME NEW i \in DOMAIN gs, NEW j \in DOMAIN gs, i < j PROVE Younger(gs[j], gs[i])
      <3>1. i \in 1..(N - 1) /\ gs[i] = fs[i] /\ i \in 1..N /\ j \in 1..N
        BY <1>1, <2>4
      <3>2. Younger(fs[j], fs[i])
        BY <1>1, <2>4, <3>1 DEF Stacked
      <3>3. CASE j = N
        <4>1. gs[j].cur = x /\ gs[j].alt = fs[j].alt /\ fs[j].cur = n
          BY <1>1, <3>3 DEF n
        <4>2. fs[i].cur \in Nat /\ fs[i].alt \in Nat /\ n <= x /\ x \in Nat /\ n \in Nat
          BY <1>2, <1>5, <1>9, <3>1
        <4> QED BY <3>1, <3>2, <4>1, <4>2 DEF Younger
      <3>4. CASE j # N
        BY <1>1, <3>1, <3>2, <3>4
      <3> QED BY <3>3, <3>4
    <2> QED BY <1>1, <2>1, <2>2, <2>3, <2>4 DEF Stacked
  <1>11. ASSUME NEW i \in DOMAIN gs PROVE Accounted(g, gs[i])
    <2>1. i \in 1..N /\ Accounted(h, fs[i])
      BY <1>1
    <2>2. gs[i].kind \in {"then", "else", "left"} => ExactIn(g, gs[i].alt, gs[i].saved)
      <3> SUFFICES ASSUME gs[i].kind \in {"then", "else", "left"}
                   PROVE  ExactIn(g, gs[i].alt, gs[i].saved)
        OBVIOUS
      <3>1. gs[i].kind = fs[i].kind /\ gs[i].alt = fs[i].alt /\ gs[i].saved = fs[i].saved
        BY <1>1
      <3>2. i \in 2..N
        <4>1. i # 1
          BY <1>1, <3>1 DEF Stacked
        <4> QED BY <2>1, <4>1, <1>1
      <3>3. Stays(h, g, fs[i].alt)
        BY <1>8, <3>2
      <3> QED BY <2>1, <3>1, <3>3 DEF Accounted, ExactIn, Stays
    <2>3. CASE i = N
      BY <1>1, <2>1, <2>2, <2>3 DEF Accounted
    <2>4. CASE i # N
      <3>1. i \in 1..(N - 1) /\ gs[i] = fs[i] /\ Stays(h, g, fs[i].cur)
        BY <1>1, <1>7, <2>1, <2>4
      <3> QED BY <2>1, <2>2, <3>1 DEF Accounted, ExactIn, Stays
    <2> QED BY <2>1, <2>3, <2>4
  <1> QED BY <1>1, <1>10, <1>11 DEF Sound
-----------------------------------------------------------------------------
(* The entries of an object, and of two merged.                            *)

Entries == Seq(L!EntryOf(Counts))
KeysOf(es) == {es[i].key : i \in DOMAIN es}
Distinct(es) == \A i, j \in DOMAIN es : es[i].key = es[j].key => i = j

LEMMA OwnEntries ==
  ASSUME NEW h \in Heap, NEW n \in DOMAIN h
  PROVE  /\ h[n].data \in Entries /\ Distinct(h[n].data)
         /\ KeysOf(h[n].data) = {v \in Vars : h[n].index[v] # 0}
         /\ \A v \in Vars : h[n].index[v] # 0 =>
              h[n].index[v] \in DOMAIN h[n].data /\ h[n].data[h[n].index[v]].key = v
  <1> DEFINE data == h[n].data
             index == h[n].index
  <1>1. /\ data \in Entries /\ L!Absent = 0
        /\ \A i \in DOMAIN data : index[data[i].key] = i
        /\ \A v \in Vars : index[v] # 0 => index[v] \in DOMAIN data /\ data[index[v]].key = v
    BY L!NodeParts, SameOperators DEF Heap, L!WellFormed, L!Indexed, Entries
  <1>2. \A i \in DOMAIN data : data[i].key \in Vars /\ i # 0
    <2>1. \A i \in DOMAIN data : data[i] \in L!EntryOf(Counts) /\ i # 0
      BY <1>1 DEF Entries
    <2> QED BY <2>1 DEF L!EntryOf
  <1> HIDE DEF data, index
  <1>3. KeysOf(data) = {v \in Vars : index[v] # 0}
    BY <1>1, <1>2 DEF KeysOf
  <1>4. Distinct(data)
    BY <1>1 DEF Distinct
  <1> QED BY <1>1, <1>3, <1>4 DEF data, index

LEMMA MergedEntries ==
  ASSUME NEW h \in Heap, NEW a \in DOMAIN h, NEW b \in DOMAIN h
  PROVE  LET es == U!Merged(h, a, b)
         IN  /\ es \in Entries /\ Distinct(es)
             /\ KeysOf(es) = {v \in Vars : h[a].index[v] # 0 \/ h[b].index[v] # 0}
  <1> DEFINE inA(v) == h[a].index[v] # U!H!Absent
             inB(v) == h[b].index[v] # U!H!Absent
             both(e) == [e EXCEPT !.val = IF inB(e.key)
                           THEN U!QtyMax(@, h[b].data[h[b].index[e.key]].val) ELSE @]
             base == [i \in DOMAIN h[a].data |-> both(h[a].data[i])]
             us == h[b].data
             N == Len(us)
             E == L!EntryOf(Counts)
             S == Seq(E)
             Then(total, e) == IF inA(e.key) THEN total ELSE Append(total, e)
             body(f) == [s \in SUBSET DOMAIN us |->
                           IF s = {} THEN base ELSE Then(f[s \ {Max(s)}], us[Max(s)])]
             it == CHOOSE f : f = body(f)
             step == [x \in S \X E |-> Then(x[1], x[2])]
  <1>1. U!Merged(h, a, b) = it[DOMAIN us]
    BY DEF U!Merged, U!FoldLeft, U!MapThenFoldSet, Max, U!Max
  <1>2. /\ h[a].data \in S /\ us \in S
        /\ Distinct(h[a].data) /\ Distinct(us)
        /\ KeysOf(h[a].data) = {v \in Vars : inA(v)} /\ KeysOf(us) = {v \in Vars : inB(v)}
    <2>1. U!H!Absent = 0
      BY SameOperators
    <2>2. /\ h[a].data \in Entries /\ Distinct(h[a].data)
          /\ KeysOf(h[a].data) = {v \in Vars : h[a].index[v] # 0}
      BY OwnEntries
    <2>3. /\ us \in Entries /\ Distinct(us) /\ KeysOf(us) = {v \in Vars : h[b].index[v] # 0}
      BY OwnEntries
    <2> QED BY <2>1, <2>2, <2>3 DEF Entries
  <1>3. \A v \in Vars : inB(v) => us[h[b].index[v]] \in E
    BY <1>2, OwnEntries, SameOperators DEF Entries
  <1>4. base \in S /\ KeysOf(base) = {v \in Vars : inA(v)} /\ Distinct(base)
    <2>1. ASSUME NEW e \in E PROVE both(e) \in E /\ both(e).key = e.key
      <3>1. e.key \in Vars /\ e.val \in Counts /\ e = [key |-> e.key, val |-> e.val]
        BY DEF L!EntryOf
      <3>2. inB(e.key) => us[h[b].index[e.key]].val \in Counts
        BY <1>3, <3>1 DEF L!EntryOf
      <3> DEFINE q == IF inB(e.key) THEN QtyMax(e.val, us[h[b].index[e.key]].val) ELSE e.val
      <3>3. q \in Counts
        BY <3>1, <3>2, SameArithmetic DEF QtyMax
      <3> HIDE DEF q
      <3>4. both(e) = [key |-> e.key, val |-> q]
        BY <3>1, SameArithmetic DEF q
      <3> QED BY <3>1, <3>3, <3>4 DEF L!EntryOf
    <2> HIDE DEF both
    <2>2. \A i \in DOMAIN h[a].data : h[a].data[i] \in E
      BY <1>2
    <2>3. base \in S
      BY <1>2, <2>1, <2>2
    <2>4. DOMAIN base = DOMAIN h[a].data /\ \A i \in DOMAIN base : base[i].key = h[a].data[i].key
      BY <2>1, <2>2
    <2> HIDE DEF base
    <2> QED BY <1>2, <2>3, <2>4 DEF KeysOf, Distinct
  <1>5. N \in Nat /\ DOMAIN us = 1..N /\ \A i \in 1..N : us[i] \in E /\ us[i].key \in Vars
    <2>1. N \in Nat /\ DOMAIN us = 1..N /\ \A i \in 1..N : us[i] \in E
      BY <1>2
    <2> QED BY <2>1 DEF L!EntryOf
  <1>6. \A x \in S, e \in E : Then(x, e) \in S
    OBVIOUS
  <1> HIDE DEF inA, inB, base, us, N, Then
  <1>7. step \in [S \X E -> S] /\ \A x \in S, e \in E : step[<<x, e>>] = Then(x, e)
    BY <1>6
  <1> HIDE DEF step, E, S
  <1>8. \E f : f = body(f)
    <2>1. PICK f \in [SUBSET (1..N) -> S] : L!FoldsBy(f, N, base, step, us)
      BY <1>2, <1>4, <1>7, L!FoldExists DEF N, S
    <2>2. ASSUME NEW s \in SUBSET DOMAIN us
          PROVE  f[s] = IF s = {} THEN base ELSE Then(f[s \ {Max(s)}], us[Max(s)])
      <3>1. f[s] = IF s = {} THEN base ELSE step[<<f[s \ {Max(s)}], us[Max(s)]>>]
        BY <1>5, <2>1 DEF L!FoldsBy, Max, L!Max
      <3>2. CASE s # {}
        <4>1. s \in SUBSET (1..N) /\ s \ {Max(s)} \in SUBSET (1..N)
          BY <1>5
        <4>2. L!Max(s) \in s
          BY <1>5, <3>2, <4>1, L!GreatestOf
        <4>3. f[s \ {Max(s)}] \in S /\ us[Max(s)] \in E
          BY <1>5, <4>1, <4>2 DEF Max, L!Max
        <4> QED BY <1>7, <3>1, <4>3
      <3> QED BY <3>1, <3>2
    <2>3. f = body(f)
      BY <1>5, <2>1, <2>2
    <2> QED BY <2>3
  <1>9. it = body(it)
    <2> HIDE DEF body
    <2> QED BY <1>8
  <1> HIDE DEF it
  <1>10. it[1..0] = base /\ \A i \in 1..N : it[1..i] = Then(it[1..(i - 1)], us[i])
    <2>1. it[1..0] = base
      <3>1. 1..0 = {} /\ {} \in SUBSET DOMAIN us
        OBVIOUS
      <3> QED BY <1>9, <3>1
    <2>2. ASSUME NEW i \in 1..N PROVE it[1..i] = Then(it[1..(i - 1)], us[i])
      <3>1. i \in Nat \ {0} /\ 1..i \in SUBSET DOMAIN us /\ 1..i # {}
        <4>1. N \in Nat /\ DOMAIN us = 1..N
          BY <1>5
        <4>2. i \in Nat \ {0} /\ 1..i \subseteq 1..N /\ 1 \in 1..i
          BY <4>1
        <4> QED BY <4>1, <4>2
      <3>2. Max(1..i) = i /\ (1..i) \ {i} = 1..(i - 1)
        BY <3>1, L!MaxUpTo DEF Max, L!Max
      <3> QED BY <1>9, <3>1, <3>2
    <2> QED BY <2>1, <2>2
  <1> HIDE DEF body
  <1> DEFINE Seen(i) == {us[j].key : j \in 1..i}
             Good == {i \in 0..N : /\ it[1..i] \in S /\ Distinct(it[1..i])
                                   /\ KeysOf(it[1..i]) = {v \in Vars : inA(v)} \union Seen(i)}
  <1>11. 0 \in Good
    <2>1. Seen(0) = {}
      OBVIOUS
    <2> QED BY <1>4, <1>5, <1>10, <2>1
  <1>12. ASSUME NEW i \in 0..(N - 1), i \in Good PROVE i + 1 \in Good
    <2> DEFINE e == us[i + 1]
               x == it[1..i]
               y == it[1..(i + 1)]
    <2>1. i \in Nat /\ i + 1 \in 1..N /\ (i + 1) - 1 = i /\ i + 1 \in 0..N
      BY <1>5
    <2>2. y = Then(x, e) /\ e \in E /\ e.key \in Vars
      BY <1>5, <1>10, <2>1
    <2>3. x \in S /\ Distinct(x) /\ KeysOf(x) = {v \in Vars : inA(v)} \union Seen(i)
      BY <1>12
    <2>4. Seen(i + 1) = Seen(i) \union {e.key} /\ e.key \notin Seen(i)
      <3>1. 1..(i + 1) = 1..i \union {i + 1} /\ \A j \in 1..i : j \in 1..N /\ j # i + 1
        <4>1. i \in Nat /\ N \in Nat /\ i + 1 <= N
          BY <1>5, <2>1
        <4> QED BY <4>1
      <3>2. Seen(i + 1) = Seen(i) \union {e.key}
        BY <3>1
      <3>3. \A j \in 1..i : us[j].key # e.key
        BY <1>2, <1>5, <2>1, <3>1 DEF Distinct
      <3> QED BY <3>2, <3>3
    <2> HIDE DEF Seen, e, x, y
    <2>5. CASE inA(e.key)
      <3>1. y = x
        BY <2>2, <2>5 DEF Then
      <3>2. KeysOf(x) = {v \in Vars : inA(v)} \union Seen(i + 1)
        BY <2>2, <2>3, <2>4, <2>5
      <3> QED BY <2>1, <2>3, <3>1, <3>2 DEF y
    <2>6. CASE ~inA(e.key)
      <3>1. y = Append(x, e)
        BY <2>2, <2>6 DEF Then
      <3>2. e.key \notin KeysOf(x)
        BY <2>3, <2>4, <2>6
      <3>3. /\ y \in S /\ DOMAIN y = DOMAIN x \union {Len(x) + 1} /\ Len(x) + 1 \notin DOMAIN x
            /\ y[Len(x) + 1] = e /\ \A j \in DOMAIN x : y[j] = x[j]
        BY <2>2, <2>3, <3>1 DEF S
      <3> DEFINE l == Len(x) + 1
      <3> HIDE DEF l
      <3>4. /\ DOMAIN y = DOMAIN x \union {l} /\ l \notin DOMAIN x
            /\ y[l] = e /\ \A j \in DOMAIN x : y[j] = x[j]
        BY <3>3 DEF l
      <3>5. KeysOf(y) = KeysOf(x) \union {e.key}
        BY <3>4 DEF KeysOf
      <3>6. \A j \in DOMAIN x : x[j].key # e.key
        BY <3>2 DEF KeysOf
      <3>7. Distinct(y)
        BY <2>3, <3>4, <3>6 DEF Distinct
      <3> QED BY <2>1, <2>3, <2>4, <3>3, <3>5, <3>7 DEF y
    <2> QED BY <2>5, <2>6
  <1>13. N \in Good
    <2> HIDE DEF Good
    <2>1. \A i \in 0..N : i \in Good
      BY <1>5, <1>11, <1>12, L!UpTo
    <2> QED BY <1>5, <2>1
  <1>14. Seen(N) = KeysOf(us)
    BY <1>5 DEF KeysOf
  <1> QED BY <1>1, <1>2, <1>5, <1>13, <1>14, SameOperators DEF S, E, Entries, inA, inB
-----------------------------------------------------------------------------
(* Committing the uses of a frame to the object outside.                   *)

LEMMA PrefixSound ==
  ASSUME NEW h, NEW fs, Sound(h, fs), NEW i \in 1..Len(fs)
  PROVE  Sound(h, SubSeq(fs, 1, i)) /\ Len(SubSeq(fs, 1, i)) = i
         /\ \A j \in 1..i : SubSeq(fs, 1, i)[j] = fs[j]
  <1> DEFINE gs == SubSeq(fs, 1, i)
  <1>1. /\ h \in Heap /\ fs \in Frames /\ Stacked(h, fs) /\ DOMAIN fs = 1..Len(fs)
        /\ Len(fs) \in Nat /\ i \in Nat \ {0}
        /\ \A j \in DOMAIN fs : Accounted(h, fs[j])
    BY DEF Sound, Frames
  <1>2. gs \in Frames /\ Len(gs) = i /\ \A j \in 1..i : gs[j] = fs[j] /\ j \in DOMAIN fs
    BY <1>1 DEF Frames
  <1>3. DOMAIN gs = 1..i /\ gs # <<>>
    BY <1>1, <1>2 DEF Frames
  <1> HIDE DEF gs
  <1>4. \A j \in 2..i : j - 1 \in 1..i /\ j \in 1..i /\ j \in 2..Len(fs)
    BY <1>1
  <1>5. 1 \in 1..i
    BY <1>1
  <1>6. Stacked(h, gs)
    BY <1>1, <1>2, <1>3, <1>4, <1>5 DEF Stacked
  <1> QED BY <1>1, <1>2, <1>3, <1>6 DEF Sound, gs

\* What the entries of an object say, if it has the count u and extends p.
LEMMA EntriesSay ==
  ASSUME NEW h \in Heap, NEW p \in DOMAIN h, NEW x, Extends(h, x, p),
         NEW u \in [Vars -> Qty], ExactIn(h, x, u), NEW v \in Vars, u[v] <= Decl[v]
  PROVE  /\ h[x].index[v] # 0 => IF Decl[v] = many THEN u[v] # zero
                                 ELSE u[v] = one /\ Decl[v] = one /\ U!Count(h, p, v) = zero
         /\ h[x].index[v] = 0 => IF Decl[v] = many
                                 THEN (u[v] = zero) = (U!Count(h, p, v) = zero)
                                 ELSE u[v] = U!Count(h, p, v)
  <1>1. /\ x \in DOMAIN h /\ h[x].outer = L!Levels(h, p) /\ Decl[v] \in Qty /\ u[v] \in Qty
        /\ h[x].index[v] # 0 /\ Decl[v] # many => U!Count(h, p, v) = zero
    BY DeclAssumption, SameOperators DEF Extends
  <1>2. IF Decl[v] = many THEN (U!Count(h, x, v) = zero) = (u[v] = zero)
        ELSE U!Count(h, x, v) = u[v]
    BY DEF ExactIn
  <1>3. CASE h[x].index[v] # 0
    <2>1. U!Count(h, x, v) \in Counts
      BY <1>1, <1>3, CountFacts
    <2> QED BY <1>1, <1>2, <1>3, <2>1 DEF Counts, Qty, zero, one, many
  <1>4. CASE h[x].index[v] = 0
    <2>1. U!Count(h, x, v) = L!ValueIn(h, L!Levels(h, p), v, zero)
      BY <1>1, <1>4, CountFacts
    <2>2. U!Count(h, p, v) = L!ValueIn(h, L!Levels(h, p), v, zero)
      BY L!ValueAlongLevels, SameOperators
    <2> QED BY <1>2, <1>4, <2>1, <2>2
  <1> QED BY <1>3, <1>4

\* Each variable with an entry is used one time.
LEMMA DirectUsesOnce ==
  ASSUME NEW es \in Entries, Distinct(es)
  PROVE  LET uses == U!DirectUses(es)
         IN  /\ uses \in Seq(Vars \X {one}) /\ Len(uses) = Len(es)
             /\ \A i \in 1..Len(uses) :
                  uses[i][1] = es[i].key /\ UsesOfVar(uses, i, uses[i][1]) = 1
             /\ \A v \in KeysOf(es) : UsesOfVar(uses, Len(uses), v) = 1
             /\ \A v \in Vars \ KeysOf(es) : UsesOfVar(uses, Len(uses), v) = 0
  <1> DEFINE uses == U!DirectUses(es)
             N == Len(es)
  <1>1. N \in Nat /\ DOMAIN es = 1..N /\ \A i \in 1..N : es[i].key \in Vars
    <2>1. N \in Nat /\ DOMAIN es = 1..N /\ \A i \in 1..N : es[i] \in L!EntryOf(Counts)
      BY DEF Entries
    <2> QED BY <2>1 DEF L!EntryOf
  <1>2. uses = [i \in 1..N |-> <<es[i].key, one>>]
    BY <1>1, SameArithmetic DEF U!DirectUses
  <1> HIDE DEF N
  <1>3. uses \in Seq(Vars \X {one}) /\ Len(uses) = N /\ DOMAIN uses = 1..N
    BY <1>1, <1>2
  <1>4. \A i \in 1..N : uses[i][1] = es[i].key
    BY <1>2
  <1> HIDE DEF uses
  <1>5. ASSUME NEW i \in 0..N, NEW k \in 1..i PROVE UsesOfVar(uses, i, es[k].key) = 1
    <2>1. \A j \in 1..i : j \in 1..N
      BY <1>1
    <2>2. {j \in 1..i : uses[j][1] = es[k].key} = {k}
      BY <1>1, <1>4, <2>1 DEF Distinct
    <2> QED BY <2>2, FS_Singleton DEF UsesOfVar
  <1>6. ASSUME NEW v \in Vars \ KeysOf(es) PROVE UsesOfVar(uses, N, v) = 0
    <2>1. {j \in 1..N : uses[j][1] = v} = {}
      BY <1>1, <1>4 DEF KeysOf
    <2> QED BY <2>1, FS_EmptySet DEF UsesOfVar
  <1>7. \A i \in 1..N : i \in 0..N /\ i \in 1..i /\ N \in 0..N
    BY <1>1
  <1>8. \A i \in 1..N : UsesOfVar(uses, i, uses[i][1]) = 1
    BY <1>4, <1>5, <1>7
  <1>9. \A v \in KeysOf(es) : UsesOfVar(uses, N, v) = 1
    BY <1>1, <1>5, <1>7 DEF KeysOf
  <1> QED BY <1>3, <1>4, <1>6, <1>8, <1>9 DEF uses, N

\* What the entries of a frame must say for the object outside, once they are
\* added to it, to have the count `use`.
Covers(h, p, es, use) ==
  \A v \in Vars :
    IF v \in KeysOf(es)
    THEN IF Decl[v] = many THEN use[v] # zero
         ELSE use[v] = one /\ Decl[v] = one /\ U!Count(h, p, v) = zero
    ELSE IF Decl[v] = many THEN (use[v] = zero) = (U!Count(h, p, v) = zero)
         ELSE use[v] = U!Count(h, p, v)

\* Committing never fails and keeps the accounts exact.
LEMMA Commits ==
  ASSUME NEW h, NEW fs, Sound(h, fs), NEW es \in Entries, Distinct(es),
         NEW use \in [Vars -> Qty], \A v \in Vars : use[v] <= Decl[v],
         Covers(h, Last(fs).cur, es, use)
  PROVE  LET r == U!TryAddAll(h, Last(fs).cur, U!DirectUses(es))
         IN  /\ r.ok
             /\ Sound(r.heap, Append(Front(fs), [[Last(fs) EXCEPT !.cur = r.node] EXCEPT !.use = use]))
  <1> DEFINE p == Last(fs).cur
             uses == U!DirectUses(es)
             r == U!TryAddAll(h, p, uses)
             gs == Append(Front(fs), [[Last(fs) EXCEPT !.cur = r.node] EXCEPT !.use = use])
             t == [v \in Vars |-> UsesOfVar(uses, Len(uses), v)]
  <1>1. /\ h \in Heap /\ fs \in Frames /\ Stacked(h, fs) /\ fs # <<>>
        /\ Last(fs) = fs[Len(fs)] /\ Len(fs) \in DOMAIN fs
    BY DEF Sound, Stacked, Frames, Last
  <1>2. p \in DOMAIN h /\ p \in Nat
    BY <1>1, OlderThan DEF Heap
  <1>3. /\ uses \in Seq(Vars \X {one}) /\ Len(uses) = Len(es)
        /\ \A i \in 1..Len(uses) : uses[i][1] = es[i].key /\ UsesOfVar(uses, i, uses[i][1]) = 1
        /\ \A v \in KeysOf(es) : UsesOfVar(uses, Len(uses), v) = 1
        /\ \A v \in Vars \ KeysOf(es) : UsesOfVar(uses, Len(uses), v) = 0
    BY DirectUsesOnce
  <1> HIDE DEF uses, p
  <1>4. \A v \in Vars : U!Count(h, p, v) \in Qty /\ Decl[v] \in Qty
    BY <1>1, <1>2, CountFacts, DeclAssumption
  <1>5. \A i \in 1..Len(uses) : ~TooMany(h, p, uses, i, one)
    <2> SUFFICES ASSUME NEW v \in KeysOf(es), v \in Vars
                 PROVE  Plus(U!Count(h, p, v), Times(1, one)) <= Decl[v]
      <3>1. \A i \in 1..Len(uses) : uses[i][1] \in KeysOf(es) /\ uses[i][1] \in Vars
        <4>1. DOMAIN es = 1..Len(uses) /\ \A i \in DOMAIN es : es[i] \in L!EntryOf(Counts)
          BY <1>3 DEF Entries
        <4>2. \A i \in DOMAIN es : es[i].key \in Vars
          BY <4>1 DEF L!EntryOf
        <4> QED BY <1>3, <4>1, <4>2 DEF KeysOf
      <3> QED BY <1>3, <3>1 DEF TooMany
    <2>1. IF Decl[v] = many THEN TRUE ELSE Decl[v] = one /\ U!Count(h, p, v) = zero
      BY DEF Covers, p
    <2> QED BY <1>4, <2>1 DEF Plus, Times, Qty, zero, one, many
  <1>6. /\ Replaced(h, r.heap, p, r.node)
        /\ r.ok /\ r.node = p /\ After(h, r.heap, p, t, one)
    BY <1>1, <1>2, <1>3, <1>5, AddingAll DEF Counts
  <1> HIDE DEF r
  <1>7. ASSUME NEW v \in Vars
        PROVE  U!Count(r.heap, p, v) = IF v \in KeysOf(es) THEN Plus(U!Count(h, p, v), 1)
                                       ELSE U!Count(h, p, v)
    <2>1. U!Count(r.heap, p, v) = Plus(U!Count(h, p, v), Times(t[v], one))
      BY <1>6 DEF After
    <2>2. t[v] = IF v \in KeysOf(es) THEN 1 ELSE 0
      BY <1>3
    <2> HIDE DEF t
    <2> QED BY <1>4, <2>1, <2>2 DEF Plus, Times, Qty, zero, one, many
  <1>8. ExactIn(r.heap, p, use)
    <2> SUFFICES ASSUME NEW v \in Vars
                 PROVE  LET c == U!Count(r.heap, p, v)
                        IN  IF Decl[v] = many THEN (c = zero) = (use[v] = zero) ELSE c = use[v]
      BY DEF ExactIn
    <2>1. CASE v \in KeysOf(es)
      <3>1. IF Decl[v] = many THEN use[v] # zero ELSE use[v] = one /\ U!Count(h, p, v) = zero
        BY <2>1 DEF Covers, p
      <3> QED BY <1>4, <1>7, <2>1, <3>1 DEF Plus, Qty, zero, one, many
    <2>2. CASE v \notin KeysOf(es)
      <3>1. IF Decl[v] = many THEN (use[v] = zero) = (U!Count(h, p, v) = zero)
            ELSE use[v] = U!Count(h, p, v)
        BY <2>2 DEF Covers, p
      <3> QED BY <1>7, <2>2, <3>1
    <2> QED BY <2>1, <2>2
  <1>9. ASSUME NEW v \in Vars, r.heap[p].index[v] # 0, Decl[v] # many
        PROVE  h[p].index[v] # 0 \/ U!Count(h, p, v) = zero
    <2>1. CASE v \in KeysOf(es)
      BY <1>9, <2>1 DEF Covers, p
    <2>2. CASE v \notin KeysOf(es)
      BY <1>3, <1>6, <1>9, <2>2 DEF After
    <2> QED BY <2>1, <2>2
  <1>10. TopIs(fs, gs, p, use)
    BY <1>1, <1>2, <1>6, NewTop, Zenon
  <1> HIDE DEF gs
  <1>11. p = fs[Len(fs)].cur
    BY <1>1 DEF p
  <1>12. Sound(r.heap, gs)
    BY <1>6, <1>8, <1>9, <1>10, <1>11, TopChanges
  <1> QED BY <1>6, <1>12 DEF r, gs, p, uses
-----------------------------------------------------------------------------
(* The other changes of the stack.                                         *)

\* gs is fs but for the topmost frame, which goes on with its other object.
LEMMA OtherObject ==
  ASSUME NEW h, NEW fs, Sound(h, fs), fs[Len(fs)].kind # "body",
         NEW gs \in Frames, Len(gs) = Len(fs), \A i \in 1..(Len(fs) - 1) : gs[i] = fs[i],
         gs[Len(fs)].cur = fs[Len(fs)].alt, gs[Len(fs)].alt = fs[Len(fs)].cur,
         gs[Len(fs)].kind # "body", Accounted(h, gs[Len(fs)])
  PROVE  Sound(h, gs)
  <1> DEFINE N == Len(fs)
  <1>1. /\ h \in Heap /\ fs \in Frames /\ Stacked(h, fs)
        /\ N \in Nat \ {0} /\ DOMAIN fs = 1..N /\ DOMAIN gs = 1..N /\ Len(gs) = N
        /\ \A i \in 1..N : Accounted(h, fs[i])
    <2>1. /\ h \in Heap /\ fs \in Frames /\ Stacked(h, fs)
          /\ \A i \in DOMAIN fs : Accounted(h, fs[i])
      BY DEF Sound
    <2>2. N \in Nat /\ DOMAIN fs = 1..N /\ N # 0
      BY <2>1, FrameParts DEF Stacked, Frames
    <2>3. DOMAIN gs = 1..N
      BY FrameParts
    <2> QED BY <2>1, <2>2, <2>3
  <1> HIDE DEF N
  <1>2. N \in 2..N /\ 1 \in 1..(N - 1) /\ N \in 1..N
    <2>1. fs[N].kind # "body"
      BY DEF N
    <2>3. N \in 1..N
      BY <1>1
    <2>2. N # 1
      BY <1>1, <2>1, <2>3 DEF Stacked
    <2> QED BY <1>1, <2>2, <2>3
  <1>3. \A i \in 1..N : i = N \/ i \in 1..(N - 1)
    BY <1>1
  <1>4. \A i \in 1..(N - 1) : gs[i] = fs[i] /\ i \in 1..N /\ i # N
    <2>1. \A i \in 1..(N - 1) : gs[i] = fs[i]
      BY DEF N
    <2> QED BY <1>1, <2>1
  <1>5. /\ gs[N].cur = fs[N].alt /\ gs[N].alt = fs[N].cur /\ gs[N].kind # "body"
        /\ Accounted(h, gs[N]) /\ fs[N].kind # "body"
    BY DEF N
  <1>6. ASSUME NEW i \in 2..N
        PROVE  /\ Extends(h, gs[i].cur, gs[i - 1].cur) /\ Extends(h, gs[i].alt, gs[i - 1].cur)
               /\ gs[i].cur # gs[i].alt
    <2>1. i - 1 \in 1..(N - 1) /\ i \in 1..N
      BY <1>1
    <2>2. /\ Extends(h, fs[i].cur, fs[i - 1].cur) /\ Extends(h, fs[i].alt, fs[i - 1].cur)
          /\ fs[i].cur # fs[i].alt
      BY <1>1 DEF Stacked, N
    <2> QED BY <1>3, <1>4, <1>5, <2>1, <2>2
  <1>7. ASSUME NEW i \in 1..N, NEW j \in 1..N, i < j PROVE Younger(gs[j], gs[i])
    <2>1. i \in 1..(N - 1) /\ gs[i] = fs[i]
      BY <1>1, <1>4, <1>7
    <2>2. Younger(fs[j], fs[i])
      BY <1>1, <1>7 DEF Stacked
    <2> QED BY <1>3, <1>4, <1>5, <2>1, <2>2 DEF Younger
  <1>8. \A i \in 1..N : Accounted(h, gs[i]) /\ (gs[i].kind = "body") = (i = 1)
    <2>1. \A i \in 1..N : (fs[i].kind = "body") = (i = 1)
      BY <1>1 DEF Stacked
    <2> QED BY <1>1, <1>2, <1>3, <1>4, <1>5, <2>1
  <1>9. gs # <<>> /\ gs[1].cur \in DOMAIN h
    BY <1>1, <1>2, <1>4 DEF Stacked
  <1>10. Stacked(h, gs)
    BY <1>1, <1>6, <1>7, <1>8, <1>9 DEF Stacked
  <1> QED BY <1>1, <1>8, <1>10 DEF Sound

LEMMA GivingUp ==
  ASSUME NEW h, NEW fs, Sound(h, fs), NEW why, GiveUp(fs, why)
  PROVE  Sound(h, frames') \/ UNCHANGED frames
  <1> DEFINE lefts == {i \in DOMAIN fs : fs[i].kind = "left"}
             i == Max(lefts)
             es == SubSeq(fs, 1, i)
             d == [kind |-> "right", cur |-> es[i].alt, alt |-> es[i].cur,
                   use |-> es[i].saved, saved |-> es[i].saved]
  <1> SUFFICES ASSUME lefts # {} PROVE Sound(h, frames')
    BY DEF GiveUp
  <1>1. frames' = [es EXCEPT ![i] = d]
    BY DEF GiveUp
  <1>2. i \in lefts
    <2>1. lefts \in SUBSET (1..Len(fs)) /\ Len(fs) \in Nat
      BY DEF Sound, Frames
    <2> HIDE DEF lefts
    <2>2. L!Max(lefts) \in lefts
      BY <2>1, L!GreatestOf
    <2> QED BY <2>2 DEF Max, L!Max
  <1>3. i \in 1..Len(fs) /\ i \in Nat \ {0} /\ fs[i].kind = "left"
    BY <1>2 DEF Sound, Frames
  <1> HIDE DEF lefts, i
  <1>4. Sound(h, es) /\ Len(es) = i /\ \A j \in 1..i : es[j] = fs[j]
    BY <1>3, PrefixSound
  <1> HIDE DEF es
  <1>5. /\ es \in Frames /\ DOMAIN es = 1..i /\ i \in 1..i /\ es[i].kind = "left"
        /\ Accounted(h, es[i])
    <2>1. es \in Frames /\ i \in 1..i
      BY <1>3, <1>4 DEF Sound
    <2>2. DOMAIN es = 1..i
      BY <1>4, <2>1, FrameParts
    <2> QED BY <1>3, <1>4, <2>1, <2>2 DEF Sound
  <1>6. /\ es[i].cur \in Nat /\ es[i].alt \in Nat /\ es[i].saved \in [Vars -> Qty]
    BY <1>4, <1>5, FrameParts
  <1>7. d \in AFrame
    BY <1>6 DEF Kinds, AFrame
  <1>8. Accounted(h, d)
    BY <1>5 DEF Accounted
  <1>9. d.cur = es[i].alt /\ d.alt = es[i].cur /\ d.kind = "right"
    OBVIOUS
  <1> HIDE DEF d
  <1>10. /\ frames' \in Frames /\ Len(frames') = i /\ frames'[i] = d
         /\ \A j \in 1..(i - 1) : frames'[j] = es[j]
    <2>1. es \in Seq(AFrame) /\ i \in 1..Len(es) /\ Len(es) = i
      BY <1>4, <1>5 DEF Frames
    <2>2. frames' \in Seq(AFrame) /\ Len(frames') = i /\ frames'[i] = d
          /\ \A j \in 1..(i - 1) : frames'[j] = es[j]
      BY <1>1, <1>3, <1>7, <2>1
    <2> QED BY <2>2 DEF Frames
  <1> QED BY <1>4, <1>5, <1>8, <1>9, <1>10, OtherObject

\* A new object that extends n.
LEMMA NewChild ==
  ASSUME NEW h, L!WellFormed(h, Counts), NEW n \in DOMAIN h
  PROVE  LET g == Append(h, L!ChildNode(h, n))
             e == Len(h) + 1
         IN  /\ L!WellFormed(g, Counts) /\ Len(g) = e /\ e \in DOMAIN g
             /\ g[e].outer = L!Levels(h, n) /\ \A v \in Vars : g[e].index[v] = 0
             /\ \A m \in DOMAIN h : L!KeepsNode(h, g, m)
             /\ \A v \in Vars : U!Count(g, e, v) = U!Count(h, n, v)
  <1> DEFINE g == Append(h, L!ChildNode(h, n))
  <1>1. g = Append(h, L!ChildNode(h, n))
    OBVIOUS
  <1> HIDE DEF g
  <1>2. /\ L!WellFormed(g, Counts) /\ Len(g) = Len(h) + 1 /\ Len(h) + 1 \in DOMAIN g
        /\ g[Len(h) + 1].outer = L!Levels(h, n)
        /\ \A v \in Vars : g[Len(h) + 1].index[v] = L!Absent
        /\ \A m \in DOMAIN h : L!KeepsNode(h, g, m)
        /\ \A v \in Vars : L!Value(g, Len(h) + 1, v, zero) = L!Value(h, n, v, zero)
    <2>1. L!ChildAdded(h, Append(h, L!ChildNode(h, n)), n, Counts)
      BY L!ChildSees
    <2>2. L!ChildAdded(h, g, n, Counts)
      BY <1>1, <2>1
    <2> QED BY <2>2 DEF L!ChildAdded
  <1>3. \A v \in Vars : U!Count(g, Len(h) + 1, v) = U!Count(h, n, v)
    BY <1>2, SameOperators
  <1> QED BY <1>2, <1>3, SameOperators DEF g

\* Two new objects extend the current one.
LEMMA Pushing ==
  ASSUME NEW h, NEW fs, Sound(h, fs), NEW kind \in Kinds \ {"body"}, NEW use \in [Vars -> Qty],
         use = Last(fs).use
  PROVE  Sound(h \o <<U!H!ChildNode(h, Last(fs).cur), U!H!ChildNode(h, Last(fs).cur)>>,
               Append(fs, [kind |-> kind, cur |-> Len(h) + 1, alt |-> Len(h) + 2,
                           use |-> use, saved |-> use]))
  <1> DEFINE N == Len(fs)
             n == Last(fs).cur
             c == L!ChildNode(h, n)
             g1 == Append(h, c)
             g == Append(g1, L!ChildNode(g1, n))
             a == Len(h) + 1
             b == Len(h) + 2
             d == [kind |-> kind, cur |-> a, alt |-> b, use |-> use, saved |-> use]
             gs == Append(fs, d)
  <1>1. /\ h \in Heap /\ fs \in Frames /\ Stacked(h, fs) /\ DOMAIN fs = 1..N
        /\ N \in Nat \ {0} /\ n = fs[N].cur /\ use = fs[N].use
        /\ \A i \in 1..N : Accounted(h, fs[i])
        /\ L!WellFormed(h, Counts) /\ h \in Seq(L!NodeOf(Counts))
        /\ Len(h) \in Nat /\ DOMAIN h = 1..Len(h)
    BY DEF Sound, Frames, Stacked, Heap, Last
  <1>2. n \in DOMAIN h
    BY <1>1, OlderThan
  <1> HIDE DEF n
  <1>3. /\ L!WellFormed(g1, Counts) /\ Len(g1) = a /\ a \in DOMAIN g1
        /\ g1[a].outer = L!Levels(h, n) /\ \A v \in Vars : g1[a].index[v] = 0
        /\ \A m \in DOMAIN h : L!KeepsNode(h, g1, m)
        /\ \A v \in Vars : U!Count(g1, a, v) = U!Count(h, n, v)
    <2>1. L!WellFormed(h, Counts) /\ n \in DOMAIN h
      BY <1>1, <1>2
    <2> QED BY <2>1, NewChild
  <1>4. /\ n \in DOMAIN g1 /\ L!Levels(g1, n) = L!Levels(h, n)
        /\ \A v \in Vars : U!Count(g1, n, v) = U!Count(h, n, v)
    <2>1. L!KeepsNode(h, g1, n)
      BY <1>2, <1>3
    <2>2. Stays(h, g1, n)
      BY <2>1, KeptStays
    <2>3. U!H!Levels(g1, n) = L!Levels(g1, n) /\ U!H!Levels(h, n) = L!Levels(h, n)
      BY SameOperators
    <2> QED BY <2>2, <2>3 DEF Stays
  <1>5. c = L!ChildNode(g1, n)
    BY <1>4 DEF L!ChildNode
  <1>6. /\ c \in L!NodeOf(Counts)
        /\ h \o <<U!H!ChildNode(h, n), U!H!ChildNode(h, n)>> = g
    <2>1. U!H!ChildNode(h, n) = c
      BY SameOperators
    <2>2. c \in L!NodeOf(Counts)
      <3>1. L!Levels(h, n) \in Seq(L!Level)
        BY <1>1, <1>2, L!LevelNodes
      <3> QED BY <3>1 DEF L!ChildNode, L!EmptyNode, L!NodeOf, L!Absent
    <2> HIDE DEF c
    <2>3. h \o <<c, c>> = Append(Append(h, c), c)
      BY <1>1, <2>2
    <2> QED BY <1>5, <2>1, <2>2, <2>3
  <1> HIDE DEF g1, c
  <1>7. /\ L!WellFormed(g, Counts) /\ Len(g) = b /\ b \in DOMAIN g
        /\ g[b].outer = L!Levels(g1, n) /\ \A v \in Vars : g[b].index[v] = 0
        /\ \A m \in DOMAIN g1 : L!KeepsNode(g1, g, m)
        /\ \A v \in Vars : U!Count(g, b, v) = U!Count(g1, n, v)
    <2>1. b = Len(g1) + 1
      BY <1>1, <1>3
    <2>2. L!WellFormed(g1, Counts) /\ n \in DOMAIN g1
      BY <1>3, <1>4
    <2> DEFINE k == Append(g1, L!ChildNode(g1, n))
               e == Len(g1) + 1
    <2>3. /\ L!WellFormed(k, Counts) /\ Len(k) = e /\ e \in DOMAIN k
          /\ k[e].outer = L!Levels(g1, n) /\ \A v \in Vars : k[e].index[v] = 0
          /\ \A m \in DOMAIN g1 : L!KeepsNode(g1, k, m)
          /\ \A v \in Vars : U!Count(k, e, v) = U!Count(g1, n, v)
      BY <2>2, NewChild
    <2> HIDE DEF k
    <2>4. g = k
      BY DEF k
    <2> HIDE DEF g
    <2> QED BY <2>1, <2>3, <2>4
  <1> HIDE DEF g
  <1>8. \A m \in DOMAIN h : Stays(h, g, m)
    <2> TAKE m \in DOMAIN h
    <2>1. L!KeepsNode(h, g1, m)
      BY <1>3
    <2>2. Stays(h, g1, m)
      BY <2>1, KeptStays
    <2>3. m \in DOMAIN g1
      BY <2>2 DEF Stays
    <2>4. L!KeepsNode(g1, g, m)
      BY <1>7, <2>3
    <2>5. Stays(g1, g, m)
      BY <2>4, KeptStays
    <2> QED BY <2>2, <2>5 DEF Stays
  <1>9. /\ a \in DOMAIN g /\ g[a] = g1[a]
        /\ \A v \in Vars : U!Count(g, a, v) = U!Count(g1, a, v)
    <2>1. L!KeepsNode(g1, g, a)
      BY <1>3, <1>7
    <2> QED BY <2>1, KeptStays DEF Stays
  <1>10. /\ g \in Heap
    BY <1>7 DEF Heap, L!WellFormed
  <1>11. Extends(g, a, n) /\ Extends(g, b, n) /\ a # b
    <2>1. U!H!Levels(g, n) = L!Levels(h, n) /\ \A v \in Vars : U!Count(g, n, v) = U!Count(h, n, v)
      BY <1>2, <1>8, SameOperators DEF Stays
    <2>2. g[a].outer = L!Levels(h, n) /\ \A v \in Vars : g[a].index[v] = 0
      BY <1>3, <1>9
    <2>3. g[b].outer = L!Levels(h, n) /\ \A v \in Vars : g[b].index[v] = 0
      BY <1>4, <1>7
    <2>4. a \in DOMAIN g /\ b \in DOMAIN g /\ a # b
      BY <1>1, <1>7, <1>9
    <2> HIDE DEF a, b
    <2> QED BY <2>1, <2>2, <2>3, <2>4 DEF Extends
  <1>12. /\ gs \in Frames /\ Len(gs) = N + 1 /\ gs[N + 1] = d /\ DOMAIN gs = 1..(N + 1)
         /\ \A i \in 1..N : gs[i] = fs[i]
    <2>1. d \in AFrame
      BY <1>1 DEF AFrame
    <2> HIDE DEF d
    <2>2. fs \in Seq(AFrame)
      BY <1>1 DEF Frames
    <2>3. gs \in Seq(AFrame) /\ Len(gs) = N + 1 /\ gs[N + 1] = d /\ DOMAIN gs = 1..(N + 1)
          /\ \A i \in 1..N : gs[i] = fs[i]
      BY <1>1, <2>1, <2>2
    <2> QED BY <2>3 DEF Frames
  <1>13. d.cur = a /\ d.alt = b /\ d.use = use /\ d.saved = use /\ d.kind # "body"
    OBVIOUS
  <1> HIDE DEF gs, d, N
  <1>14. \A i \in 1..N : fs[i].cur \in DOMAIN h /\ (i # 1 => fs[i].alt \in DOMAIN h)
    BY <1>1, OlderThan DEF N
  <1>15. \A i \in 1..(N + 1) : i = N + 1 \/ i \in 1..N
    BY <1>1
  <1>16. Stacked(g, gs)
    <2>1. gs # <<>> /\ gs[1].cur \in DOMAIN g /\ gs[1].alt = 0
      <3>1. gs[1] = fs[1] /\ fs[1].alt = 0 /\ fs[1].cur \in DOMAIN h /\ DOMAIN gs # {}
        BY <1>1, <1>12 DEF Stacked
      <3> QED BY <1>8, <3>1 DEF Stays
    <2>2. \A i \in DOMAIN gs : (gs[i].kind = "body") = (i = 1)
      BY <1>1, <1>12, <1>13, <1>15 DEF Stacked
    <2>3. ASSUME NEW i \in 2..Len(gs)
          PROVE  /\ Extends(g, gs[i].cur, gs[i - 1].cur) /\ Extends(g, gs[i].alt, gs[i - 1].cur)
                 /\ gs[i].cur # gs[i].alt
      <3>1. i - 1 \in 1..N /\ gs[i - 1] = fs[i - 1]
        BY <1>1, <1>12
      <3>2. CASE i = N + 1
        BY <1>1, <1>11, <1>12, <1>13, <3>1, <3>2
      <3>3. CASE i # N + 1
        <4>1. i \in 2..N /\ gs[i] = fs[i] /\ i \in 1..N /\ i # 1
          BY <1>1, <1>12, <3>3
        <4>2. /\ Extends(h, fs[i].cur, fs[i - 1].cur) /\ Extends(h, fs[i].alt, fs[i - 1].cur)
              /\ fs[i].cur # fs[i].alt
          BY <1>1, <4>1 DEF Stacked, N
        <4>3. Stays(h, g, fs[i].cur) /\ Stays(h, g, fs[i - 1].cur) /\ Stays(h, g, fs[i].alt)
          BY <1>8, <1>14, <3>1, <4>1
        <4> QED BY <3>1, <4>1, <4>2, <4>3 DEF Extends, Stays
      <3> QED BY <3>2, <3>3
    <2>4. ASSUME NEW i \in DOMAIN gs, NEW j \in DOMAIN gs, i < j PROVE Younger(gs[j], gs[i])
      <3>1. i \in 1..N /\ gs[i] = fs[i]
        BY <1>1, <1>12, <2>4
      <3>2. CASE j = N + 1
        <4>1. fs[i].cur \in 1..Len(h) /\ fs[i].alt \in Nat /\ fs[i].alt <= Len(h)
          <5>1. fs[i].cur \in 1..Len(h)
            BY <1>1, <1>14, <3>1
          <5>2. CASE i = 1
            <6>1. fs[1].alt = 0
              BY <1>1 DEF Stacked
            <6> QED BY <1>1, <5>1, <5>2, <6>1
          <5>3. CASE i # 1
            BY <1>1, <1>14, <3>1, <5>1, <5>3
          <5> QED BY <5>2, <5>3
        <4> QED BY <1>1, <1>12, <1>13, <3>1, <3>2, <4>1 DEF Younger
      <3>3. CASE j # N + 1
        <4>1. j \in 1..N /\ gs[j] = fs[j]
          BY <1>12, <1>15, <3>3
        <4> QED BY <1>1, <2>4, <3>1, <4>1 DEF Stacked
      <3> QED BY <3>2, <3>3
    <2> QED BY <1>12, <2>1, <2>2, <2>3, <2>4 DEF Stacked
  <1>17. ASSUME NEW i \in DOMAIN gs PROVE Accounted(g, gs[i])
    <2>1. CASE i = N + 1
      <3>1. Accounted(h, fs[N])
        BY <1>1
      <3>2. \A v \in Vars : use[v] <= Decl[v]
        BY <1>1, <3>1 DEF Accounted
      <3>3. ExactIn(h, n, use)
        BY <1>1, <3>1 DEF Accounted
      <3>4. ExactIn(g, a, use) /\ ExactIn(g, b, use)
        BY <1>3, <1>4, <1>7, <1>9, <3>3 DEF ExactIn
      <3> QED BY <1>12, <1>13, <2>1, <3>2, <3>4 DEF Accounted
    <2>2. CASE i # N + 1
      <3>1. i \in 1..N /\ gs[i] = fs[i] /\ Accounted(h, fs[i])
        BY <1>1, <1>12, <1>15, <2>2
      <3>2. Stays(h, g, fs[i].cur)
        BY <1>8, <1>14, <3>1
      <3>3. fs[i].kind \in {"then", "else", "left"} => Stays(h, g, fs[i].alt)
        BY <1>1, <1>8, <1>14, <3>1 DEF Stacked
      <3> QED BY <3>1, <3>2, <3>3 DEF Accounted, ExactIn, Stays
    <2> QED BY <2>1, <2>2
  <1>18. Sound(g, gs)
    BY <1>10, <1>12, <1>16, <1>17 DEF Sound
  <1> QED BY <1>6, <1>18 DEF n, gs, d
-----------------------------------------------------------------------------
(* The actions.                                                            *)

LEMMA TopFrame ==
  ASSUME Inv
  PROVE  /\ heap \in Heap /\ frames \in Frames /\ Stacked(heap, frames) /\ frames # <<>>
         /\ Len(frames) \in Nat \ {0} /\ DOMAIN frames = 1..Len(frames)
         /\ Len(frames) \in 1..Len(frames)
         /\ Top = frames[Len(frames)] /\ Top \in AFrame /\ Top.use \in [Vars -> Qty]
         /\ Top.cur \in Nat /\ Top.cur \in DOMAIN heap /\ Accounted(heap, Top)
  <1>1. /\ heap \in Heap /\ frames \in Frames /\ Stacked(heap, frames) /\ frames # <<>>
        /\ \A i \in DOMAIN frames : Accounted(heap, frames[i])
    BY DEF Inv, Sound, Stacked
  <1>2. /\ Len(frames) \in Nat \ {0} /\ DOMAIN frames = 1..Len(frames)
        /\ Len(frames) \in 1..Len(frames) /\ Top = frames[Len(frames)]
    BY <1>1 DEF Frames, Top, Last
  <1>3. Top \in AFrame /\ Top.use \in [Vars -> Qty] /\ Top.cur \in Nat
    BY <1>1, <1>2, FrameParts
  <1>4. Top.cur \in DOMAIN heap
    BY <1>1, <1>2, OlderThan
  <1> QED BY <1>1, <1>2, <1>3, <1>4

\* The uses t of the topmost frame are added to its object.
LEMMA Grown ==
  ASSUME NEW h, NEW fs, Sound(h, fs), NEW n, n = fs[Len(fs)].cur, NEW m \in Counts,
         NEW t \in [Vars -> Nat], NEW g, After(h, g, n, t, m), NEW gs, NEW use \in [Vars -> Qty],
         \A v \in Vars : use[v] = Plus(fs[Len(fs)].use[v], Times(t[v], m)),
         TopIs(fs, gs, n, use)
  PROVE  Sound(g, gs)
  <1> DEFINE u == fs[Len(fs)].use
  <1>1. /\ h \in Heap /\ fs \in Frames /\ Stacked(h, fs) /\ Len(fs) \in 1..Len(fs)
        /\ Accounted(h, fs[Len(fs)])
    <2>1. /\ h \in Heap /\ fs \in Frames /\ Stacked(h, fs) /\ fs # <<>>
          /\ \A i \in DOMAIN fs : Accounted(h, fs[i])
      BY DEF Sound, Stacked
    <2>2. Len(fs) \in 1..Len(fs) /\ Len(fs) \in DOMAIN fs
      BY <2>1 DEF Frames
    <2> QED BY <2>1, <2>2
  <1>2. n \in DOMAIN h /\ u \in [Vars -> Qty] /\ ExactIn(h, n, u) /\ \A v \in Vars : u[v] <= Decl[v]
    BY <1>1, OlderThan, FrameParts DEF Accounted
  <1>3. Replaced(h, g, n, n)
    BY <1>2 DEF After, Only, Replaced
  <1> HIDE DEF u
  <1>4. ASSUME NEW v \in Vars
        PROVE  /\ use[v] <= Decl[v]
               /\ IF Decl[v] = many THEN (U!Count(g, n, v) = zero) = (use[v] = zero)
                  ELSE U!Count(g, n, v) = use[v]
               /\ g[n].index[v] # 0 /\ Decl[v] # many => h[n].index[v] # 0 \/ U!Count(h, n, v) = zero
    <2> DEFINE c == U!Count(h, n, v)
               d == U!Count(g, n, v)
               k == t[v]
    <2>1. /\ c \in Qty /\ d = Plus(c, Times(k, m)) /\ k \in Nat /\ u[v] \in Qty /\ Decl[v] \in Qty
          /\ u[v] <= Decl[v]
          /\ k = 0 => g[n].index[v] = h[n].index[v]
          /\ k # 0 => d <= Decl[v]
      BY <1>1, <1>2, CountFacts, DeclAssumption DEF After
    <2>2. use[v] = Plus(u[v], Times(k, m))
      BY DEF u
    <2>3. IF Decl[v] = many THEN (c = zero) = (u[v] = zero) ELSE c = u[v]
      BY <1>2 DEF ExactIn
    <2> HIDE DEF c, d, k
    <2>4. CASE k = 0
      <3>1. d = c /\ use[v] = u[v]
        BY <2>1, <2>2, <2>4, Saturating DEF Counts
      <3> QED BY <2>1, <2>3, <2>4, <3>1 DEF c, d
    <2>5. CASE k # 0
      <3>1. Times(k, m) \in Counts
        BY <2>1, <2>5 DEF Times, Counts, zero, one, many
      <3> DEFINE q == Times(k, m)
      <3> HIDE DEF q
      <3>2. q \in Counts /\ d = Plus(c, q) /\ use[v] = Plus(u[v], q)
        BY <2>1, <2>2, <3>1 DEF q
      <3>3. d \in Qty /\ use[v] \in Qty /\ d # zero /\ use[v] # zero
            /\ (d <= one => c = zero)
        BY <2>1, <3>2 DEF Plus, Counts, Qty, zero, one, many
      <3>4. d <= Decl[v]
        BY <2>1, <2>5
      <3>5. Decl[v] = many => use[v] <= Decl[v]
        BY <3>3 DEF Qty, zero, one, many
      <3>6. Decl[v] # many => d = use[v] /\ c = zero
        BY <2>1, <2>3, <3>2, <3>3, <3>4 DEF Qty, zero, one, many
      <3> QED BY <3>3, <3>4, <3>5, <3>6 DEF c, d
    <2> QED BY <2>4, <2>5
  <1>5. ExactIn(g, n, use)
    BY <1>4 DEF ExactIn
  <1>6. \A v \in Vars : g[n].index[v] # 0 /\ Decl[v] # many =>
          h[n].index[v] # 0 \/ U!Count(h, n, v) = zero
    BY <1>4
  <1>7. \A v \in Vars : use[v] <= Decl[v]
    BY <1>4
  <1> QED BY <1>3, <1>5, <1>6, <1>7, TopChanges

LEMMA UseKeeps ==
  ASSUME Inv, NEW v \in Vars, NEW mult \in Qty, Use(v, mult)
  PROVE  Inv'
  <1> DEFINE n == Top.cur
             use == [Top.use EXCEPT ![v] = Plus(@, Times(one, mult))]
  <1>1. CASE ~U!Allowed(heap, n, v, mult)
    <2>1. GiveUp(frames, "overused") /\ UNCHANGED heap
      BY <1>1 DEF Use
    <2>2. Sound(heap, frames') \/ UNCHANGED frames
      BY <2>1, GivingUp DEF Inv
    <2> QED BY <2>1, <2>2 DEF Inv
  <1>2. CASE U!Allowed(heap, n, v, mult)
    <2>1. heap' = U!Added(heap, n, v, mult)
          /\ frames' = Append(Front(frames), [Top EXCEPT !.use[v] = Plus(@, Times(one, mult))])
      BY <1>2 DEF Use, Below
    <2>2. [Top EXCEPT !.use[v] = Plus(@, Times(one, mult))] = [[Top EXCEPT !.cur = n] EXCEPT !.use = use]
      BY TopFrame DEF AFrame
    <2>3. use \in [Vars -> Qty]
      <3>1. Plus(Top.use[v], Times(one, mult)) \in Qty
        <4>1. Top.use[v] \in Qty
          BY TopFrame
        <4> QED BY <4>1 DEF Plus, Times, Qty, zero, one, many
      <3> QED BY <3>1, TopFrame
    <2>4. TopIs(frames, frames', n, use)
      <3>1. frames \in Frames /\ frames # <<>> /\ n \in Nat
        BY TopFrame
      <3>2. frames' = Append(Front(frames), [[Last(frames) EXCEPT !.cur = n] EXCEPT !.use = use])
        BY <2>1, <2>2 DEF Top
      <3> HIDE DEF n, use
      <3>3. n \in Nat /\ use \in [Vars -> Qty]
        BY <2>3, <3>1
      <3> QED BY <3>1, <3>2, <3>3, NewTop, Zenon
    <2> DEFINE t == [w \in Vars |-> 0]
               s == [t EXCEPT ![v] = @ + 1]
    <2>5. heap \in Heap /\ n \in DOMAIN heap /\ n = frames[Len(frames)].cur
          /\ frames[Len(frames)].use = Top.use /\ Sound(heap, frames)
      BY TopFrame DEF Inv
    <2>6. CASE mult = zero
      <3>1. heap' = heap
        BY <2>1, <2>6, SameArithmetic DEF U!Added
      <3>2. After(heap, heap, n, t, one) /\ t \in [Vars -> Nat] /\ one \in Counts
        BY <2>5, AfterNothing DEF Counts
      <3>3. \A w \in Vars : use[w] = Plus(Top.use[w], Times(0, one))
        <4>1. \A w \in Vars : Top.use[w] \in Qty
          BY TopFrame
        <4>2. \A w \in Vars : Plus(Top.use[w], Times(0, one)) = Top.use[w]
          BY <4>1, Saturating
        <4>3. Times(one, mult) = Times(0, one)
          BY <2>6 DEF Times, zero, one, many
        <4> QED BY <4>2, <4>3, TopFrame
      <3>4. \A w \in Vars : t[w] = 0
        OBVIOUS
      <3> HIDE DEF use, n, t
      <3>5. \A w \in Vars : use[w] = Plus(frames[Len(frames)].use[w], Times(t[w], one))
        BY <2>5, <3>3, <3>4
      <3>6. Sound(heap, frames')
        BY <2>3, <2>4, <2>5, <3>2, <3>5, Grown
      <3> QED BY <3>1, <3>6 DEF Inv
    <2>7. CASE mult # zero
      <3>1. mult \in Counts
        BY <2>7 DEF Qty, Counts
      <3>2. t \in [Vars -> Nat] /\ s \in [Vars -> Nat]
            /\ \A w \in Vars : t[w] = 0 /\ s[w] = IF w = v THEN 1 ELSE 0
        OBVIOUS
      <3>3. After(heap, heap, n, t, mult)
        BY <2>5, <3>1, AfterNothing
      <3> DEFINE g == U!Added(heap, n, v, mult)
      <3>4. After(heap, g, n, s, mult)
        <4> HIDE DEF t, n
        <4> QED BY <1>2, <2>5, <3>1, <3>2, <3>3, AfterOneMore DEF n
      <3>5. \A w \in Vars : use[w] = Plus(Top.use[w], Times(s[w], mult))
        <4> TAKE w \in Vars
        <4>1. Top.use[w] \in Qty /\ mult \in {one, many} /\ Top.use \in [Vars -> Qty]
          BY <3>1, TopFrame DEF Counts
        <4>2. CASE w = v
          BY <3>2, <4>1, <4>2 DEF one
        <4>3. CASE w # v
          BY <3>2, <4>1, <4>3, Saturating
        <4> QED BY <4>2, <4>3
      <3>6. heap' = g
        BY <2>1
      <3> HIDE DEF use, n, s, t, g
      <3>7. \A w \in Vars : use[w] = Plus(frames[Len(frames)].use[w], Times(s[w], mult))
        BY <2>5, <3>5
      <3>8. Sound(g, frames')
        BY <2>3, <2>4, <2>5, <3>1, <3>2, <3>4, <3>7, Grown
      <3> QED BY <3>6, <3>8 DEF Inv
    <2> QED BY <2>6, <2>7
  <1> QED BY <1>1, <1>2

\* A term of variables vs uses each of them as often as it is in vs.
LEMMA AddTermKeeps ==
  ASSUME Inv, NEW vs \in Terms, NEW mult \in {one, many}, AddTerm(vs, mult)
  PROVE  Inv'
  <1> DEFINE n == Top.cur
             uses == U!UsesOf(vs, mult)
             r == U!TryAddAll(heap, n, uses)
             times(v) == Cardinality({i \in DOMAIN vs : vs[i] = v})
             t == [v \in Vars |-> UsesOfVar(uses, Len(uses), v)]
             use == [v \in Vars |-> Plus(Top.use[v], Times(times(v), mult))]
  <1>1. /\ heap' = r.heap
        /\ frames' = Append(Front(frames), IF r.ok THEN [Top EXCEPT !.use = use]
                                           ELSE [Top EXCEPT !.cur = r.node])
    BY DEF AddTerm, Below
  <1>2. /\ heap \in Heap /\ n \in DOMAIN heap /\ n \in Nat /\ n = frames[Len(frames)].cur
        /\ frames[Len(frames)].use = Top.use /\ Sound(heap, frames) /\ frames \in Frames
        /\ frames # <<>> /\ Accounted(heap, Top) /\ Top.use \in [Vars -> Qty] /\ mult \in Counts
    BY TopFrame DEF Inv, Counts
  <1>3. /\ uses \in Seq(Vars \X {mult}) /\ Len(uses) = Len(vs) /\ DOMAIN vs = 1..Len(vs)
        /\ \A i \in 1..Len(vs) : uses[i][1] = vs[i]
    <2>1. vs \in Seq(Vars)
      BY TermsAssumption
    <2>2. Len(vs) \in Nat /\ DOMAIN vs = 1..Len(vs) /\ \A i \in 1..Len(vs) : vs[i] \in Vars
      BY <2>1
    <2>3. uses = [i \in 1..Len(vs) |-> <<vs[i], mult>>]
      BY <2>2 DEF U!UsesOf
    <2> HIDE DEF uses
    <2> QED BY <2>2, <2>3
  <1> HIDE DEF uses
  <1>4. \A v \in Vars : t[v] = times(v) /\ t[v] \in Nat
    <2> TAKE v \in Vars
    <2>1. {i \in DOMAIN vs : vs[i] = v} = {i \in 1..Len(uses) : uses[i][1] = v}
      BY <1>3
    <2>2. UsesOfVar(uses, Len(uses), v) \in Nat
      <3>1. Len(uses) \in Nat
        BY <1>3
      <3> QED BY <3>1, OneMoreTime
    <2> QED BY <2>1, <2>2 DEF UsesOfVar
  <1>5. /\ Replaced(heap, r.heap, n, r.node)
        /\ r.ok => r.node = n /\ After(heap, r.heap, n, t, mult)
        /\ ~r.ok => /\ r.heap[r.node].index = heap[n].index
                    /\ \A v \in Vars : U!Count(r.heap, r.node, v) = U!Count(heap, n, v)
    <2>1. heap \in Heap /\ n \in DOMAIN heap /\ mult \in Counts /\ uses \in Seq(Vars \X {mult})
      BY <1>2, <1>3
    <2> HIDE DEF n
    <2>2. /\ Replaced(heap, r.heap, n, r.node)
          /\ r.ok => /\ r.node = n
                     /\ After(heap, r.heap, n, [v \in Vars |-> UsesOfVar(uses, Len(uses), v)], mult)
          /\ ~r.ok => /\ r.heap[r.node].index = heap[n].index
                      /\ \A v \in Vars : U!Count(r.heap, r.node, v) = U!Count(heap, n, v)
                      /\ \E i \in 1..Len(uses) : TooMany(heap, n, uses, i, mult)
      BY <2>1, AddingAll
    <2> QED BY <2>2
  <1>6. CASE r.ok
    <2>1. use \in [Vars -> Qty]
      <3>1. \A v \in Vars : Plus(Top.use[v], Times(times(v), mult)) \in Qty
        <4> TAKE v \in Vars
        <4>1. Top.use[v] \in Qty /\ times(v) \in Nat
          BY <1>2, <1>4
        <4> HIDE DEF times
        <4> QED BY <4>1, Saturating
      <3> HIDE DEF times
      <3> QED BY <3>1
    <2>2. \A v \in Vars : use[v] = Plus(frames[Len(frames)].use[v], Times(t[v], mult))
      BY <1>2, <1>4
    <2>3. t \in [Vars -> Nat]
      BY <1>4
    <2> HIDE DEF use, t, times
    <2>4. [Top EXCEPT !.use = use] = [[Top EXCEPT !.cur = n] EXCEPT !.use = use]
      BY TopFrame DEF AFrame
    <2> HIDE DEF r, n
    <2>5. frames' = Append(Front(frames), [[Last(frames) EXCEPT !.cur = n] EXCEPT !.use = use])
      BY <1>1, <1>6, <2>4 DEF Top
    <2>6. TopIs(frames, frames', n, use)
      BY <1>2, <2>1, <2>5, NewTop, Zenon
    <2>7. After(heap, r.heap, n, t, mult)
      BY <1>5, <1>6
    <2> DEFINE g == r.heap
    <2> HIDE DEF g
    <2>8. After(heap, g, n, t, mult)
      BY <2>7 DEF g
    <2>9. Sound(g, frames')
      BY <1>2, <2>1, <2>2, <2>3, <2>6, <2>8, Grown
    <2> QED BY <1>1, <2>9 DEF Inv, g
  <1>7. CASE ~r.ok
    <2> HIDE DEF use, t, times
    <2> DEFINE g == r.heap
               x == r.node
               u == Top.use
    <2>1. x \in Nat
      <3>1. g \in Heap /\ x \in DOMAIN g
        BY <1>5 DEF Replaced
      <3> QED BY <3>1 DEF Heap
    <2>2. [Top EXCEPT !.cur = x] = [[Top EXCEPT !.cur = x] EXCEPT !.use = u]
      BY TopFrame DEF AFrame
    <2>3. /\ Replaced(heap, g, n, x) /\ heap' = g
          /\ frames' = Append(Front(frames), [Top EXCEPT !.cur = x])
          /\ g[x].index = heap[n].index
          /\ \A v \in Vars : U!Count(g, x, v) = U!Count(heap, n, v)
      BY <1>1, <1>5, <1>7
    <2> HIDE DEF r, n, g, x
    <2>4. frames' = Append(Front(frames), [[Last(frames) EXCEPT !.cur = x] EXCEPT !.use = u])
      BY <2>2, <2>3 DEF Top
    <2>5. TopIs(frames, frames', x, u)
      BY <1>2, <2>1, <2>4, NewTop, Zenon
    <2>6. ExactIn(g, x, u) /\ \A v \in Vars : u[v] <= Decl[v]
      BY <1>2, <2>3 DEF Accounted, ExactIn, n
    <2>7. Replaced(heap, g, frames[Len(frames)].cur, x)
      BY <1>2, <2>3
    <2>8. \A v \in Vars : g[x].index[v] # 0 /\ Decl[v] # many =>
            heap[frames[Len(frames)].cur].index[v] # 0
              \/ U!Count(heap, frames[Len(frames)].cur, v) = zero
      BY <1>2, <2>3
    <2> HIDE DEF u
    <2>9. Sound(g, frames')
      BY <1>2, <2>5, <2>6, <2>7, <2>8, TopChanges
    <2> QED BY <2>3, <2>9 DEF Inv
  <1> QED BY <1>6, <1>7

LEMMA PushKeeps ==
  ASSUME Inv, NEW kind \in Kinds \ {"body"}, Push(kind)
  PROVE  Inv'
  <1>1. /\ heap' = heap \o <<U!H!ChildNode(heap, Top.cur), U!H!ChildNode(heap, Top.cur)>>
        /\ frames' = Append(frames, [kind |-> kind, cur |-> Len(heap) + 1, alt |-> Len(heap) + 2,
                                     use |-> Top.use, saved |-> Top.use])
    BY DEF Push
  <1>2. Sound(heap, frames) /\ Top.use \in [Vars -> Qty]
    BY TopFrame DEF Inv
  <1>3. Sound(heap', frames')
    BY <1>1, <1>2, Pushing DEF Top
  <1> QED BY <1>3 DEF Inv

LEMMA BeginElseKeeps ==
  ASSUME Inv, BeginElse
  PROVE  Inv'
  <1> DEFINE N == Len(frames)
             f == Top
             d == [kind |-> "else", cur |-> f.alt, alt |-> f.cur, use |-> f.saved, saved |-> f.use]
  <1>1. /\ heap' = heap /\ frames' = Append(Front(frames), d) /\ f.kind = "then"
    BY DEF BeginElse, Below
  <1>2. /\ frames \in Frames /\ frames # <<>> /\ N \in Nat \ {0} /\ f = frames[N] /\ f \in AFrame
        /\ N \in 1..N /\ Accounted(heap, f) /\ Sound(heap, frames)
    BY TopFrame DEF Inv
  <1>3. /\ f.cur \in Nat /\ f.alt \in Nat /\ f.use \in [Vars -> Qty] /\ f.saved \in [Vars -> Qty]
    BY <1>2 DEF AFrame
  <1>4. d \in AFrame /\ d.kind # "body" /\ d.cur = f.alt /\ d.alt = f.cur
    BY <1>3 DEF AFrame, Kinds
  <1>5. Accounted(heap, d)
    BY <1>1, <1>2 DEF Accounted
  <1> HIDE DEF d, f
  <1>6. /\ frames' \in Frames /\ Len(frames') = N /\ frames'[N] = d
        /\ \A i \in 1..(N - 1) : frames'[i] = frames[i]
    <2>1. frames \in Seq(AFrame) /\ frames # <<>>
      BY <1>2 DEF Frames
    <2>2. /\ Front(frames) \in Seq(AFrame) /\ Len(Front(frames)) = N - 1
          /\ \A i \in 1..(N - 1) : Front(frames)[i] = frames[i]
      BY <2>1, FrontParts
    <2>3. /\ frames' \in Seq(AFrame) /\ Len(frames') = N /\ frames'[N] = d
          /\ \A i \in 1..(N - 1) : frames'[i] = frames[i]
      BY <1>1, <1>2, <1>4, <2>2
    <2> QED BY <2>3 DEF Frames
  <1> DEFINE gs == frames'
  <1>7. /\ gs \in Frames /\ Len(gs) = Len(frames)
        /\ \A i \in 1..(Len(frames) - 1) : gs[i] = frames[i]
        /\ gs[Len(frames)].cur = frames[Len(frames)].alt
        /\ gs[Len(frames)].alt = frames[Len(frames)].cur
        /\ gs[Len(frames)].kind # "body" /\ Accounted(heap, gs[Len(frames)])
        /\ frames[Len(frames)].kind # "body"
    BY <1>1, <1>2, <1>4, <1>5, <1>6
  <1> HIDE DEF gs, N
  <1>8. Sound(heap, gs)
    BY <1>2, <1>7, OtherObject
  <1> QED BY <1>1, <1>8 DEF Inv, gs

\* Below the topmost frame.
LEMMA BelowTop ==
  ASSUME Inv, Top.kind # "body"
  PROVE  /\ Sound(heap, Below) /\ Parent.cur \in DOMAIN heap
         /\ Extends(heap, Top.cur, Parent.cur) /\ Extends(heap, Top.alt, Parent.cur)
  <1> DEFINE N == Len(frames)
  <1>1. /\ heap \in Heap /\ frames \in Frames /\ Stacked(heap, frames) /\ N \in Nat \ {0}
        /\ DOMAIN frames = 1..N /\ Top = frames[N] /\ N \in 1..N /\ Sound(heap, frames)
    BY TopFrame DEF Inv
  <1>2. N # 1
    BY <1>1 DEF Stacked
  <1>3. N - 1 \in 1..N /\ N - 1 \in Nat \ {0} /\ N \in 2..N
    BY <1>1, <1>2
  <1>4. /\ Extends(heap, Top.cur, frames[N - 1].cur) /\ Extends(heap, Top.alt, frames[N - 1].cur)
    BY <1>1, <1>3 DEF Stacked
  <1>5. frames[N - 1].cur \in DOMAIN heap
    BY <1>1, <1>3, OlderThan
  <1>6. Below = SubSeq(frames, 1, N - 1)
    BY DEF Below, Front
  <1> HIDE DEF N
  <1>7. /\ Sound(heap, SubSeq(frames, 1, N - 1)) /\ Len(SubSeq(frames, 1, N - 1)) = N - 1
        /\ \A j \in 1..(N - 1) : SubSeq(frames, 1, N - 1)[j] = frames[j]
    BY <1>1, <1>3, PrefixSound DEF N
  <1>8. Parent = frames[N - 1]
    <2>1. N - 1 \in 1..(N - 1)
      BY <1>3
    <2> QED BY <1>6, <1>7, <2>1 DEF Parent, Last
  <1> QED BY <1>4, <1>5, <1>6, <1>7, <1>8

\* Entries that cover the uses of the frame are committed.
LEMMA AccountKeeps ==
  ASSUME Inv, Top.kind # "body", NEW es \in Entries, Distinct(es), NEW use \in [Vars -> Qty],
         \A v \in Vars : use[v] <= Decl[v], Covers(heap, Parent.cur, es, use),
         Account(es, use)
  PROVE  Inv' /\ UNCHANGED status
  <1> DEFINE r == U!TryAddAll(heap, Parent.cur, U!DirectUses(es))
             outside == [Parent EXCEPT !.cur = r.node]
             gs == Append(Front(Below), [outside EXCEPT !.use = use])
  <1>1. /\ heap' = r.heap
        /\ r.ok => frames' = gs /\ UNCHANGED status
    BY DEF Account
  <1>2. Sound(heap, Below)
    BY BelowTop
  <1>3. r.ok /\ Sound(r.heap, gs)
    BY <1>2, Commits, Zenon DEF Parent
  <1> HIDE DEF r, gs
  <1> QED BY <1>1, <1>3 DEF Inv

LEMMA EndAttemptKeeps ==
  ASSUME Inv, EndAttempt
  PROVE  Inv' /\ UNCHANGED status
  <1> DEFINE es == heap[Top.cur].data
             use == Top.use
             p == Parent.cur
             x == Top.cur
  <1>1. Top.kind # "body" /\ Account(es, use)
    BY DEF EndAttempt
  <1>2. /\ heap \in Heap /\ x \in DOMAIN heap /\ use \in [Vars -> Qty] /\ Accounted(heap, Top)
    BY TopFrame
  <1>3. p \in DOMAIN heap /\ Extends(heap, x, p)
    BY <1>1, BelowTop
  <1>4. ExactIn(heap, x, use) /\ \A v \in Vars : use[v] <= Decl[v]
    BY <1>2 DEF Accounted
  <1>5. es \in Entries /\ Distinct(es) /\ KeysOf(es) = {v \in Vars : heap[x].index[v] # 0}
    BY <1>2, OwnEntries
  <1> HIDE DEF es, use, p, x
  <1>6. Covers(heap, p, es, use)
    BY <1>2, <1>3, <1>4, <1>5, EntriesSay DEF Covers
  <1> QED BY <1>1, <1>2, <1>4, <1>5, <1>6, AccountKeeps DEF p

LEMMA EndIfKeeps ==
  ASSUME Inv, EndIf
  PROVE  Inv' /\ UNCHANGED status
  <1> DEFINE es == BranchEntries
             u == Top.use
             w == Top.saved
             use == [v \in Vars |-> QtyMax(u[v], w[v])]
             p == Parent.cur
             x == Top.cur
             y == Top.alt
  <1>1. Top.kind # "body" /\ Top.kind \in {"then", "else", "left"} /\ Account(es, use)
    BY DEF EndIf
  <1>2. /\ heap \in Heap /\ x \in DOMAIN heap /\ Accounted(heap, Top)
        /\ u \in [Vars -> Qty] /\ w \in [Vars -> Qty]
    BY TopFrame DEF AFrame
  <1>3. p \in DOMAIN heap /\ Extends(heap, x, p) /\ Extends(heap, y, p) /\ y \in DOMAIN heap
    BY <1>1, BelowTop DEF Extends
  <1>4. ExactIn(heap, x, u) /\ ExactIn(heap, y, w) /\ \A v \in Vars : u[v] <= Decl[v] /\ w[v] <= Decl[v]
    BY <1>1, <1>2 DEF Accounted
  <1>5. es \in Entries /\ Distinct(es)
        /\ KeysOf(es) = {v \in Vars : heap[x].index[v] # 0 \/ heap[y].index[v] # 0}
    <2>1. CASE Top.kind = "then"
      <3>1. es = U!Merged(heap, x, y)
        BY <2>1 DEF BranchEntries
      <3> HIDE DEF es, x, y
      <3> QED BY <1>2, <1>3, <3>1, MergedEntries
    <2>2. CASE Top.kind # "then"
      <3>1. es = U!Merged(heap, y, x)
        BY <2>2 DEF BranchEntries
      <3> HIDE DEF es, x, y
      <3>2. es \in Entries /\ Distinct(es)
            /\ KeysOf(es) = {v \in Vars : heap[y].index[v] # 0 \/ heap[x].index[v] # 0}
        BY <1>2, <1>3, <3>1, MergedEntries
      <3> QED BY <3>2
    <2> QED BY <2>1, <2>2
  <1> HIDE DEF es, u, w, p, x, y
  <1>6. ASSUME NEW v \in Vars
        PROVE  /\ u[v] \in Qty /\ w[v] \in Qty /\ u[v] <= Decl[v] /\ w[v] <= Decl[v]
               /\ heap[x].index[v] # 0 =>
                    IF Decl[v] = many THEN u[v] # zero
                    ELSE u[v] = one /\ Decl[v] = one /\ U!Count(heap, p, v) = zero
               /\ heap[x].index[v] = 0 =>
                    IF Decl[v] = many THEN (u[v] = zero) = (U!Count(heap, p, v) = zero)
                    ELSE u[v] = U!Count(heap, p, v)
               /\ heap[y].index[v] # 0 =>
                    IF Decl[v] = many THEN w[v] # zero
                    ELSE w[v] = one /\ Decl[v] = one /\ U!Count(heap, p, v) = zero
               /\ heap[y].index[v] = 0 =>
                    IF Decl[v] = many THEN (w[v] = zero) = (U!Count(heap, p, v) = zero)
                    ELSE w[v] = U!Count(heap, p, v)
    <2>1. u[v] \in Qty /\ w[v] \in Qty /\ u[v] <= Decl[v] /\ w[v] <= Decl[v]
      BY <1>2, <1>4
    <2>2. /\ heap[x].index[v] # 0 =>
               IF Decl[v] = many THEN u[v] # zero
               ELSE u[v] = one /\ Decl[v] = one /\ U!Count(heap, p, v) = zero
          /\ heap[x].index[v] = 0 =>
               IF Decl[v] = many THEN (u[v] = zero) = (U!Count(heap, p, v) = zero)
               ELSE u[v] = U!Count(heap, p, v)
      BY <1>2, <1>3, <1>4, <2>1, EntriesSay
    <2>3. /\ heap[y].index[v] # 0 =>
               IF Decl[v] = many THEN w[v] # zero
               ELSE w[v] = one /\ Decl[v] = one /\ U!Count(heap, p, v) = zero
          /\ heap[y].index[v] = 0 =>
               IF Decl[v] = many THEN (w[v] = zero) = (U!Count(heap, p, v) = zero)
               ELSE w[v] = U!Count(heap, p, v)
      BY <1>2, <1>3, <1>4, <2>1, EntriesSay
    <2> QED BY <2>1, <2>2, <2>3
  <1>7. ASSUME NEW v \in Vars
        PROVE  /\ use[v] \in Qty /\ use[v] <= Decl[v]
               /\ IF heap[x].index[v] # 0 \/ heap[y].index[v] # 0
                  THEN IF Decl[v] = many THEN use[v] # zero
                       ELSE use[v] = one /\ Decl[v] = one /\ U!Count(heap, p, v) = zero
                  ELSE IF Decl[v] = many THEN (use[v] = zero) = (U!Count(heap, p, v) = zero)
                       ELSE use[v] = U!Count(heap, p, v)
    <2> DEFINE i == heap[x].index[v]
               j == heap[y].index[v]
               c == U!Count(heap, p, v)
               a == u[v]
               b == w[v]
               q == Decl[v]
    <2>1. use[v] = IF a < b THEN b ELSE a
      BY DEF QtyMax
    <2>2. /\ a \in Qty /\ b \in Qty /\ a <= q /\ b <= q
          /\ i # 0 => IF q = many THEN a # zero ELSE a = one /\ q = one /\ c = zero
          /\ i = 0 => IF q = many THEN (a = zero) = (c = zero) ELSE a = c
          /\ j # 0 => IF q = many THEN b # zero ELSE b = one /\ q = one /\ c = zero
          /\ j = 0 => IF q = many THEN (b = zero) = (c = zero) ELSE b = c
      BY <1>6
    <2> HIDE DEF i, j, c, a, b, q, use
    <2>3. /\ use[v] \in Qty /\ use[v] <= q
          /\ IF i # 0 \/ j # 0
             THEN IF q = many THEN use[v] # zero ELSE use[v] = one /\ q = one /\ c = zero
             ELSE IF q = many THEN (use[v] = zero) = (c = zero) ELSE use[v] = c
      BY <2>1, <2>2 DEF Qty, zero, one, many
    <2> QED BY <2>3 DEF i, j, c, q
  <1>8. use \in [Vars -> Qty] /\ \A v \in Vars : use[v] <= Decl[v]
    BY <1>7
  <1> HIDE DEF use
  <1>9. Covers(heap, p, es, use)
    BY <1>5, <1>7 DEF Covers
  <1> QED BY <1>1, <1>5, <1>8, <1>9, AccountKeeps DEF p

LEMMA AttemptFailsKeeps ==
  ASSUME Inv, AttemptFails
  PROVE  Inv'
  <1>1. GiveUp(frames, "ill_typed") /\ heap' = heap
    BY DEF AttemptFails
  <1>2. Sound(heap, frames') \/ UNCHANGED frames
    BY <1>1, GivingUp DEF Inv
  <1> QED BY <1>1, <1>2 DEF Inv

-----------------------------------------------------------------------------
(* The theorems.                                                           *)

LEMMA InitSound == Init => Inv
  <1> SUFFICES ASSUME Init PROVE Inv
    OBVIOUS
  <1> DEFINE r == U!H!RootNode
             f == [kind |-> "body", cur |-> 1, alt |-> 0, use |-> NoUse, saved |-> NoUse]
  <1>1. heap = <<r>> /\ frames = <<f>>
    BY DEF Init
  <1>2. r = L!RootNode
    BY SameOperators
  <1>3. r.outer = <<>> /\ r.data = <<>> /\ r.index = [v \in Vars |-> 0] /\ r \in L!NodeOf(Counts)
    BY <1>2 DEF L!RootNode, L!EmptyNode, L!NodeOf, L!Absent
  <1>4. NoUse \in [Vars -> Qty] /\ \A v \in Vars : NoUse[v] = zero /\ Decl[v] \in Qty
    BY DeclAssumption DEF NoUse, Qty
  <1>5. f \in AFrame /\ f.kind = "body" /\ f.cur = 1 /\ f.alt = 0 /\ f.use = NoUse /\ f.saved = NoUse
    BY <1>4 DEF AFrame, Kinds
  <1> HIDE DEF r, f
  <1>6. /\ heap \in Seq(L!NodeOf(Counts)) /\ DOMAIN heap = {1} /\ heap[1] = r
        /\ frames \in Seq(AFrame) /\ DOMAIN frames = {1} /\ frames[1] = f /\ Len(frames) = 1
        /\ frames # <<>>
    BY <1>1, <1>3, <1>5
  <1>7. heap \in Heap
    <2>1. L!Absent = 0
      BY DEF L!Absent
    <2> QED BY <1>3, <1>6, <2>1 DEF Heap, L!WellFormed, L!Within, L!Indexed
  <1>8. \A v \in Vars : U!Count(heap, 1, v) = zero
    <2> TAKE v \in Vars
    <2>1. U!Count(heap, 1, v) = L!ValueIn(heap, <<>>, v, zero)
      BY <1>3, <1>6, <1>7, CountFacts
    <2> QED BY <2>1, L!FindInNowhere DEF L!ValueIn
  <1>9. Accounted(heap, f)
    <2>1. \A v \in Vars : zero <= Decl[v]
      BY <1>4 DEF Qty, zero, one, many
    <2> QED BY <1>4, <1>5, <1>8, <2>1 DEF Accounted, ExactIn
  <1>10. Stacked(heap, frames)
    BY <1>5, <1>6 DEF Stacked
  <1> QED BY <1>6, <1>7, <1>9, <1>10 DEF Inv, Sound, Frames

LEMMA NextSound == Inv /\ [Next]_vars => Inv'
  <1> SUFFICES ASSUME Inv, [Next]_vars PROVE Inv'
    OBVIOUS
  <1>1. ASSUME NEW v \in Vars, NEW mult \in Qty, Use(v, mult) PROVE Inv'
    BY <1>1, UseKeeps
  <1>2. ASSUME NEW vs \in Terms, NEW mult \in {one, many}, AddTerm(vs, mult) PROVE Inv'
    BY <1>2, AddTermKeeps
  <1>3. CASE BeginIf
    BY <1>3, PushKeeps DEF BeginIf, Kinds
  <1>4. CASE BeginElse
    BY <1>4, BeginElseKeeps
  <1>5. CASE EndIf
    BY <1>5, EndIfKeeps
  <1>6. CASE BeginPair
    BY <1>6, PushKeeps DEF BeginPair, Kinds
  <1>7. CASE EndAttempt
    BY <1>7, EndAttemptKeeps
  <1>8. CASE AttemptFails
    BY <1>8, AttemptFailsKeeps
  <1>9. CASE UNCHANGED vars
    BY <1>9 DEF vars, Inv
  <1> QED BY <1>1, <1>2, <1>3, <1>4, <1>5, <1>6, <1>7, <1>8, <1>9 DEF Next

\* The objects of the stack extend each other, and each says of every variable
\* that is counted exactly how often it is used.
THEOREM AccountsStaySound == Spec => []Inv
  <1> QED BY InitSound, NextSound, PTL DEF Spec

\* A checked program never uses a variable more than its declaration allows,
\* whatever path through the branches is taken (usage_t::try_add, merge): for
\* any variables, declarations and terms, however deep branches are nested.
THEOREM NothingOverused == Spec => []NeverOverused
  <1>1. Inv => NeverOverused
    BY DEF Inv, Sound, Accounted, NeverOverused
  <1> QED BY <1>1, AccountsStaySound, PTL

\* The count of every usage object is the most its variable is used on any
\* path so far, whatever was merged, given up or rolled back.
THEOREM CountsStayExact == Spec => []CountIsExact
  <1>1. Inv => CountIsExact
    BY DEF Inv, Sound, Accounted, ExactIn, Exact, CountIsExact
  <1> QED BY <1>1, AccountsStaySound, PTL

\* Adding the uses of branches or of a successful attempt to the usage object
\* outside never fails: no branch uses a variable that the code outside has
\* used up, so check_stmt rejects nothing when it combines them.
CommitsSucceed ==
  [][EndIf \/ EndAttempt => UNCHANGED status]_vars

\* Combining branches rejects no program (CommitsSucceed).
THEOREM CommittingSucceeds == Spec => CommitsSucceed
  <1>1. Inv /\ [Next]_vars => [EndIf \/ EndAttempt => UNCHANGED status]_vars
    BY EndIfKeeps, EndAttemptKeeps
  <1> QED BY <1>1, AccountsStaySound, PTL DEF Spec, CommitsSucceed
=============================================================================
