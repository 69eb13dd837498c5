--------------------------- MODULE ContextsProofs ---------------------------
(***************************************************************************)
(* That names, types and addresses follow the source in every context, for *)
(* any names and any nesting of constructs.                                *)
(*                                                                         *)
(* What a context sees is not inductive.  A new variable is apart from all *)
(* others because shadow identifiers grow along the list of binders, and   *)
(* it disturbs no construct further out because each writes only to nodes  *)
(* that were allocated since it was entered.                               *)
(***************************************************************************)
EXTENDS Contexts, FiniteSetTheorems, TLAPS

LI == INSTANCE HeapLemmas WITH Keys <- Names
LV == INSTANCE HeapLemmas WITH Keys <- C!Vars

-----------------------------------------------------------------------------
(* The inductive invariant.                                                *)

Named == [name : Names, shadow : 0..MaxShadow]
Decls == [type : {"plain", "cond", "known"}, scope : Int]
Context == [scoped : BOOLEAN, id : Nat, index : Nat, values : Nat]

\* Two heaps that are well formed.
Memory == {m \in [index : Seq(LI!NodeOf(Named)), values : Seq(LV!NodeOf(Decls))] :
             LI!WellFormed(m.index, Named) /\ LV!WellFormed(m.values, Decls)}

IsContext(m, c) == c \in Context /\ c.index \in DOMAIN m.index /\ c.values \in DOMAIN m.values

ABinder == [name : Names, var : Named, type : Types, depth : Nat]
AFrame == [kind : {"entry", "function", "pi", "sigma", "because", "branch"},
           phase : {"expr", "params", "ret", "body"},
           ctx : Context, ret : Context, params : Nat, facts : Nat, known : Nat,
           before : [index : Nat, values : Nat, binders : Nat]]

Typed(m, fs, bs) == m \in Memory /\ fs \in Seq(AFrame) /\ fs # <<>> /\ bs \in Seq(ABinder)

RetInUse(f) == HasRet(f) /\ f.phase \in {"params", "ret"}
CurrentOf(f) == IF f.phase = "ret" THEN f.ret ELSE f.ctx

Shaped(fs) ==
  /\ fs[1].phase = "expr"
  /\ \A k \in DOMAIN fs :
       /\ fs[k].phase = "ret" => HasRet(fs[k])
       /\ HasRet(fs[k]) => fs[k].ctx.id < fs[k].ret.id /\ ~fs[k].ret.scoped
  /\ \A j, k \in DOMAIN fs : j < k => fs[j].ctx.id < fs[k].ctx.id

\* The nodes of a construct were allocated since it was entered.
After(f, c) == f.before.index < c.index /\ f.before.values < c.values
Upto(f, c) == c.index <= f.before.index /\ c.values <= f.before.values
Placed(m, fs) ==
  /\ \A k \in 2..Len(fs) :
       /\ fs[k].before.index <= Len(m.index) /\ fs[k].before.values <= Len(m.values)
       /\ After(fs[k], fs[k].ctx)
       /\ RetInUse(fs[k]) => /\ After(fs[k], fs[k].ret)
                             /\ fs[k].ctx.index # fs[k].ret.index
                             /\ fs[k].ctx.values # fs[k].ret.values
  /\ \A j, k \in DOMAIN fs : j < k =>
       Upto(fs[k], fs[j].ctx) /\ (RetInUse(fs[j]) => Upto(fs[k], fs[j].ret))

\* The first binders, as many as construct k can see.
Seen(fs, bs, k) == IF k = Len(fs) THEN Len(bs) ELSE fs[k + 1].before.binders

Listed(fs, bs) ==
  /\ \A i \in DOMAIN bs : bs[i].depth \in 2..Len(fs)
  /\ \A k \in 2..Len(fs) :
       /\ fs[k].before.binders <= Len(bs)
       /\ \A i \in DOMAIN bs : bs[i].depth < k <=> i <= fs[k].before.binders
  /\ \A k \in DOMAIN fs : fs[k].known <= Seen(fs, bs, k)

Distinct(bs) ==
  /\ \A i \in DOMAIN bs : bs[i].var.name = bs[i].name
  /\ \A i, j \in DOMAIN bs : i < j /\ bs[i].name = bs[j].name => bs[i].var.shadow < bs[j].var.shadow

\* A variable that has an entry in node n is bound, by a construct that was
\* entered when the node was there already.
Holds(m, n, v) == m.values[n].index[v] # 0
Registered(m, fs, bs) ==
  \A n \in DOMAIN m.values, v \in Named : Holds(m, n, v) =>
    \E i \in DOMAIN bs :
      /\ bs[i].var = v
      /\ \A k \in 2..Len(fs) : n <= fs[k].before.values => i <= fs[k].before.binders

\* Name stands for x: what was bound last of the first n binders.
NameSeen(x, bs, n, name) ==
  \/ x = C!NoVar /\ \A i \in 1..n : bs[i].name # name
  \/ \E i \in 1..n : bs[i].name = name /\ bs[i].var = x /\ \A j \in (i + 1)..n : bs[j].name # name

TypeSeen(fs, bs, k, i) ==
  IF \E j \in 1..k : i <= fs[j].known THEN C!RewrittenType(bs[i].type) ELSE bs[i].type
DeclSeen(d, fs, bs, k, i) ==
  /\ d \in Decls /\ d.type = TypeSeen(fs, bs, k, i)
  /\ d.scope \in {C!Unscoped, fs[bs[i].depth].ctx.id}

Sees(m, c, fs, bs, k) ==
  /\ IsContext(m, c)
  /\ \A name \in Names : NameSeen(C!VarOf(m, c, name), bs, Seen(fs, bs, k), name)
  /\ \A i \in 1..Seen(fs, bs, k) : DeclSeen(C!DeclOf(m, c, bs[i].var), fs, bs, k, i)

\* In the context for the return type parameters have no scope; its own level
\* has the names that the level of the parameters has.
SeesParameters(m, fs, bs, k) ==
  LET f == fs[k]
  IN  /\ Sees(m, f.ret, fs, bs, k)
      /\ \A i \in 1..Seen(fs, bs, k) : bs[i].depth = k => C!DeclOf(m, f.ret, bs[i].var).scope = C!Unscoped
      /\ \A name \in Names : m.index[f.ctx.index].index[name] = 0 =>
                             m.index[f.ret.index].index[name] = 0

FrameSees(m, fs, bs, k) ==
  Sees(m, fs[k].ctx, fs, bs, k) /\ (RetInUse(fs[k]) => SeesParameters(m, fs, bs, k))

Sound(m, fs, bs) ==
  /\ Typed(m, fs, bs) /\ Shaped(fs) /\ Placed(m, fs) /\ Listed(fs, bs) /\ Distinct(bs)
  /\ Registered(m, fs, bs)
  /\ \A k \in DOMAIN fs : FrameSees(m, fs, bs, k)

Inv == Sound(memory, frames, binders)
-----------------------------------------------------------------------------
(* Contexts as nodes of two heaps.                                         *)

LEMMA SameIndex ==
  ASSUME NEW h, NEW n, NEW k
  PROVE  /\ C!I!ChildNode(h, n) = LI!ChildNode(h, n) /\ C!I!RootNode = LI!RootNode
         /\ C!I!Find(h, n, k) = LI!Find(h, n, k) /\ C!I!NoCell = LI!NoCell
         /\ \A x : C!I!Emplaced(h, n, k, x) = LI!Emplaced(h, n, k, x)
         /\ C!I!Absent = 0 /\ LI!Absent = 0
  <1>1. /\ C!I!ChildNode(h, n) = LI!ChildNode(h, n) /\ C!I!RootNode = LI!RootNode
        /\ C!I!NoCell = LI!NoCell
    BY DEF C!I!Levels, LI!Levels, C!I!ChildNode, LI!ChildNode, C!I!EmptyNode, LI!EmptyNode,
           C!I!RootNode, LI!RootNode, C!I!NoCell, LI!NoCell, C!I!Absent, LI!Absent
  <1>2. C!I!Find(h, n, k) = LI!Find(h, n, k)
    BY DEF C!I!Find, LI!Find, C!I!HitLevels, LI!HitLevels, C!I!Levels, LI!Levels,
           C!I!PlaceAt, LI!PlaceAt, C!I!Absent, LI!Absent, C!I!NoCell, LI!NoCell
  <1>3. \A x : C!I!Emplaced(h, n, k, x) = LI!Emplaced(h, n, k, x)
    BY DEF C!I!Emplaced, LI!Emplaced, C!I!Absent, LI!Absent
  <1> QED BY <1>1, <1>2, <1>3 DEF C!I!Absent, LI!Absent

LEMMA SameValues ==
  ASSUME NEW h, NEW n, NEW k
  PROVE  /\ C!V!ChildNode(h, n) = LV!ChildNode(h, n) /\ C!V!RootNode = LV!RootNode
         /\ C!V!Find(h, n, k) = LV!Find(h, n, k) /\ C!V!NoCell = LV!NoCell
         /\ C!V!Levels(h, n) = LV!Levels(h, n)
         /\ \A x : C!V!Emplaced(h, n, k, x) = LV!Emplaced(h, n, k, x)
         /\ C!V!Absent = 0 /\ LV!Absent = 0
  <1>1. /\ C!V!ChildNode(h, n) = LV!ChildNode(h, n) /\ C!V!RootNode = LV!RootNode
        /\ C!V!NoCell = LV!NoCell /\ C!V!Levels(h, n) = LV!Levels(h, n)
    BY DEF C!V!Levels, LV!Levels, C!V!ChildNode, LV!ChildNode, C!V!EmptyNode, LV!EmptyNode,
           C!V!RootNode, LV!RootNode, C!V!NoCell, LV!NoCell, C!V!Absent, LV!Absent
  <1>2. C!V!Find(h, n, k) = LV!Find(h, n, k)
    BY DEF C!V!Find, LV!Find, C!V!HitLevels, LV!HitLevels, C!V!Levels, LV!Levels,
           C!V!PlaceAt, LV!PlaceAt, C!V!Absent, LV!Absent, C!V!NoCell, LV!NoCell
  <1>3. \A x : C!V!Emplaced(h, n, k, x) = LV!Emplaced(h, n, k, x)
    BY DEF C!V!Emplaced, LV!Emplaced, C!V!Absent, LV!Absent
  <1> QED BY <1>1, <1>2, <1>3 DEF C!V!Absent, LV!Absent

\* What a name and a variable stand for is what is looked up in the heaps.
LEMMA LookedUp ==
  ASSUME NEW m, NEW c, NEW k
  PROVE  /\ C!VarOf(m, c, k) = LI!Value(m.index, c.index, k, C!NoVar)
         /\ C!DeclOf(m, c, k) = LV!Value(m.values, c.values, k, C!NoDecl)
  BY SameIndex, SameValues DEF C!VarOf, C!DeclOf, LI!Value, LV!Value, LI!At, LV!At

LEMMA MemoryParts ==
  ASSUME NEW m \in Memory
  PROVE  /\ m = [index |-> m.index, values |-> m.values]
         /\ LI!WellFormed(m.index, Named) /\ LV!WellFormed(m.values, Decls)
         /\ Len(m.index) \in Nat /\ DOMAIN m.index = 1..Len(m.index)
         /\ Len(m.values) \in Nat /\ DOMAIN m.values = 1..Len(m.values)
  <1>1. m.index \in Seq(LI!NodeOf(Named)) /\ m.values \in Seq(LV!NodeOf(Decls))
        /\ m = [index |-> m.index, values |-> m.values]
    BY DEF Memory
  <1>2. LI!WellFormed(m.index, Named) /\ LV!WellFormed(m.values, Decls)
    BY DEF Memory
  <1>3. \A S, s : s \in Seq(S) => Len(s) \in Nat /\ DOMAIN s = 1..Len(s)
    OBVIOUS
  <1> QED BY <1>1, <1>2, <1>3

\* Variables with a name are variables.
LEMMA NamedAreVars ==
  /\ Named \subseteq C!Vars /\ MaxShadow \in Nat
  /\ \A i \in 0..MaxShadow : [name |-> C!Auto, shadow |-> i] \in C!Vars \ Named
  /\ C!NoVar \notin Named /\ C!NoDecl \notin Decls
  BY NamesAssumption DEF Named, C!Vars, C!Auto, C!NoVar, C!NoDecl, Decls

\* Context d of memory g means what context c of m means: names stand for the
\* same variables, and variables with a name for the same declarations.
SameMeaning(m, c, g, d) ==
  /\ \A name \in Names : C!VarOf(g, d, name) = C!VarOf(m, c, name)
  /\ \A v \in Named : C!DeclOf(g, d, v) = C!DeclOf(m, c, v)

\* All contexts of m are contexts of g and mean what they meant, and no level
\* has got a name.
Keeps(m, g) ==
  /\ g \in Memory /\ Len(m.index) <= Len(g.index) /\ Len(m.values) <= Len(g.values)
  /\ \A n \in DOMAIN m.index : g.index[n].index = m.index[n].index
  /\ \A c : IsContext(m, c) => IsContext(g, c) /\ SameMeaning(m, c, g, c)

\* Variables with an entry in g are those that had one in m; the old nodes
\* have no new ones.
NothingNew(m, g) ==
  \A n \in DOMAIN g.values, v \in Named : Holds(g, n, v) =>
    \E q \in DOMAIN m.values : Holds(m, q, v) /\ (n \in DOMAIN m.values => n = q)

LEMMA SameMeaningTrans ==
  ASSUME NEW m, NEW c, NEW g, NEW d, NEW h, NEW e, SameMeaning(m, c, g, d), SameMeaning(g, d, h, e)
  PROVE  SameMeaning(m, c, h, e)
  BY DEF SameMeaning

LEMMA KeepsTrans ==
  ASSUME NEW m \in Memory, NEW g, NEW h, Keeps(m, g), Keeps(g, h)
  PROVE  Keeps(m, h)
  <1>1. /\ Len(m.index) \in Nat /\ Len(g.index) \in Nat /\ Len(h.index) \in Nat
        /\ Len(m.values) \in Nat /\ Len(g.values) \in Nat /\ Len(h.values) \in Nat
    BY MemoryParts DEF Keeps
  <1>2. /\ Len(m.index) <= Len(h.index) /\ Len(m.values) <= Len(h.values)
        /\ \A n \in DOMAIN m.index : h.index[n].index = m.index[n].index
    <2>1. DOMAIN m.index \subseteq DOMAIN g.index
      <3>1. g \in Memory /\ Len(m.index) <= Len(g.index)
        BY DEF Keeps
      <3> QED BY <3>1, MemoryParts
    <2> QED BY <1>1, <2>1 DEF Keeps
  <1>3. ASSUME NEW c, IsContext(m, c) PROVE IsContext(h, c) /\ SameMeaning(m, c, h, c)
    <2>1. IsContext(g, c) /\ SameMeaning(m, c, g, c)
      BY <1>3 DEF Keeps
    <2>2. IsContext(h, c) /\ SameMeaning(g, c, h, c)
      BY <2>1 DEF Keeps
    <2> QED BY <2>1, <2>2, SameMeaningTrans
  <1> QED BY <1>2, <1>3 DEF Keeps

LEMMA NothingNewTrans ==
  ASSUME NEW m \in Memory, NEW g, NEW h, NothingNew(m, g), NothingNew(g, h), Keeps(m, g)
  PROVE  NothingNew(m, h)
  <1>1. DOMAIN m.values \subseteq DOMAIN g.values
    <2>1. g \in Memory /\ Len(m.values) <= Len(g.values)
      BY DEF Keeps
    <2> QED BY <2>1, MemoryParts
  <1>2. ASSUME NEW n \in DOMAIN h.values, NEW v \in Named, Holds(h, n, v)
        PROVE  \E q \in DOMAIN m.values : Holds(m, q, v) /\ (n \in DOMAIN m.values => n = q)
    <2>1. PICK p \in DOMAIN g.values : Holds(g, p, v) /\ (n \in DOMAIN g.values => n = p)
      BY <1>2 DEF NothingNew
    <2>2. PICK q \in DOMAIN m.values : Holds(m, q, v) /\ (p \in DOMAIN m.values => p = q)
      BY <2>1 DEF NothingNew
    <2> QED BY <1>1, <2>1, <2>2
  <1> QED BY <1>2 DEF NothingNew

\* Heaps in which old nodes find what they found are a memory that keeps all
\* contexts.
KeepsIndex(h, g) ==
  LI!WellFormed(g, Named) /\ Len(h) <= Len(g) /\ (\A n \in DOMAIN h : g[n].index = h[n].index) /\
  \A n \in DOMAIN h, k \in Names : \A none : LI!Value(g, n, k, none) = LI!Value(h, n, k, none)
KeepsValues(h, g) ==
  LV!WellFormed(g, Decls) /\ Len(h) <= Len(g) /\
  \A n \in DOMAIN h, v \in Named : \A none : LV!Value(g, n, v, none) = LV!Value(h, n, v, none)

LEMMA KeepsBoth ==
  ASSUME NEW m \in Memory, NEW g, g = [index |-> g.index, values |-> g.values],
         KeepsIndex(m.index, g.index), KeepsValues(m.values, g.values)
  PROVE  Keeps(m, g)
  <1>1. g \in Memory
    <2>1. g.index \in Seq(LI!NodeOf(Named)) /\ g.values \in Seq(LV!NodeOf(Decls))
      BY DEF KeepsIndex, KeepsValues, LI!WellFormed, LV!WellFormed
    <2> QED BY <2>1 DEF Memory, KeepsIndex, KeepsValues
  <1>2. DOMAIN m.index \subseteq DOMAIN g.index /\ DOMAIN m.values \subseteq DOMAIN g.values
    BY <1>1, MemoryParts DEF KeepsIndex, KeepsValues
  <1>3. ASSUME NEW c, IsContext(m, c) PROVE IsContext(g, c) /\ SameMeaning(m, c, g, c)
    <2>1. IsContext(g, c)
      BY <1>2, <1>3 DEF IsContext
    <2>2. ASSUME NEW name \in Names PROVE C!VarOf(g, c, name) = C!VarOf(m, c, name)
      BY <1>3, LookedUp DEF KeepsIndex, IsContext
    <2>3. ASSUME NEW v \in Named PROVE C!DeclOf(g, c, v) = C!DeclOf(m, c, v)
      BY <1>3, LookedUp DEF KeepsValues, IsContext
    <2> QED BY <2>1, <2>2, <2>3 DEF SameMeaning
  <1> QED BY <1>1, <1>3 DEF Keeps, KeepsIndex, KeepsValues

ChildOfIndex(h, g, n) ==
  /\ KeepsIndex(h, g) /\ Len(g) = Len(h) + 1 /\ Len(g) \in DOMAIN g
  /\ \A k \in Names : g[Len(g)].index[k] = 0
  /\ \A k \in Names : \A none : LI!Value(g, Len(g), k, none) = LI!Value(h, n, k, none)

LEMMA ChildIndex ==
  ASSUME NEW h, LI!WellFormed(h, Named), NEW n \in DOMAIN h
  PROVE  ChildOfIndex(h, Append(h, C!I!ChildNode(h, n)), n)
  <1> DEFINE g == Append(h, C!I!ChildNode(h, n))
  <1>1. LI!ChildAdded(h, g, n, Named)
    BY LI!ChildSees, SameIndex
  <1>2. /\ LI!WellFormed(g, Named) /\ Len(g) = Len(h) + 1 /\ Len(g) \in DOMAIN g
        /\ \A k \in Names : g[Len(g)].index[k] = 0
        /\ \A k \in Names : \A none : LI!Value(g, Len(g), k, none) = LI!Value(h, n, k, none)
    BY <1>1 DEF LI!ChildAdded, LI!Absent
  <1>3. \A q \in DOMAIN h, k \in Names : \A none : LI!Value(g, q, k, none) = LI!Value(h, q, k, none)
    BY <1>1 DEF LI!ChildAdded, LI!KeepsNode, LI!KeepsLookups
  <1>4. Len(h) \in Nat
    BY DEF LI!WellFormed
  <1>5. \A q \in DOMAIN h : g[q] = h[q]
    BY <1>1 DEF LI!ChildAdded, LI!KeepsNode
  <1> QED BY <1>2, <1>3, <1>4, <1>5 DEF KeepsIndex, ChildOfIndex

ChildOfValues(h, g, n) ==
  /\ KeepsValues(h, g) /\ Len(g) = Len(h) + 1 /\ Len(g) \in DOMAIN g
  /\ \A k \in C!Vars : g[Len(g)].index[k] = 0
  /\ \A q \in DOMAIN h : g[q] = h[q]
  /\ \A k \in C!Vars : \A none : LV!Value(g, Len(g), k, none) = LV!Value(h, n, k, none)

LEMMA ChildValues ==
  ASSUME NEW h, LV!WellFormed(h, Decls), NEW n \in DOMAIN h
  PROVE  ChildOfValues(h, Append(h, C!V!ChildNode(h, n)), n)
  <1> DEFINE g == Append(h, C!V!ChildNode(h, n))
  <1>1. LV!ChildAdded(h, g, n, Decls)
    BY LV!ChildSees, SameValues
  <1>2. /\ LV!WellFormed(g, Decls) /\ Len(g) = Len(h) + 1 /\ Len(g) \in DOMAIN g
        /\ \A k \in C!Vars : g[Len(g)].index[k] = 0
        /\ \A k \in C!Vars : \A none : LV!Value(g, Len(g), k, none) = LV!Value(h, n, k, none)
    BY <1>1 DEF LV!ChildAdded, LV!Absent
  <1>3. \A q \in DOMAIN h, k \in C!Vars : \A none : LV!Value(g, q, k, none) = LV!Value(h, q, k, none)
    BY <1>1 DEF LV!ChildAdded, LV!KeepsNode, LV!KeepsLookups
  <1>4. Len(h) \in Nat
    BY DEF LV!WellFormed
  <1>5. \A q \in DOMAIN h : g[q] = h[q]
    BY <1>1 DEF LV!ChildAdded, LV!KeepsNode
  <1> QED BY <1>2, <1>3, <1>4, <1>5, NamedAreVars DEF KeepsValues, ChildOfValues

\* extend(), extend_scoped() and extend_unscoped().
ExtendsTo(m, c, s, g, d) ==
  /\ Keeps(m, g) /\ NothingNew(m, g)
  /\ Len(g.index) = Len(m.index) + 1 /\ Len(g.values) = Len(m.values) + 1
  /\ d = [scoped |-> s, id |-> c.id + 1, index |-> Len(g.index), values |-> Len(g.values)]
  /\ IsContext(g, d) /\ SameMeaning(m, c, g, d)
  /\ \A name \in Names : g.index[d.index].index[name] = 0

LEMMA ExtendedMeans ==
  ASSUME NEW m \in Memory, NEW c, IsContext(m, c), NEW s \in BOOLEAN
  PROVE  LET r == C!Extended(m, c, s) IN ExtendsTo(m, c, s, r.memory, r.context)
  <1> DEFINE r == C!Extended(m, c, s)
  <1>1. PICK g, d : g = r.memory /\ d = r.context
    OBVIOUS
  <1>2. /\ g = [index |-> g.index, values |-> g.values]
        /\ g.index = Append(m.index, C!I!ChildNode(m.index, c.index))
        /\ g.values = Append(m.values, C!V!ChildNode(m.values, c.values))
        /\ d = [scoped |-> s, id |-> c.id + 1, index |-> Len(m.index) + 1, values |-> Len(m.values) + 1]
    BY <1>1 DEF C!Extended
  <1> HIDE DEF r
  <1>3. c \in Context /\ c.index \in DOMAIN m.index /\ c.values \in DOMAIN m.values
    BY DEF IsContext
  <1>4. ChildOfIndex(m.index, g.index, c.index)
    BY <1>2, <1>3, MemoryParts, ChildIndex
  <1>5. ChildOfValues(m.values, g.values, c.values)
    BY <1>2, <1>3, MemoryParts, ChildValues
  <1>6. Keeps(m, g)
    BY <1>2, <1>4, <1>5, KeepsBoth DEF ChildOfIndex, ChildOfValues
  <1>7. d.index = Len(g.index) /\ d.values = Len(g.values) /\ d \in Context
        /\ d = [scoped |-> s, id |-> c.id + 1, index |-> Len(g.index), values |-> Len(g.values)]
    BY <1>2, <1>3, <1>4, <1>5, MemoryParts DEF Context, ChildOfIndex, ChildOfValues
  <1>8. SameMeaning(m, c, g, d)
    <2>1. ASSUME NEW k \in Names PROVE C!VarOf(g, d, k) = C!VarOf(m, c, k)
      BY <1>4, <1>7, LookedUp DEF ChildOfIndex
    <2>2. ASSUME NEW v \in Named PROVE C!DeclOf(g, d, v) = C!DeclOf(m, c, v)
      BY <1>5, <1>7, LookedUp, NamedAreVars DEF ChildOfValues
    <2> QED BY <2>1, <2>2 DEF SameMeaning
  <1>9. NothingNew(m, g)
    <2>1. g \in Memory
      BY <1>6 DEF Keeps
    <2>2. DOMAIN g.values = DOMAIN m.values \union {Len(g.values)}
      BY <1>5, <2>1, MemoryParts DEF ChildOfValues
    <2>3. ASSUME NEW n \in DOMAIN g.values, NEW v \in Named, Holds(g, n, v)
          PROVE  n \in DOMAIN m.values /\ Holds(m, n, v)
      BY <1>5, <2>2, <2>3, NamedAreVars DEF Holds, ChildOfValues
    <2> QED BY <2>3 DEF NothingNew
  <1>10. IsContext(g, d)
    BY <1>4, <1>5, <1>7 DEF IsContext, ChildOfIndex, ChildOfValues
  <1> QED BY <1>1, <1>4, <1>5, <1>6, <1>7, <1>8, <1>9, <1>10 DEF ExtendsTo, r, ChildOfIndex, ChildOfValues

\* try_emplace() of a name, and of a variable, that a level does not have.
EmplacesIndex(h, g, n, k, x) ==
  /\ LI!WellFormed(g, Named) /\ Len(g) = Len(h) /\ g[n].index[k] # 0
  /\ \A none : LI!Value(g, n, k, none) = x
  /\ \A q \in DOMAIN h, j \in Names : ~(q = n /\ j = k) =>
       /\ g[q].index[j] = h[q].index[j]
       /\ \A none : LI!Value(g, q, j, none) = LI!Value(h, q, j, none)

LEMMA EmplacingIndex ==
  ASSUME NEW h, LI!WellFormed(h, Named), NEW n \in DOMAIN h, NEW k \in Names, NEW x \in Named,
         h[n].index[k] = 0
  PROVE  EmplacesIndex(h, C!I!Emplaced(h, n, k, x), n, k, x)
  <1> DEFINE g == LI!Emplaced(h, n, k, x)
  <1>1. C!I!Emplaced(h, n, k, x) = g /\ LI!Absent = 0
    BY SameIndex
  <1>2. LI!EntryAdded(h, g, n, k, x) /\ g \in Seq(LI!NodeOf(Named))
    BY <1>1, LI!EmplacedAdds
  <1> HIDE DEF g
  <1>3. LI!WellFormed(g, Named)
    BY <1>1, <1>2, LI!AddedWellFormed
  <1>4. /\ \A none : LI!Value(g, n, k, none) = x
        /\ \A q \in DOMAIN h, j \in Names : ~(q = n /\ j = k) =>
             \A none : LI!Value(g, q, j, none) = LI!Value(h, q, j, none)
    BY <1>1, <1>2, <1>3, LI!AddedSees
  <1>5. h[n].index \in [Names -> Nat]
    BY LI!NodeParts DEF LI!WellFormed
  <1>6. ASSUME NEW q \in DOMAIN h, NEW j \in Names, ~(q = n /\ j = k)
        PROVE  g[q].index[j] = h[q].index[j]
    BY <1>2, <1>5, <1>6 DEF LI!EntryAdded
  <1>7. Len(g) = Len(h) /\ g[n].index[k] # 0
    <2>1. Len(h[n].data) \in Nat
      BY LI!NodeParts DEF LI!WellFormed
    <2> QED BY <1>2, <1>5, <2>1 DEF LI!EntryAdded
  <1> QED BY <1>1, <1>3, <1>4, <1>6, <1>7 DEF EmplacesIndex

EmplacesValue(h, g, n, k, x) ==
  /\ LV!WellFormed(g, Decls) /\ Len(g) = Len(h)
  /\ \A none : LV!Value(g, n, k, none) = x
  /\ \A q \in DOMAIN h, j \in C!Vars : ~(q = n /\ j = k) =>
       /\ g[q].index[j] = h[q].index[j]
       /\ \A none : LV!Value(g, q, j, none) = LV!Value(h, q, j, none)

LEMMA EmplacingValue ==
  ASSUME NEW h, LV!WellFormed(h, Decls), NEW n \in DOMAIN h, NEW k \in C!Vars, NEW x \in Decls,
         h[n].index[k] = 0
  PROVE  EmplacesValue(h, C!V!Emplaced(h, n, k, x), n, k, x)
  <1> DEFINE g == LV!Emplaced(h, n, k, x)
  <1>1. C!V!Emplaced(h, n, k, x) = g /\ LV!Absent = 0
    BY SameValues
  <1>2. LV!EntryAdded(h, g, n, k, x) /\ g \in Seq(LV!NodeOf(Decls))
    BY <1>1, LV!EmplacedAdds
  <1> HIDE DEF g
  <1>3. LV!WellFormed(g, Decls)
    BY <1>1, <1>2, LV!AddedWellFormed
  <1>4. /\ \A none : LV!Value(g, n, k, none) = x
        /\ \A q \in DOMAIN h, j \in C!Vars : ~(q = n /\ j = k) =>
             \A none : LV!Value(g, q, j, none) = LV!Value(h, q, j, none)
    BY <1>1, <1>2, <1>3, LV!AddedSees
  <1>5. h[n].index \in [C!Vars -> Nat]
    BY LV!NodeParts DEF LV!WellFormed
  <1>6. ASSUME NEW q \in DOMAIN h, NEW j \in C!Vars, ~(q = n /\ j = k)
        PROVE  g[q].index[j] = h[q].index[j]
    BY <1>2, <1>5, <1>6 DEF LV!EntryAdded
  <1>7. Len(g) = Len(h)
    BY <1>2 DEF LV!EntryAdded
  <1> QED BY <1>1, <1>3, <1>4, <1>6, <1>7 DEF EmplacesValue

DeclTypes == {"plain", "cond", "known"}

LEMMA DeclType ==
  ASSUME NEW c \in Context, NEW t \in DeclTypes
  PROVE  C!Decl(c, t) \in Decls /\ C!Decl(c, t) = [type |-> t, scope |-> C!Scope(c)]
  BY DEF C!Decl, C!Scope, C!Unscoped, Context, Decls, DeclTypes

\* add_unnamed(): nothing with a name changes.
AddsUnnamed(m, g) ==
  /\ Keeps(m, g) /\ NothingNew(m, g) /\ g.index = m.index /\ Len(g.values) = Len(m.values)

LEMMA UnnamedMeans ==
  ASSUME NEW m \in Memory, NEW c, IsContext(m, c), NEW t \in DeclTypes, C!Unused(m) # {}
  PROVE  AddsUnnamed(m, C!UnnamedAdded(m, c, t))
  <1> DEFINE i == C!Min(C!Unused(m))
             w == C!UnnamedVar(m)
  <1>1. i \in C!Unused(m)
    <2>1. C!Unused(m) \subseteq 0..MaxShadow /\ MaxShadow \in Nat
      BY NamesAssumption DEF C!Unused
    <2>2. PICK x \in C!Unused(m) : \A y \in C!Unused(m) : x <= y
      BY <2>1, LI!LeastOf
    <2> QED BY <2>2 DEF C!Min
  <1>2. w = [name |-> C!Auto, shadow |-> i] /\ i \in 0..MaxShadow /\ w \in C!Vars \ Named
    BY <1>1, NamedAreVars DEF C!UnnamedVar, C!Unused
  <1>3. \A n \in DOMAIN m.values : m.values[n].index[w] = 0
    BY <1>1, <1>2, SameValues DEF C!Unused
  <1>4. PICK g : g = C!UnnamedAdded(m, c, t)
    OBVIOUS
  <1> HIDE DEF w, i
  <1>5. /\ g = [index |-> m.index, values |-> C!V!Emplaced(m.values, c.values, w, C!Decl(c, t))]
        /\ g = [index |-> g.index, values |-> g.values]
    BY <1>4, MemoryParts DEF C!UnnamedAdded, w
  <1>6. c \in Context /\ c.values \in DOMAIN m.values
    BY DEF IsContext
  <1>7. EmplacesValue(m.values, g.values, c.values, w, C!Decl(c, t))
    BY <1>2, <1>3, <1>5, <1>6, MemoryParts, DeclType, EmplacingValue
  <1>8. KeepsValues(m.values, g.values)
    <2>1. Len(m.values) <= Len(g.values)
      BY <1>7, MemoryParts DEF EmplacesValue
    <2> QED BY <1>2, <1>7, <2>1, NamedAreVars DEF EmplacesValue, KeepsValues
  <1>9. KeepsIndex(m.index, g.index)
    BY <1>5, MemoryParts DEF KeepsIndex
  <1>10. Keeps(m, g)
    BY <1>5, <1>8, <1>9, KeepsBoth
  <1>11. NothingNew(m, g)
    <2>1. g \in Memory
      BY <1>10 DEF Keeps
    <2>2. DOMAIN g.values = DOMAIN m.values
      BY <1>7, <2>1, MemoryParts DEF EmplacesValue
    <2>3. ASSUME NEW n \in DOMAIN g.values, NEW v \in Named, Holds(g, n, v)
          PROVE  Holds(m, n, v)
      BY <1>2, <1>7, <2>2, <2>3, NamedAreVars DEF Holds, EmplacesValue
    <2> QED BY <2>2, <2>3 DEF NothingNew
  <1> QED BY <1>4, <1>5, <1>7, <1>10, <1>11 DEF AddsUnnamed, EmplacesValue

\* try_emplace(): name stands for variable v from then on, and nothing else
\* that had a name changes anywhere.
Declares(m, c, name, v, d, g) ==
  /\ g \in Memory /\ Len(g.index) = Len(m.index) /\ Len(g.values) = Len(m.values)
  /\ C!VarOf(g, c, name) = v /\ C!DeclOf(g, c, v) = d /\ g.index[c.index].index[name] # 0
  /\ \A e : IsContext(m, e) => IsContext(g, e)
  /\ \A e : \A x \in Names : IsContext(m, e) /\ ~(e.index = c.index /\ x = name) =>
       C!VarOf(g, e, x) = C!VarOf(m, e, x)
  /\ \A e : \A x \in Named : IsContext(m, e) /\ ~(e.values = c.values /\ x = v) =>
       C!DeclOf(g, e, x) = C!DeclOf(m, e, x)
  /\ \A n \in DOMAIN m.index, x \in Names : ~(n = c.index /\ x = name) =>
       g.index[n].index[x] = m.index[n].index[x]
  /\ \A n \in DOMAIN m.values, x \in Named : ~(n = c.values /\ x = v) =>
       (Holds(g, n, x) <=> Holds(m, n, x))

LEMMA DeclaredMeans ==
  ASSUME NEW m \in Memory, NEW c, IsContext(m, c), NEW name \in Names, NEW t \in DeclTypes,
         NEW v \in Named, v = C!NewVar(m, c, name),
         m.index[c.index].index[name] = 0, ~Holds(m, c.values, v)
  PROVE  Declares(m, c, name, v, C!Decl(c, t), C!Declared(m, c, name, t))
  <1>1. PICK g, d : g = C!Declared(m, c, name, t) /\ d = C!Decl(c, t)
    OBVIOUS
  <1>2. /\ g = [index |-> g.index, values |-> g.values]
        /\ g.index = C!I!Emplaced(m.index, c.index, name, v)
        /\ g.values = C!V!Emplaced(m.values, c.values, v, d)
    BY <1>1 DEF C!Declared
  <1>3. c \in Context /\ c.index \in DOMAIN m.index /\ c.values \in DOMAIN m.values
    BY DEF IsContext
  <1>4. EmplacesIndex(m.index, g.index, c.index, name, v)
    BY <1>2, <1>3, MemoryParts, EmplacingIndex
  <1>5. EmplacesValue(m.values, g.values, c.values, v, d)
    <2>1. m.values[c.values].index[v] = 0 /\ d \in Decls /\ v \in C!Vars
      BY <1>1, <1>3, DeclType, NamedAreVars DEF Holds
    <2> QED BY <1>2, <1>3, <2>1, MemoryParts, EmplacingValue
  <1>6. g \in Memory
    <2>1. LI!WellFormed(g.index, Named) /\ LV!WellFormed(g.values, Decls)
      BY <1>4, <1>5 DEF EmplacesIndex, EmplacesValue
    <2>2. g.index \in Seq(LI!NodeOf(Named)) /\ g.values \in Seq(LV!NodeOf(Decls))
      BY <2>1 DEF LI!WellFormed, LV!WellFormed
    <2> QED BY <1>2, <2>1, <2>2 DEF Memory
  <1>7. /\ Len(g.index) = Len(m.index) /\ Len(g.values) = Len(m.values)
        /\ DOMAIN g.index = DOMAIN m.index /\ DOMAIN g.values = DOMAIN m.values
    BY <1>4, <1>5, <1>6, MemoryParts DEF EmplacesIndex, EmplacesValue
  <1>8. C!VarOf(g, c, name) = v /\ C!DeclOf(g, c, v) = d /\ g.index[c.index].index[name] # 0
    BY <1>4, <1>5, LookedUp DEF EmplacesIndex, EmplacesValue
  <1>9. ASSUME NEW e, IsContext(m, e)
        PROVE  /\ IsContext(g, e)
               /\ \A x \in Names : ~(e.index = c.index /\ x = name) =>
                    C!VarOf(g, e, x) = C!VarOf(m, e, x)
               /\ \A x \in Named : ~(e.values = c.values /\ x = v) =>
                    C!DeclOf(g, e, x) = C!DeclOf(m, e, x)
    <2>1. IsContext(g, e) /\ e.index \in DOMAIN m.index /\ e.values \in DOMAIN m.values
      BY <1>7, <1>9 DEF IsContext
    <2>2. ASSUME NEW x \in Names, ~(e.index = c.index /\ x = name)
          PROVE  C!VarOf(g, e, x) = C!VarOf(m, e, x)
      BY <1>4, <2>1, <2>2, LookedUp DEF EmplacesIndex
    <2>3. ASSUME NEW x \in Named, ~(e.values = c.values /\ x = v)
          PROVE  C!DeclOf(g, e, x) = C!DeclOf(m, e, x)
      BY <1>5, <2>1, <2>3, LookedUp, NamedAreVars DEF EmplacesValue
    <2> QED BY <2>1, <2>2, <2>3
  <1>10. \A n \in DOMAIN m.index, x \in Names : ~(n = c.index /\ x = name) =>
            g.index[n].index[x] = m.index[n].index[x]
    BY <1>4 DEF EmplacesIndex
  <1>11. \A n \in DOMAIN m.values, x \in Named : ~(n = c.values /\ x = v) =>
            (Holds(g, n, x) <=> Holds(m, n, x))
    BY <1>5, NamedAreVars DEF EmplacesValue, Holds
  <1> QED BY <1>1, <1>6, <1>7, <1>8, <1>9, <1>10, <1>11 DEF Declares

-----------------------------------------------------------------------------
(* rewrite().                                                              *)

LEMMA RewrittenDeclIs ==
  /\ \A d \in Decls :
       /\ C!RewrittenDecl(d) = [type |-> C!RewrittenType(d.type), scope |-> d.scope]
       /\ C!RewrittenDecl(d) \in Decls
  /\ C!RewrittenDecl(C!NoDecl) = C!NoDecl
  BY DEF C!RewrittenDecl, C!RewrittenType, Decls, C!NoDecl

\* The entries of a level, with the types rewritten.
RewrittenData(d, e) ==
  /\ e \in Seq(LV!EntryOf(Decls)) /\ Len(e) = Len(d) /\ DOMAIN e = DOMAIN d
  /\ \A a \in DOMAIN d : e[a].key = d[a].key /\ e[a].val = C!RewrittenDecl(d[a].val)

LEMMA RewrittenNodeIs ==
  ASSUME NEW o, NEW x, NEW d \in Seq(LV!EntryOf(Decls)),
         NEW node, node = [outer |-> o, data |-> d, index |-> x]
  PROVE  /\ C!RewrittenNode(node) = [outer |-> o, data |-> C!RewrittenNode(node).data, index |-> x]
         /\ RewrittenData(d, C!RewrittenNode(node).data)
  <1> DEFINE e == [i \in DOMAIN d |-> [d[i] EXCEPT !.val = C!RewrittenDecl(d[i].val)]]
  <1>1. C!RewrittenNode(node) = [outer |-> o, data |-> e, index |-> x]
    <2>1. node.data = d
      OBVIOUS
    <2>2. C!RewrittenNode(node) = [node EXCEPT !.data = e]
      BY <2>1 DEF C!RewrittenNode
    <2> HIDE DEF e
    <2> QED BY <2>2
  <1>2. DOMAIN d = 1..Len(d) /\ Len(d) \in Nat
    OBVIOUS
  <1>3. ASSUME NEW i \in 1..Len(d)
        PROVE  /\ e[i] \in LV!EntryOf(Decls)
               /\ e[i].key = d[i].key /\ e[i].val = C!RewrittenDecl(d[i].val)
    <2>1. d[i] \in LV!EntryOf(Decls)
      BY <1>2
    <2>2. d[i] = [key |-> d[i].key, val |-> d[i].val] /\ d[i].val \in Decls /\ d[i].key \in C!Vars
      BY <2>1 DEF LV!EntryOf
    <2>3. e[i] = [d[i] EXCEPT !.val = C!RewrittenDecl(d[i].val)]
      BY <1>2
    <2> HIDE DEF e
    <2>4. e[i] = [key |-> d[i].key, val |-> C!RewrittenDecl(d[i].val)]
      BY <2>2, <2>3
    <2> QED BY <2>2, <2>4, RewrittenDeclIs DEF LV!EntryOf
  <1>4. e = [i \in 1..Len(d) |-> e[i]] /\ DOMAIN e = 1..Len(d)
    BY <1>2
  <1> HIDE DEF e
  <1>5. e \in [1..Len(d) -> LV!EntryOf(Decls)]
    BY <1>3, <1>4
  <1>6. e \in Seq(LV!EntryOf(Decls)) /\ Len(e) = Len(d)
    BY <1>2, <1>5
  <1>7. RewrittenData(d, e)
    BY <1>2, <1>3, <1>4, <1>6 DEF RewrittenData
  <1>8. C!RewrittenNode(node).data = e
    BY <1>1
  <1> QED BY <1>1, <1>7, <1>8

\* g is heap h and then the rewritten copies of the levels of node n, the i-th
\* of them being node Len(h) + nb + 1 - i.
CopyOf(h, g, ls, nb, i) ==
  LET p == g[Len(h) + nb + 1 - i]
      q == ls[i].node
  IN  /\ p = [outer |-> p.outer, data |-> p.data, index |-> h[q].index]
      /\ RewrittenData(h[q].data, p.data)
      /\ p.outer = [l \in 1..(nb - i) |-> p.outer[l]]
      /\ \A l \in 1..(nb - i) :
           p.outer[l] = [node |-> Len(h) + nb + 1 - (i + l), limit |-> ls[i + l].limit]

Copied(h, g, n, ls, nb) ==
  /\ ls = LV!Levels(h, n) /\ nb = Len(ls)
  /\ nb \in Nat \ {0} /\ Len(g) = Len(h) + nb /\ DOMAIN g = 1..(Len(h) + nb)
  /\ \A q \in DOMAIN h : g[q] = h[q]
  /\ \A i \in 1..nb : CopyOf(h, g, ls, nb, i)

RewrittenHeap(h, n) ==
  LET copies == C!V!DeepCopied(h, n)
  IN  h \o [j \in DOMAIN copies |-> C!RewrittenNode(copies[j])]

LEMMA CopiesParts ==
  ASSUME NEW h, LV!WellFormed(h, Decls), NEW n \in DOMAIN h
  PROVE  LET ls == LV!Levels(h, n) IN Copied(h, RewrittenHeap(h, n), n, ls, Len(ls))
  <1> DEFINE ls == LV!Levels(h, n)
             nb == Len(ls)
             cs == C!V!DeepCopied(h, n)
             rs == [j \in DOMAIN cs |-> C!RewrittenNode(cs[j])]
             g == RewrittenHeap(h, n)
             src(j) == ls[nb + 1 - j].node
             out(j) == [i \in 1..(j - 1) |-> [node  |-> Len(h) + j - i,
                                              limit |-> ls[nb + 1 - j + i].limit]]
  <1>1. /\ ls \in Seq(LV!Level)
        /\ \A i \in DOMAIN ls : ls[i] \in LV!Level /\ ls[i].node \in DOMAIN h
    BY LV!LevelNodes
  <1>2. ls = <<[node |-> n, limit |-> Len(h[n].data)]>> \o h[n].outer /\ h[n].outer \in Seq(LV!Level)
    BY LV!OuterNodes DEF LV!Levels
  <1>3. Len(ls) = Len(h[n].outer) + 1
    BY <1>2
  <1>4. nb \in Nat \ {0} /\ DOMAIN ls = 1..nb
    <2>1. Len(h[n].outer) \in Nat
      BY <1>2
    <2>2. DOMAIN ls = 1..Len(ls)
      BY <1>1
    <2> QED BY <1>3, <2>1, <2>2
  <1>5. cs = [j \in 1..nb |-> [outer |-> out(j), data |-> h[src(j)].data, index |-> h[src(j)].index]]
    BY SameValues DEF C!V!DeepCopied
  <1>6. DOMAIN rs = 1..nb /\ \A j \in 1..nb : rs[j] = C!RewrittenNode(cs[j])
    BY <1>5
  <1>7. g = h \o rs /\ rs = [j \in 1..nb |-> rs[j]]
    BY <1>6 DEF RewrittenHeap
  <1> HIDE DEF g
  <1>8. ASSUME NEW j \in 1..nb
        PROVE  /\ rs[j] = [outer |-> out(j), data |-> rs[j].data, index |-> h[src(j)].index]
               /\ RewrittenData(h[src(j)].data, rs[j].data)
    <2>1. nb + 1 - j \in 1..nb /\ src(j) \in DOMAIN h
      <3>1. nb + 1 - j \in 1..nb
        BY <1>4
      <3> QED BY <1>1, <1>4, <3>1
    <2>2. h[src(j)].data \in Seq(LV!EntryOf(Decls))
      BY <2>1, LV!NodeParts DEF LV!WellFormed
    <2>3. cs[j] = [outer |-> out(j), data |-> h[src(j)].data, index |-> h[src(j)].index]
      BY <1>5
    <2>4. rs[j] = C!RewrittenNode(cs[j])
      BY <1>6
    <2>5. PICK o, d, x : o = out(j) /\ d = h[src(j)].data /\ x = h[src(j)].index
      OBVIOUS
    <2>6. cs[j] = [outer |-> o, data |-> d, index |-> x] /\ d \in Seq(LV!EntryOf(Decls))
      BY <2>2, <2>3, <2>5
    <2> HIDE DEF cs, rs, out, src, ls, nb
    <2>7. PICK node : node = cs[j]
      OBVIOUS
    <2>8. /\ C!RewrittenNode(node) = [outer |-> o, data |-> C!RewrittenNode(node).data, index |-> x]
          /\ RewrittenData(d, C!RewrittenNode(node).data)
      BY <2>6, <2>7, RewrittenNodeIs
    <2> QED BY <2>4, <2>5, <2>7, <2>8
  <1> HIDE DEF cs, rs, ls, nb
  <1>9. Len(rs) = nb /\ rs \in Seq({rs[j] : j \in 1..nb})
    <2>1. rs \in [1..nb -> {rs[j] : j \in 1..nb}]
      BY <1>6, <1>7
    <2> QED BY <1>4, <2>1
  <1>10. Len(h) \in Nat /\ DOMAIN h = 1..Len(h) /\ h \in Seq(LV!NodeOf(Decls))
    <2>1. h \in Seq(LV!NodeOf(Decls))
      BY DEF LV!WellFormed
    <2> QED BY <2>1
  <1>11. /\ Len(g) = Len(h) + nb /\ DOMAIN g = 1..(Len(h) + nb)
         /\ \A q \in DOMAIN h : g[q] = h[q]
         /\ \A j \in 1..nb : g[Len(h) + j] = rs[j]
    <2> DEFINE U == LV!NodeOf(Decls) \union {rs[j] : j \in 1..nb}
    <2>1. h \in Seq(U) /\ rs \in Seq(U)
      BY <1>9, <1>10
    <2> HIDE DEF U
    <2> QED BY <1>4, <1>7, <1>9, <1>10, <2>1
  <1>12. ASSUME NEW i \in 1..nb PROVE CopyOf(h, g, ls, nb, i)
    <2> DEFINE j == nb + 1 - i
    <2>1. j \in 1..nb /\ Len(h) + nb + 1 - i = Len(h) + j /\ nb + 1 - j = i /\ j - 1 = nb - i
      BY <1>4, <1>10
    <2> HIDE DEF j
    <2>2. src(j) = ls[i].node
      BY <2>1
    <2>3. g[Len(h) + nb + 1 - i] = rs[j]
      BY <1>11, <2>1
    <2>4. /\ rs[j] = [outer |-> out(j), data |-> rs[j].data, index |-> h[ls[i].node].index]
          /\ RewrittenData(h[ls[i].node].data, rs[j].data)
      BY <1>8, <2>1, <2>2
    <2>5. out(j) = [l \in 1..(nb - i) |-> out(j)[l]]
      BY <2>1
    <2>6. ASSUME NEW l \in 1..(nb - i)
          PROVE  out(j)[l] = [node |-> Len(h) + nb + 1 - (i + l), limit |-> ls[i + l].limit]
      <3>1. Len(h) + j - l = Len(h) + nb + 1 - (i + l) /\ nb + 1 - j + l = i + l
        BY <1>4, <1>10, <2>1 DEF j
      <3> QED BY <2>1, <3>1
    <2> DEFINE r == out(j)
               p == rs[j]
    <2>7. p.outer = r
      <3>1. p = [outer |-> r, data |-> p.data, index |-> h[ls[i].node].index]
        BY <2>4
      <3> HIDE DEF r, p
      <3> QED BY <3>1
    <2> HIDE DEF r, p
    <2>8. /\ p = [outer |-> p.outer, data |-> p.data, index |-> h[ls[i].node].index]
          /\ RewrittenData(h[ls[i].node].data, p.data)
          /\ p.outer = [l \in 1..(nb - i) |-> p.outer[l]]
          /\ \A l \in 1..(nb - i) :
               p.outer[l] = [node |-> Len(h) + nb + 1 - (i + l), limit |-> ls[i + l].limit]
      BY <2>4, <2>5, <2>6, <2>7 DEF r, p
    <2>9. g[Len(h) + nb + 1 - i] = p
      BY <2>3 DEF p
    <2> QED BY <2>8, <2>9 DEF CopyOf
  <1> QED BY <1>4, <1>11, <1>12 DEF Copied, g, ls, nb

LEMMA CopiedNodes ==
  ASSUME NEW h, LV!WellFormed(h, Decls), NEW n \in DOMAIN h, NEW g, NEW ls, NEW nb,
         Copied(h, g, n, ls, nb)
  PROVE  /\ Len(h) \in Nat /\ DOMAIN h = 1..Len(h)
         /\ ls \in Seq(LV!Level) /\ DOMAIN ls = 1..nb
         /\ \A i \in 1..nb :
              /\ ls[i] \in LV!Level /\ ls[i].limit \in Nat /\ ls[i].node \in DOMAIN h
              /\ ls[i].limit <= Len(h[ls[i].node].data)
              /\ h[ls[i].node] \in LV!NodeOf(Decls) /\ LV!Indexed(h[ls[i].node])
         /\ \A q \in DOMAIN g : q \in DOMAIN h \/ \E i \in 1..nb : q = Len(h) + nb + 1 - i
         /\ \A i \in 1..nb : Len(h) + nb + 1 - i \in DOMAIN g
  <1>1. Len(h) \in Nat /\ DOMAIN h = 1..Len(h) /\ h \in Seq(LV!NodeOf(Decls))
    <2>1. h \in Seq(LV!NodeOf(Decls))
      BY DEF LV!WellFormed
    <2> QED BY <2>1
  <1>2. /\ ls \in Seq(LV!Level)
        /\ \A i \in DOMAIN ls : /\ ls[i] \in LV!Level /\ ls[i].node \in DOMAIN h
                                /\ ls[i].limit <= Len(h[ls[i].node].data)
    BY LV!LevelNodes DEF Copied
  <1>3. DOMAIN ls = 1..nb
    BY <1>2 DEF Copied
  <1>4. nb \in Nat \ {0} /\ DOMAIN g = 1..(Len(h) + nb)
    BY DEF Copied
  <1>5. ASSUME NEW q \in DOMAIN g, q \notin DOMAIN h PROVE \E i \in 1..nb : q = Len(h) + nb + 1 - i
    <2> DEFINE i == Len(h) + nb + 1 - q
    <2>1. i \in 1..nb /\ q = Len(h) + nb + 1 - i
      BY <1>1, <1>4, <1>5
    <2> QED BY <2>1
  <1>6. \A i \in 1..nb : Len(h) + nb + 1 - i \in DOMAIN g
    BY <1>1, <1>4
  <1>7. ASSUME NEW i \in 1..nb
        PROVE  ls[i].limit \in Nat /\ h[ls[i].node] \in LV!NodeOf(Decls) /\ LV!Indexed(h[ls[i].node])
    <2>1. ls[i] \in LV!Level /\ ls[i].node \in DOMAIN h
      BY <1>2, <1>3
    <2>2. ls[i].limit \in Nat
      BY <2>1 DEF LV!Level
    <2> QED BY <1>1, <2>1, <2>2 DEF LV!WellFormed
  <1> QED BY <1>1, <1>2, <1>3, <1>5, <1>6, <1>7

LEMMA CopiesWellFormed ==
  ASSUME NEW h, LV!WellFormed(h, Decls), NEW n \in DOMAIN h, NEW g, g \in Seq({g[q] : q \in DOMAIN g}),
         NEW ls, NEW nb, Copied(h, g, n, ls, nb)
  PROVE  LV!WellFormed(g, Decls) /\ \A q \in DOMAIN h : LV!KeepsNode(h, g, q)
  <1>1. /\ nb \in Nat \ {0} /\ Len(g) = Len(h) + nb /\ DOMAIN g = 1..(Len(h) + nb)
        /\ \A q \in DOMAIN h : g[q] = h[q]
        /\ \A i \in 1..nb : CopyOf(h, g, ls, nb, i)
    BY DEF Copied
  <1>2. /\ Len(h) \in Nat /\ DOMAIN h = 1..Len(h)
        /\ \A i \in 1..nb :
              /\ ls[i].limit \in Nat /\ ls[i].node \in DOMAIN h
              /\ ls[i].limit <= Len(h[ls[i].node].data)
              /\ h[ls[i].node] \in LV!NodeOf(Decls) /\ LV!Indexed(h[ls[i].node])
        /\ \A q \in DOMAIN g : q \in DOMAIN h \/ \E i \in 1..nb : q = Len(h) + nb + 1 - i
    BY CopiedNodes
  <1>3. ASSUME NEW q \in DOMAIN h PROVE LV!KeepsNode(h, g, q)
    <2>1. q \in DOMAIN g
      BY <1>1, <1>2
    <2>2. \A i \in DOMAIN h[q].outer : h[q].outer[i].node \in DOMAIN h
      BY LV!OuterNodes
    <2> QED BY <1>1, <2>1, <2>2, LV!SameNodesSameNode
  <1>4. ASSUME NEW q \in DOMAIN h
        PROVE  g[q] \in LV!NodeOf(Decls) /\ LV!Within(g, q, g[q].outer) /\ LV!Indexed(g[q])
    <2> DEFINE o == h[q].outer
    <2>1. h \in Seq(LV!NodeOf(Decls)) /\ LV!Within(h, q, o) /\ LV!Indexed(h[q])
      BY DEF LV!WellFormed
    <2>2. h[q] \in LV!NodeOf(Decls)
      BY <2>1
    <2>3. \A i \in DOMAIN o : o[i].node \in DOMAIN h
      BY LV!OuterNodes
    <2>4. g[q].outer = o
      BY <1>1
    <2> HIDE DEF o
    <2>5. LV!Within(g, q, o)
      BY <1>1, <2>1, <2>3 DEF LV!Within
    <2> QED BY <1>1, <2>1, <2>2, <2>4, <2>5
  <1>5. ASSUME NEW i \in 1..nb
        PROVE  LET q == Len(h) + nb + 1 - i
               IN g[q] \in LV!NodeOf(Decls) /\ LV!Within(g, q, g[q].outer) /\ LV!Indexed(g[q])
    <2>1. PICK q : q = Len(h) + nb + 1 - i
      OBVIOUS
    <2>2. PICK p : p = g[q]
      OBVIOUS
    <2>3. PICK s : s = h[ls[i].node]
      OBVIOUS
    <2>4. /\ p = [outer |-> p.outer, data |-> p.data, index |-> s.index]
          /\ RewrittenData(s.data, p.data)
          /\ p.outer = [l \in 1..(nb - i) |-> p.outer[l]]
          /\ \A l \in 1..(nb - i) :
               p.outer[l] = [node |-> Len(h) + nb + 1 - (i + l), limit |-> ls[i + l].limit]
      BY <1>1, <2>1, <2>2, <2>3 DEF CopyOf
    <2>5. s \in LV!NodeOf(Decls) /\ LV!Indexed(s)
      BY <1>2, <2>3
    <2>6. /\ p.data \in Seq(LV!EntryOf(Decls)) /\ DOMAIN p.data = DOMAIN s.data
          /\ \A a \in DOMAIN s.data : p.data[a].key = s.data[a].key
      BY <2>4 DEF RewrittenData
    <2>7. LV!Indexed(p)
      <3>1. p.index = s.index
        BY <2>4
      <3> QED BY <2>5, <2>6, <3>1 DEF LV!Indexed
    <2>8. ASSUME NEW l \in 1..(nb - i)
          PROVE  /\ p.outer[l] \in LV!Level /\ p.outer[l].node \in 1..(q - 1)
                 /\ p.outer[l].limit <= Len(g[p.outer[l].node].data)
      <3>1. PICK j : j = i + l
        OBVIOUS
      <3>2. j \in 1..nb /\ Len(h) + nb + 1 - j \in 1..(q - 1) /\ Len(h) + nb + 1 - j \in Nat
        BY <1>1, <1>2, <2>1, <3>1
      <3>3. PICK e : e = p.outer[l]
        OBVIOUS
      <3>4. e = [node |-> Len(h) + nb + 1 - j, limit |-> ls[j].limit]
        BY <2>4, <3>1, <3>3
      <3>5. e.node = Len(h) + nb + 1 - j /\ e.limit = ls[j].limit
        BY <3>4
      <3>6. Len(g[Len(h) + nb + 1 - j].data) = Len(h[ls[j].node].data)
        BY <1>1, <3>2 DEF CopyOf, RewrittenData
      <3>7. ls[j].limit \in Nat /\ ls[j].limit <= Len(h[ls[j].node].data)
        BY <1>2, <3>2
      <3>8. e \in LV!Level
        BY <3>2, <3>4, <3>7 DEF LV!Level
      <3> QED BY <3>2, <3>3, <3>5, <3>6, <3>7, <3>8
    <2>9. nb - i \in Nat
      BY <1>1
    <2>10. p.outer \in Seq(LV!Level)
      <3>1. PICK o : o = p.outer
        OBVIOUS
      <3>2. /\ o = [l \in 1..(nb - i) |-> o[l]]
            /\ \A l \in 1..(nb - i) : o[l] \in LV!Level
        BY <2>4, <2>8, <3>1
      <3>3. o \in Seq(LV!Level)
        <4>1. o \in [1..(nb - i) -> LV!Level]
          BY <3>2
        <4> QED BY <2>9, <4>1
      <3> QED BY <3>1, <3>3
    <2>11. p \in LV!NodeOf(Decls)
      <3>1. s.index \in [C!Vars -> Nat]
        BY <2>5 DEF LV!NodeOf
      <3>2. [outer |-> p.outer, data |-> p.data, index |-> s.index] \in LV!NodeOf(Decls)
        BY <2>6, <2>10, <3>1 DEF LV!NodeOf
      <3> QED BY <2>4, <3>2
    <2>12. LV!Within(g, q, p.outer)
      BY <2>4, <2>8 DEF LV!Within
    <2> QED BY <2>1, <2>2, <2>7, <2>11, <2>12
  <1>6. \A q \in DOMAIN g : g[q] \in LV!NodeOf(Decls) /\ LV!Within(g, q, g[q].outer) /\ LV!Indexed(g[q])
    BY <1>2, <1>4, <1>5
  <1>7. g \in Seq(LV!NodeOf(Decls))
    BY <1>6
  <1> QED BY <1>3, <1>6, <1>7 DEF LV!WellFormed

\* What the last copy finds are the rewritten declarations.
LEMMA CopiesSee ==
  ASSUME NEW h, LV!WellFormed(h, Decls), NEW n \in DOMAIN h, NEW g, LV!WellFormed(g, Decls),
         NEW ls, NEW nb, Copied(h, g, n, ls, nb), NEW k \in C!Vars
  PROVE  LV!Value(g, Len(h) + nb, k, C!NoDecl) = C!RewrittenDecl(LV!Value(h, n, k, C!NoDecl))
  <1>1. PICK e, ms : e = Len(h) + nb /\ ms = LV!Levels(g, e)
    OBVIOUS
  <1>2. /\ nb \in Nat \ {0} /\ DOMAIN g = 1..(Len(h) + nb) /\ nb = Len(ls) /\ ls = LV!Levels(h, n)
        /\ \A i \in 1..nb : CopyOf(h, g, ls, nb, i)
    BY DEF Copied
  <1>3. /\ Len(h) \in Nat /\ DOMAIN h = 1..Len(h) /\ ls \in Seq(LV!Level) /\ DOMAIN ls = 1..nb
        /\ \A i \in 1..nb :
              /\ ls[i].limit \in Nat /\ ls[i].node \in DOMAIN h
              /\ h[ls[i].node] \in LV!NodeOf(Decls) /\ LV!Indexed(h[ls[i].node])
    BY CopiedNodes
  <1>4. e \in DOMAIN g
    BY <1>1, <1>2, <1>3
  <1>5. ms \in Seq(LV!Level)
    BY <1>1, <1>4, LV!LevelNodes
  <1>6. CopyOf(h, g, ls, nb, 1) /\ Len(h) + nb + 1 - 1 = e
    BY <1>1, <1>2, <1>3
  <1>7. /\ Len(g[e].data) = Len(h[ls[1].node].data)
        /\ g[e].outer = [l \in 1..(nb - 1) |-> g[e].outer[l]]
        /\ \A l \in 1..(nb - 1) :
             g[e].outer[l] = [node |-> Len(h) + nb + 1 - (1 + l), limit |-> ls[1 + l].limit]
    BY <1>6 DEF CopyOf, RewrittenData
  <1>8. Len(h[ls[1].node].data) = ls[1].limit
    <2>1. ls = <<[node |-> n, limit |-> Len(h[n].data)]>> \o h[n].outer /\ h[n].outer \in Seq(LV!Level)
      BY <1>2, LV!OuterNodes DEF LV!Levels
    <2>2. ls[1] = [node |-> n, limit |-> Len(h[n].data)]
      BY <2>1
    <2> QED BY <2>2
  <1>9. Len(ms) = nb /\ \A i \in 1..nb : ms[i].node = Len(h) + nb + 1 - i /\ ms[i].limit = ls[i].limit
    <2>1. PICK l, o : l = [node |-> e, limit |-> Len(g[e].data)] /\ o = g[e].outer
      OBVIOUS
    <2>2. ms = <<l>> \o o
      BY <1>1, <2>1 DEF LV!Levels
    <2>3. o \in Seq(LV!Level)
      BY <1>4, <2>1, LV!OuterNodes
    <2>4. o \in [1..(nb - 1) -> LV!Level] /\ nb - 1 \in Nat
      <3>1. o = [i \in 1..(nb - 1) |-> o[i]] /\ nb - 1 \in Nat
        BY <1>2, <1>7, <2>1
      <3>2. DOMAIN o = 1..(nb - 1)
        BY <3>1
      <3> QED BY <2>3, <3>1, <3>2
    <2>5. Len(o) = nb - 1
      BY <2>4
    <2>6. /\ Len(ms) = Len(o) + 1 /\ ms[1] = l /\ \A i \in 1..Len(o) : ms[i + 1] = o[i]
      BY <2>2, <2>3
    <2>7. ASSUME NEW i \in 1..nb
          PROVE  ms[i].node = Len(h) + nb + 1 - i /\ ms[i].limit = ls[i].limit
      <3>1. CASE i = 1
        BY <1>2, <1>3, <1>1, <1>7, <1>8, <2>1, <2>6, <3>1
      <3>2. CASE i # 1
        <4>1. PICK j : j = i - 1
          OBVIOUS
        <4>2. j \in 1..(nb - 1) /\ i = j + 1 /\ 1 + j = i
          BY <1>2, <3>2, <4>1
        <4>3. ms[i] = o[j]
          BY <2>5, <2>6, <4>2
        <4>4. o[j] = [node |-> Len(h) + nb + 1 - i, limit |-> ls[i].limit]
          BY <1>7, <2>1, <4>2
        <4> QED BY <4>3, <4>4
      <3> QED BY <3>1, <3>2
    <2>8. Len(ms) = nb
      BY <1>2, <2>5, <2>6
    <2> QED BY <2>7, <2>8
  <1>10. ASSUME NEW i \in 1..nb
         PROVE  /\ g[ms[i].node].index = h[ls[i].node].index
                /\ RewrittenData(h[ls[i].node].data, g[ms[i].node].data)
    <2>1. PICK p, s : p = g[Len(h) + nb + 1 - i] /\ s = h[ls[i].node]
      OBVIOUS
    <2>2. /\ p = [outer |-> p.outer, data |-> p.data, index |-> s.index]
          /\ RewrittenData(s.data, p.data)
      BY <1>2, <2>1 DEF CopyOf
    <2>3. p.index = s.index
      BY <2>2
    <2> QED BY <1>9, <2>1, <2>2, <2>3
  <1>11. LV!Alike(h, ls, g, ms, k)
    <2>1. \A i \in 1..nb : LV!PlaceAt(g, ms[i], k) = LV!PlaceAt(h, ls[i], k)
      BY <1>9, <1>10 DEF LV!PlaceAt
    <2> QED BY <1>2, <1>3, <1>9, <2>1 DEF LV!Alike
  <1>12. /\ LV!Value(h, n, k, C!NoDecl) = LV!ValueIn(h, ls, k, C!NoDecl)
         /\ LV!Value(g, e, k, C!NoDecl) = LV!ValueIn(g, ms, k, C!NoDecl)
    BY <1>1, <1>2, LV!ValueAlongLevels
  <1>13. CASE LV!FindIn(h, ls, k) = LV!NoCell /\ LV!FindIn(g, ms, k) = LV!NoCell
    BY <1>1, <1>12, <1>13, RewrittenDeclIs DEF LV!ValueIn
  <1>14. CASE LV!FindIn(h, ls, k) # LV!NoCell \/ LV!FindIn(g, ms, k) # LV!NoCell
    <2>1. PICK i \in DOMAIN ls : LV!BothStop(h, ls, g, ms, k, i)
      BY <1>3, <1>5, <1>11, <1>14, LV!FindInAlike
    <2>2. PICK a, q, p : a = LV!PlaceAt(h, ls[i], k) /\ q = ls[i].node /\ p = ms[i].node
      OBVIOUS
    <2>3. /\ a # 0 /\ LV!FindIn(h, ls, k) = <<q, a>> /\ LV!FindIn(g, ms, k) = <<p, a>>
      BY <2>1, <2>2 DEF LV!BothStop, LV!Absent
    <2>4. a = h[q].index[k] /\ a \in DOMAIN h[q].data
      <3>1. a = h[q].index[k]
        BY <2>2, <2>3 DEF LV!PlaceAt, LV!Absent
      <3>2. LV!Indexed(h[q])
        BY <1>3, <2>2
      <3> QED BY <2>3, <3>1, <3>2 DEF LV!Indexed, LV!Absent
    <2>5. RewrittenData(h[q].data, g[p].data)
      BY <1>3, <1>10, <2>2
    <2>6. g[p].data[a].val = C!RewrittenDecl(h[q].data[a].val)
      BY <2>4, <2>5 DEF RewrittenData
    <2>7. <<q, a>> # LV!NoCell /\ <<p, a>> # LV!NoCell
      BY <2>3 DEF LV!NoCell
    <2> QED BY <1>1, <1>12, <2>3, <2>6, <2>7 DEF LV!ValueIn, LV!At
  <1> QED BY <1>1, <1>13, <1>14

RewrittenTo(m, c, g, d) ==
  /\ Keeps(m, g) /\ NothingNew(m, g)
  /\ Len(g.index) = Len(m.index) + 1 /\ Len(m.values) < Len(g.values)
  /\ d = [scoped |-> c.scoped, id |-> c.id, index |-> Len(g.index), values |-> Len(g.values)]
  /\ IsContext(g, d)
  /\ \A name \in Names : C!VarOf(g, d, name) = C!VarOf(m, c, name)
  /\ \A v \in Named : C!DeclOf(g, d, v) = C!RewrittenDecl(C!DeclOf(m, c, v))
  /\ \A name \in Names : g.index[d.index].index[name] = 0

LEMMA RewrittenMeans ==
  ASSUME NEW m \in Memory, NEW c, IsContext(m, c)
  PROVE  LET r == C!Rewritten(m, c) IN RewrittenTo(m, c, r.memory, r.context)
  <1> DEFINE r == C!Rewritten(m, c)
             ls == LV!Levels(m.values, c.values)
  <1>1. PICK g, d, nb : g = r.memory /\ d = r.context /\ nb = Len(ls)
    OBVIOUS
  <1>2. c \in Context /\ c.index \in DOMAIN m.index /\ c.values \in DOMAIN m.values
    BY DEF IsContext
  <1>3. /\ g = [index |-> g.index, values |-> g.values]
        /\ g.index = Append(m.index, C!I!ChildNode(m.index, c.index))
        /\ g.values = RewrittenHeap(m.values, c.values)
        /\ d = [c EXCEPT !.index = Len(m.index) + 1,
                         !.values = Len(m.values) + Len(C!V!DeepCopied(m.values, c.values))]
    BY <1>1 DEF C!Rewritten, RewrittenHeap
  <1> HIDE DEF r
  <1>4. ChildOfIndex(m.index, g.index, c.index)
    BY <1>2, <1>3, MemoryParts, ChildIndex
  <1>5. Copied(m.values, g.values, c.values, ls, nb)
    BY <1>1, <1>2, <1>3, MemoryParts, CopiesParts
  <1>6. nb \in Nat \ {0} /\ Len(g.values) = Len(m.values) + nb
        /\ \A i \in 1..nb : CopyOf(m.values, g.values, ls, nb, i)
    BY <1>5 DEF Copied
  <1>7. Len(C!V!DeepCopied(m.values, c.values)) = nb
    <2>1. DOMAIN C!V!DeepCopied(m.values, c.values) = 1..nb
      BY <1>1, SameValues DEF C!V!DeepCopied
    <2> DEFINE cs == C!V!DeepCopied(m.values, c.values)
    <2>2. cs = [j \in 1..nb |-> cs[j]]
      BY <1>1, SameValues DEF C!V!DeepCopied
    <2> HIDE DEF cs
    <2>3. cs \in [1..nb -> {cs[j] : j \in 1..nb}]
      BY <2>2
    <2>4. Len(cs) = nb
      BY <1>6, <2>3
    <2> QED BY <2>4 DEF cs
  <1> HIDE DEF ls
  <1>8. LV!WellFormed(g.values, Decls) /\ \A q \in DOMAIN m.values : LV!KeepsNode(m.values, g.values, q)
    <2>1. g.values \in Seq({g.values[q] : q \in DOMAIN g.values})
      <3> DEFINE h == m.values
                 cs == C!V!DeepCopied(m.values, c.values)
                 rs == [j \in DOMAIN cs |-> C!RewrittenNode(cs[j])]
      <3>1. h \in Seq(LV!NodeOf(Decls))
        BY MemoryParts DEF LV!WellFormed
      <3>2. DOMAIN cs = 1..nb
        BY <1>1, SameValues DEF C!V!DeepCopied, ls
      <3>3. g.values = h \o rs
        BY <1>3 DEF RewrittenHeap
      <3> HIDE DEF cs, h
      <3>4. rs \in [1..nb -> {rs[j] : j \in 1..nb}]
        BY <3>2
      <3> HIDE DEF rs
      <3>5. rs \in Seq({rs[j] : j \in 1..nb})
        BY <1>6, <3>4
      <3> DEFINE U == LV!NodeOf(Decls) \union {rs[j] : j \in 1..nb}
      <3>6. g.values \in Seq(U)
        BY <3>1, <3>3, <3>5
      <3> HIDE DEF U
      <3> QED BY <3>6
    <2>2. LV!WellFormed(m.values, Decls)
      BY MemoryParts
    <2> QED BY <1>2, <1>5, <2>1, <2>2, CopiesWellFormed
  <1>9. KeepsValues(m.values, g.values)
    <2>1. \A n \in DOMAIN m.values, v \in C!Vars : \A none :
             LV!Value(g.values, n, v, none) = LV!Value(m.values, n, v, none)
      BY <1>8 DEF LV!KeepsNode, LV!KeepsLookups
    <2>2. Len(m.values) <= Len(g.values)
      BY <1>6, MemoryParts
    <2> QED BY <1>8, <2>1, <2>2, NamedAreVars DEF KeepsValues
  <1>10. KeepsIndex(m.index, g.index)
    BY <1>4 DEF ChildOfIndex
  <1>11. Keeps(m, g)
    BY <1>3, <1>9, <1>10, KeepsBoth
  <1>12. d = [scoped |-> c.scoped, id |-> c.id, index |-> Len(g.index), values |-> Len(g.values)]
         /\ d \in Context
    <2>1. Len(g.index) = Len(m.index) + 1 /\ Len(g.values) = Len(m.values) + nb
          /\ Len(g.index) \in Nat /\ Len(g.values) \in Nat
      BY <1>4, <1>6, MemoryParts DEF ChildOfIndex
    <2>2. d = [c EXCEPT !.index = Len(g.index), !.values = Len(g.values)]
      BY <1>3, <1>7, <2>1
    <2> QED BY <1>2, <2>1, <2>2 DEF Context
  <1>13. IsContext(g, d) /\ d.index = Len(g.index) /\ d.values = Len(g.values)
    <2>1. Len(g.values) \in DOMAIN g.values /\ Len(g.index) \in DOMAIN g.index
      <3>1. g \in Memory
        BY <1>11 DEF Keeps
      <3> QED BY <1>4, <1>6, <3>1, MemoryParts DEF ChildOfIndex
    <2> QED BY <1>12, <2>1 DEF IsContext
  <1>14. ASSUME NEW name \in Names PROVE C!VarOf(g, d, name) = C!VarOf(m, c, name)
    BY <1>4, <1>13, LookedUp DEF ChildOfIndex
  <1>15. ASSUME NEW v \in Named PROVE C!DeclOf(g, d, v) = C!RewrittenDecl(C!DeclOf(m, c, v))
    <2>1. v \in C!Vars /\ LV!WellFormed(m.values, Decls)
      BY NamedAreVars, MemoryParts
    <2>2. LV!Value(g.values, Len(m.values) + nb, v, C!NoDecl)
            = C!RewrittenDecl(LV!Value(m.values, c.values, v, C!NoDecl))
      BY <1>2, <1>5, <1>8, <2>1, CopiesSee
    <2> QED BY <1>6, <1>13, <2>2, LookedUp
  <1>16. NothingNew(m, g)
    <2>1. ASSUME NEW n \in DOMAIN g.values, NEW v \in Named, Holds(g, n, v)
          PROVE  \E q \in DOMAIN m.values : Holds(m, q, v) /\ (n \in DOMAIN m.values => n = q)
      <3>1. CASE n \in DOMAIN m.values
        BY <1>8, <2>1, <3>1 DEF Holds, LV!KeepsNode
      <3>2. CASE n \notin DOMAIN m.values
        <4> DEFINE h == m.values
                   k == g.values
        <4>1. LV!WellFormed(h, Decls) /\ c.values \in DOMAIN h /\ Copied(h, k, c.values, ls, nb)
          BY <1>2, <1>5, MemoryParts
        <4> HIDE DEF h, k
        <4>2. PICK i \in 1..nb : n = Len(h) + nb + 1 - i /\ ls[i].node \in DOMAIN h
          <5>1. /\ \A i \in 1..nb : ls[i].node \in DOMAIN h
                /\ \A q \in DOMAIN k : q \in DOMAIN h \/ \E i \in 1..nb : q = Len(h) + nb + 1 - i
            BY <4>1, CopiedNodes
          <5> QED BY <3>2, <5>1 DEF h, k
        <4>3. CopyOf(h, k, ls, nb, i)
          BY <4>1 DEF Copied
        <4>4. PICK p, s : p = k[n] /\ s = h[ls[i].node]
          OBVIOUS
        <4>5. p = [outer |-> p.outer, data |-> p.data, index |-> s.index]
          BY <4>2, <4>3, <4>4 DEF CopyOf
        <4>6. p.index = s.index
          BY <4>5
        <4>7. Holds(m, ls[i].node, v)
          BY <2>1, <4>4, <4>6 DEF Holds, h, k
        <4> QED BY <3>2, <4>2, <4>7 DEF h
      <3> QED BY <3>1, <3>2
    <2> QED BY <2>1 DEF NothingNew
  <1>17. Len(g.index) = Len(m.index) + 1 /\ Len(m.values) < Len(g.values)
         /\ \A name \in Names : g.index[d.index].index[name] = 0
    BY <1>4, <1>6, <1>13, MemoryParts DEF ChildOfIndex
  <1> QED BY <1>1, <1>11, <1>12, <1>13, <1>14, <1>15, <1>16, <1>17 DEF RewrittenTo, r

-----------------------------------------------------------------------------
(* What the frames have to do with contexts.                               *)

LEMMA FrameParts ==
  ASSUME NEW fs \in Seq(AFrame), NEW k \in DOMAIN fs
  PROVE  /\ fs[k] \in AFrame /\ fs[k].ctx \in Context /\ fs[k].ret \in Context
         /\ fs[k].ctx.id \in Nat /\ fs[k].ctx.index \in Nat /\ fs[k].ctx.values \in Nat
         /\ fs[k].ret.id \in Nat /\ fs[k].ret.index \in Nat /\ fs[k].ret.values \in Nat
         /\ fs[k].params \in Nat /\ fs[k].facts \in Nat /\ fs[k].known \in Nat
         /\ fs[k].before.index \in Nat /\ fs[k].before.values \in Nat /\ fs[k].before.binders \in Nat
         /\ k \in 1..Len(fs) /\ k \in Nat
  <1>1. fs[k] \in AFrame /\ k \in 1..Len(fs)
    OBVIOUS
  <1>2. fs[k].ctx \in Context /\ fs[k].ret \in Context
    BY <1>1 DEF AFrame
  <1>3. \A c \in Context : c.id \in Nat /\ c.index \in Nat /\ c.values \in Nat
    BY DEF Context
  <1>4. /\ fs[k].params \in Nat /\ fs[k].facts \in Nat /\ fs[k].known \in Nat
        /\ fs[k].before \in [index : Nat, values : Nat, binders : Nat]
    BY <1>1 DEF AFrame
  <1> QED BY <1>1, <1>2, <1>3, <1>4

LEMMA BinderParts ==
  ASSUME NEW bs \in Seq(ABinder), NEW i \in DOMAIN bs
  PROVE  /\ bs[i] \in ABinder /\ bs[i].name \in Names /\ bs[i].var \in Named
         /\ bs[i].var.name \in Names /\ bs[i].var.shadow \in Nat
         /\ bs[i].type \in {"plain", "cond"} /\ bs[i].depth \in Nat
         /\ i \in 1..Len(bs) /\ i \in Nat
  <1>1. bs[i] \in ABinder /\ i \in 1..Len(bs)
    OBVIOUS
  <1>2. bs[i].var \in Named /\ bs[i].type \in Types
    BY <1>1 DEF ABinder
  <1>3. bs[i].name \in Names /\ bs[i].type \in {"plain", "cond"} /\ bs[i].depth \in Nat
    BY <1>1, <1>2, NamesAssumption DEF ABinder
  <1>4. bs[i].var.name \in Names /\ bs[i].var.shadow \in 0..MaxShadow
    BY <1>2 DEF Named
  <1> QED BY <1>1, <1>2, <1>3, <1>4, NamedAreVars

LEMMA SoundParts ==
  ASSUME NEW m, NEW fs, NEW bs, Sound(m, fs, bs)
  PROVE  /\ m \in Memory /\ fs \in Seq(AFrame) /\ bs \in Seq(ABinder)
         /\ Len(fs) \in Nat \ {0} /\ DOMAIN fs = 1..Len(fs) /\ Len(fs) \in DOMAIN fs
         /\ Len(bs) \in Nat /\ DOMAIN bs = 1..Len(bs)
         /\ Shaped(fs) /\ Placed(m, fs) /\ Listed(fs, bs) /\ Distinct(bs) /\ Registered(m, fs, bs)
         /\ \A k \in DOMAIN fs : FrameSees(m, fs, bs, k)
         /\ \A k \in DOMAIN fs : IsContext(m, fs[k].ctx) /\ (RetInUse(fs[k]) => IsContext(m, fs[k].ret))
  <1>1. m \in Memory /\ fs \in Seq(AFrame) /\ bs \in Seq(ABinder) /\ fs # <<>>
    BY DEF Sound, Typed
  <1>2. /\ Len(fs) \in Nat \ {0} /\ DOMAIN fs = 1..Len(fs) /\ Len(fs) \in DOMAIN fs
        /\ Len(bs) \in Nat /\ DOMAIN bs = 1..Len(bs)
    BY <1>1
  <1> QED BY <1>1, <1>2 DEF Sound, FrameSees, Sees, SeesParameters

\* How many binders a construct can see.
LEMMA SeenParts ==
  ASSUME NEW m, NEW fs, NEW bs, Sound(m, fs, bs)
  PROVE  \A k \in DOMAIN fs :
           /\ Seen(fs, bs, k) \in 0..Len(bs) /\ fs[k].known <= Seen(fs, bs, k)
           /\ \A i \in DOMAIN bs : bs[i].depth <= k <=> i <= Seen(fs, bs, k)
           /\ \A j \in 1..k : Seen(fs, bs, j) <= Seen(fs, bs, k)
  <1>1. /\ fs \in Seq(AFrame) /\ bs \in Seq(ABinder) /\ Len(fs) \in Nat \ {0}
        /\ DOMAIN fs = 1..Len(fs) /\ Len(bs) \in Nat /\ DOMAIN bs = 1..Len(bs) /\ Listed(fs, bs)
    BY SoundParts
  <1>2. ASSUME NEW k \in DOMAIN fs
        PROVE  /\ Seen(fs, bs, k) \in 0..Len(bs) /\ fs[k].known <= Seen(fs, bs, k)
               /\ \A i \in DOMAIN bs : bs[i].depth <= k <=> i <= Seen(fs, bs, k)
    <2>1. fs[k].known <= Seen(fs, bs, k)
      BY <1>1 DEF Listed
    <2>2. CASE k = Len(fs)
      <3>1. \A i \in DOMAIN bs : bs[i].depth <= k
        BY <1>1, <2>2 DEF Listed
      <3> QED BY <1>1, <2>1, <2>2, <3>1 DEF Seen
    <2>3. CASE k # Len(fs)
      <3>1. PICK j : j = k + 1
        OBVIOUS
      <3>2. j \in 2..Len(fs) /\ j \in DOMAIN fs /\ Seen(fs, bs, k) = fs[j].before.binders
        BY <1>1, <2>3, <3>1 DEF Seen
      <3>3. fs[j].before.binders \in Nat /\ fs[j].before.binders <= Len(bs)
        BY <1>1, <3>2, FrameParts DEF Listed
      <3>4. ASSUME NEW i \in DOMAIN bs PROVE bs[i].depth <= k <=> i <= fs[j].before.binders
        <4>1. bs[i].depth < j <=> i <= fs[j].before.binders
          BY <1>1, <3>2 DEF Listed
        <4>2. bs[i].depth \in Nat
          BY <1>1, BinderParts
        <4> QED BY <1>1, <3>1, <4>1, <4>2
      <3> QED BY <2>1, <3>2, <3>3, <3>4
    <2> QED BY <2>2, <2>3
  <1>3. ASSUME NEW k \in DOMAIN fs, NEW j \in 1..k PROVE Seen(fs, bs, j) <= Seen(fs, bs, k)
    <2>1. PICK a, b : a = Seen(fs, bs, j) /\ b = Seen(fs, bs, k)
      OBVIOUS
    <2>2. j \in DOMAIN fs /\ a \in 0..Len(bs) /\ b \in 0..Len(bs)
      BY <1>1, <1>2, <2>1
    <2>3. CASE a = 0
      BY <2>1, <2>2, <2>3
    <2>4. CASE a # 0
      <3>1. a \in DOMAIN bs
        BY <1>1, <2>2, <2>4
      <3>2. bs[a].depth <= j /\ bs[a].depth \in Nat
        <4>1. a <= Seen(fs, bs, j)
          BY <2>1, <2>2
        <4> QED BY <1>1, <1>2, <2>2, <3>1, <4>1, BinderParts
      <3>3. bs[a].depth <= k
        BY <1>1, <3>2
      <3> QED BY <1>2, <2>1, <3>1, <3>3
    <2> QED BY <2>3, <2>4
  <1> QED BY <1>2, <1>3

\* Seen from construct k, two states have the same binders, and know the same.
AgreeUpto(fs, bs, gs, cs, k) ==
  LET n == Seen(fs, bs, k)
  IN  /\ Seen(gs, cs, k) = n /\ n \in Nat
      /\ \A i \in 1..n : cs[i] = bs[i] /\ bs[i].depth \in 1..k /\ bs[i].var \in Named
      /\ \A j \in 1..k : gs[j].known = fs[j].known /\ gs[j].ctx.id = fs[j].ctx.id

LEMMA TypeAgrees ==
  ASSUME NEW fs, NEW bs, NEW gs, NEW cs, NEW k, AgreeUpto(fs, bs, gs, cs, k),
         NEW i \in 1..Seen(fs, bs, k)
  PROVE  \A d : DeclSeen(d, gs, cs, k, i) <=> DeclSeen(d, fs, bs, k, i)
  <1>1. cs[i] = bs[i] /\ bs[i].depth \in 1..k
    BY DEF AgreeUpto
  <1>2. \A j \in 1..k : gs[j].known = fs[j].known /\ gs[j].ctx.id = fs[j].ctx.id
    BY DEF AgreeUpto
  <1>3. TypeSeen(gs, cs, k, i) = TypeSeen(fs, bs, k, i)
    BY <1>1, <1>2 DEF TypeSeen
  <1>4. gs[cs[i].depth].ctx.id = fs[bs[i].depth].ctx.id
    BY <1>1, <1>2
  <1> QED BY <1>3, <1>4 DEF DeclSeen

LEMMA NameAgrees ==
  ASSUME NEW bs, NEW cs, NEW n \in Nat, \A i \in 1..n : cs[i] = bs[i], NEW x, NEW name
  PROVE  NameSeen(x, cs, n, name) <=> NameSeen(x, bs, n, name)
  <1>1. \A i \in 1..n : \A j \in (i + 1)..n : j \in 1..n
    OBVIOUS
  <1> QED BY <1>1 DEF NameSeen

LEMMA SeesKept ==
  ASSUME NEW fs, NEW bs, NEW gs, NEW cs, NEW k, AgreeUpto(fs, bs, gs, cs, k),
         NEW m, NEW g, NEW c, NEW d, Sees(m, c, fs, bs, k), IsContext(g, d), SameMeaning(m, c, g, d)
  PROVE  Sees(g, d, gs, cs, k)
  <1>1. PICK n : n = Seen(fs, bs, k)
    OBVIOUS
  <1>2. /\ Seen(gs, cs, k) = n /\ n \in Nat
        /\ \A i \in 1..n : cs[i] = bs[i] /\ bs[i].var \in Named
    BY <1>1 DEF AgreeUpto
  <1>3. ASSUME NEW name \in Names PROVE NameSeen(C!VarOf(g, d, name), cs, n, name)
    <2>1. NameSeen(C!VarOf(m, c, name), bs, n, name) /\ C!VarOf(g, d, name) = C!VarOf(m, c, name)
      BY <1>1 DEF Sees, SameMeaning
    <2> QED BY <1>2, <2>1, NameAgrees
  <1>4. ASSUME NEW i \in 1..n PROVE DeclSeen(C!DeclOf(g, d, cs[i].var), gs, cs, k, i)
    <2>1. C!DeclOf(g, d, cs[i].var) = C!DeclOf(m, c, bs[i].var)
      BY <1>2 DEF SameMeaning
    <2>2. DeclSeen(C!DeclOf(m, c, bs[i].var), fs, bs, k, i)
      BY <1>1 DEF Sees
    <2> QED BY <1>1, <2>1, <2>2, TypeAgrees
  <1> QED BY <1>2, <1>3, <1>4 DEF Sees

\* A construct whose contexts mean what they meant.
KeepsFrame(m, fs, g, gs, k) ==
  LET f == fs[k] IN
  /\ gs[k].ctx = f.ctx /\ gs[k].ret = f.ret /\ gs[k].kind = f.kind
  /\ IsContext(g, f.ctx) /\ SameMeaning(m, f.ctx, g, f.ctx)
  /\ RetInUse(gs[k]) =>
       /\ RetInUse(f) /\ IsContext(g, f.ret) /\ SameMeaning(m, f.ret, g, f.ret)
       /\ g.index[f.ctx.index].index = m.index[f.ctx.index].index
       /\ g.index[f.ret.index].index = m.index[f.ret.index].index

LEMMA FrameKept ==
  ASSUME NEW fs, NEW bs, NEW gs, NEW cs, NEW k, AgreeUpto(fs, bs, gs, cs, k),
         NEW m, NEW g, FrameSees(m, fs, bs, k), KeepsFrame(m, fs, g, gs, k)
  PROVE  FrameSees(g, gs, cs, k)
  <1>1. PICK c, r, n : c = fs[k].ctx /\ r = fs[k].ret /\ n = Seen(fs, bs, k)
    OBVIOUS
  <1>2. gs[k].ctx = c /\ gs[k].ret = r
    BY <1>1 DEF KeepsFrame
  <1>3. Sees(g, c, gs, cs, k)
    BY <1>1, SeesKept DEF FrameSees, KeepsFrame
  <1>4. ASSUME RetInUse(gs[k]) PROVE SeesParameters(g, gs, cs, k)
    <2>1. SeesParameters(m, fs, bs, k) /\ IsContext(g, r) /\ SameMeaning(m, r, g, r)
          /\ g.index[c.index].index = m.index[c.index].index
          /\ g.index[r.index].index = m.index[r.index].index
      BY <1>1, <1>4, SMTT(30) DEF FrameSees, KeepsFrame
    <2>2. Sees(g, r, gs, cs, k)
      BY <1>1, <2>1, SeesKept DEF SeesParameters
    <2>3. Seen(gs, cs, k) = n /\ \A i \in 1..n : cs[i] = bs[i] /\ bs[i].var \in Named
      BY <1>1 DEF AgreeUpto
    <2>4. ASSUME NEW i \in 1..n, cs[i].depth = k
          PROVE  C!DeclOf(g, r, cs[i].var).scope = C!Unscoped
      <3>1. C!DeclOf(m, r, bs[i].var).scope = C!Unscoped
        BY <1>1, <2>1, <2>3, <2>4 DEF SeesParameters
      <3> QED BY <2>1, <2>3, <3>1, SMTT(30) DEF SameMeaning
    <2> QED BY <1>1, <1>2, <2>1, <2>2, <2>3, <2>4, Zenon DEF SeesParameters
  <1> QED BY <1>2, <1>3, <1>4 DEF FrameSees

\* Context d of memory g means what c of m does, with nothing more known of the
\* types, or with the first n binders' rewritten.
Continues(m, c, g, d, n, known) ==
  /\ IsContext(g, d)
  /\ \A name \in Names : C!VarOf(g, d, name) = C!VarOf(m, c, name)
  /\ \/ known = 0 /\ \A v \in Named : C!DeclOf(g, d, v) = C!DeclOf(m, c, v)
     \/ known = n /\ \A v \in Named : C!DeclOf(g, d, v) = C!RewrittenDecl(C!DeclOf(m, c, v))

\* From construct k of gs all n binders are seen, as they are from construct l
\* of fs, with the types of the first `known` rewritten.
KnowsMore(fs, l, gs, k, n, known) ==
  /\ \A j \in 1..l : gs[j].ctx.id = fs[j].ctx.id
  /\ \A i \in 1..n : (\E j \in 1..k : i <= gs[j].known)
                       <=> i <= known \/ \E j \in 1..l : i <= fs[j].known

LEMMA ContinuedSees ==
  ASSUME NEW fs, NEW bs \in Seq(ABinder), NEW l, NEW gs, NEW k, NEW n, n = Seen(fs, bs, l), n \in 0..Len(bs),
         Seen(gs, bs, k) = n, \A i \in 1..n : bs[i].depth \in 1..l,
         NEW known, KnowsMore(fs, l, gs, k, n, known),
         NEW m, NEW c, Sees(m, c, fs, bs, l), NEW g, NEW d, Continues(m, c, g, d, n, known)
  PROVE  Sees(g, d, gs, bs, k)
  <1>1. /\ n \in Nat /\ \A i \in 1..n : /\ i \in DOMAIN bs /\ i \in Nat /\ bs[i].var \in Named
                                        /\ bs[i].type \in {"plain", "cond"}
    <2>1. DOMAIN bs = 1..Len(bs) /\ Len(bs) \in Nat
      OBVIOUS
    <2> QED BY <2>1, BinderParts
  <1>2. ASSUME NEW name \in Names PROVE NameSeen(C!VarOf(g, d, name), bs, n, name)
    BY DEF Sees, Continues
  <1>3. ASSUME NEW i \in 1..n PROVE DeclSeen(C!DeclOf(g, d, bs[i].var), gs, bs, k, i)
    <2>1. PICK x, y, t : x = C!DeclOf(m, c, bs[i].var) /\ y = C!DeclOf(g, d, bs[i].var) /\ t = bs[i].type
      OBVIOUS
    <2>2. /\ x \in Decls /\ x.type = TypeSeen(fs, bs, l, i)
          /\ x.scope \in {C!Unscoped, fs[bs[i].depth].ctx.id}
      BY <2>1 DEF Sees, DeclSeen
    <2>3. gs[bs[i].depth].ctx.id = fs[bs[i].depth].ctx.id
      BY DEF KnowsMore
    <2>4. (\E j \in 1..k : i <= gs[j].known) <=> i <= known \/ \E j \in 1..l : i <= fs[j].known
      BY DEF KnowsMore
    <2>5. CASE known = 0 /\ \A v \in Named : C!DeclOf(g, d, v) = C!DeclOf(m, c, v)
      <3>1. y = x
        BY <1>1, <2>1, <2>5
      <3>2. TypeSeen(gs, bs, k, i) = TypeSeen(fs, bs, l, i)
        BY <1>1, <2>4, <2>5 DEF TypeSeen
      <3> QED BY <2>1, <2>2, <2>3, <3>1, <3>2 DEF DeclSeen
    <2>6. CASE known = n /\ \A v \in Named : C!DeclOf(g, d, v) = C!RewrittenDecl(C!DeclOf(m, c, v))
      <3>1. y = C!RewrittenDecl(x)
        BY <1>1, <2>1, <2>6
      <3>2. y = [type |-> C!RewrittenType(x.type), scope |-> x.scope] /\ y \in Decls
        BY <2>2, <3>1, RewrittenDeclIs
      <3>3. TypeSeen(gs, bs, k, i) = C!RewrittenType(t)
        BY <1>1, <2>1, <2>4, <2>6 DEF TypeSeen
      <3>4. x.type \in {t, C!RewrittenType(t)} /\ t \in {"plain", "cond"}
        BY <1>1, <2>1, <2>2 DEF TypeSeen
      <3>5. C!RewrittenType(x.type) = C!RewrittenType(t)
        BY <3>4 DEF C!RewrittenType
      <3>6. y.type = C!RewrittenType(t) /\ y.scope = x.scope
        BY <3>2, <3>5
      <3> QED BY <2>1, <2>2, <2>3, <3>2, <3>3, <3>6 DEF DeclSeen
    <2> QED BY <2>5, <2>6 DEF Continues
  <1> QED BY <1>2, <1>3 DEF Sees, Continues

\* A construct that is entered sees what its parent sees.
Enters(m, fs, bs, g, f) ==
  LET c == CurrentOf(fs[Len(fs)])
  IN  /\ f \in AFrame /\ f.phase # "ret"
      /\ f.before = [index |-> Len(m.index), values |-> Len(m.values), binders |-> Len(bs)]
      /\ Continues(m, c, g, f.ctx, Len(bs), f.known)
      /\ After(f, f.ctx) /\ c.id < f.ctx.id
      /\ HasRet(f) =>
           /\ SameMeaning(m, c, g, f.ret) /\ f.known = 0
           /\ IsContext(g, f.ret) /\ After(f, f.ret)
           /\ f.ctx.index # f.ret.index /\ f.ctx.values # f.ret.values
           /\ f.ctx.id < f.ret.id /\ ~f.ret.scoped
           /\ \A name \in Names : g.index[f.ret.index].index[name] = 0

LEMMA Pushing ==
  ASSUME NEW m, NEW fs, NEW bs, Sound(m, fs, bs), NEW g, Keeps(m, g), NothingNew(m, g),
         NEW f, Enters(m, fs, bs, g, f)
  PROVE  Sound(g, Append(fs, f), bs)
  <1>1. PICK gs, l, k, n : gs = Append(fs, f) /\ l = Len(fs) /\ k = l + 1 /\ n = Len(bs)
    OBVIOUS
  <1> DEFINE c == CurrentOf(fs[l])
  <1>2. /\ m \in Memory /\ fs \in Seq(AFrame) /\ bs \in Seq(ABinder)
        /\ l \in Nat \ {0} /\ DOMAIN fs = 1..l /\ l \in DOMAIN fs /\ n \in Nat /\ DOMAIN bs = 1..n
        /\ Shaped(fs) /\ Placed(m, fs) /\ Listed(fs, bs) /\ Distinct(bs) /\ Registered(m, fs, bs)
        /\ \A j \in DOMAIN fs : FrameSees(m, fs, bs, j)
        /\ \A j \in DOMAIN fs : IsContext(m, fs[j].ctx) /\ (RetInUse(fs[j]) => IsContext(m, fs[j].ret))
        /\ l = Len(fs) /\ n = Len(bs)
    BY <1>1, SoundParts
  <1>3. /\ f \in AFrame /\ f.phase # "ret"
        /\ f.before = [index |-> Len(m.index), values |-> Len(m.values), binders |-> n]
        /\ Continues(m, c, g, f.ctx, n, f.known)
        /\ After(f, f.ctx) /\ c.id < f.ctx.id
        /\ HasRet(f) =>
             /\ SameMeaning(m, c, g, f.ret) /\ f.known = 0
             /\ IsContext(g, f.ret) /\ After(f, f.ret)
             /\ f.ctx.index # f.ret.index /\ f.ctx.values # f.ret.values
             /\ f.ctx.id < f.ret.id /\ ~f.ret.scoped
             /\ \A name \in Names : g.index[f.ret.index].index[name] = 0
    BY <1>1 DEF Enters
  <1>4. /\ gs \in Seq(AFrame) /\ gs # <<>> /\ Len(gs) = k /\ DOMAIN gs = 1..k /\ gs[k] = f
        /\ \A j \in 1..l : gs[j] = fs[j] /\ j \in DOMAIN gs
        /\ \A j \in DOMAIN gs : j \in 1..l \/ j = k
        /\ l + 1 = k /\ k \in Nat /\ k # 1
    BY <1>1, <1>2, <1>3
  <1>5. /\ Len(m.index) \in Nat /\ DOMAIN m.index = 1..Len(m.index)
        /\ Len(m.values) \in Nat /\ DOMAIN m.values = 1..Len(m.values)
        /\ g \in Memory /\ Len(g.index) \in Nat /\ Len(g.values) \in Nat
        /\ Len(m.index) <= Len(g.index) /\ Len(m.values) <= Len(g.values)
    BY <1>2, MemoryParts DEF Keeps
  <1>6. f.before.index = Len(m.index) /\ f.before.values = Len(m.values) /\ f.before.binders = n
    BY <1>3
  <1>7. /\ Seen(fs, bs, l) = n /\ \A i \in DOMAIN bs : bs[i].depth \in 1..l
    <2>1. \A i \in DOMAIN bs : bs[i].depth \in 2..l
      BY <1>2 DEF Listed
    <2> QED BY <1>2, <2>1 DEF Seen
  <1>8. Seen(gs, bs, k) = n /\ \A j \in 1..l : Seen(gs, bs, j) = Seen(fs, bs, j)
    <2>1. Seen(gs, bs, k) = n
      BY <1>2, <1>4 DEF Seen
    <2>2. ASSUME NEW j \in 1..l PROVE Seen(gs, bs, j) = Seen(fs, bs, j)
      <3>1. CASE j = l
        <4>1. Seen(gs, bs, j) = gs[k].before.binders
          <5>1. j # Len(gs) /\ j + 1 = k
            BY <1>1, <1>2, <1>4, <3>1
          <5> QED BY <5>1 DEF Seen
        <4> QED BY <1>4, <1>6, <1>7, <3>1, <4>1
      <3>2. CASE j # l
        <4>1. j + 1 \in 1..l /\ j # k
          BY <1>1, <1>2, <3>2
        <4>2. gs[j + 1] = fs[j + 1]
          BY <1>4, <4>1
        <4> QED BY <1>2, <1>4, <3>2, <4>1, <4>2, Zenon DEF Seen
      <3> QED BY <3>1, <3>2
    <2> QED BY <2>1, <2>2
  <1> HIDE DEF c
  <1>9. Typed(g, gs, bs)
    BY <1>2, <1>4, <1>5 DEF Typed
  <1>10. Shaped(gs)
    <2>1. gs[1].phase = "expr"
      BY <1>2, <1>4 DEF Shaped
    <2>2. ASSUME NEW j \in DOMAIN gs
          PROVE  /\ gs[j].phase = "ret" => HasRet(gs[j])
                 /\ HasRet(gs[j]) => gs[j].ctx.id < gs[j].ret.id /\ ~gs[j].ret.scoped
      <3>1. CASE j \in 1..l
        BY <1>2, <1>4, <3>1 DEF Shaped
      <3>2. CASE j = k
        BY <1>3, <1>4, <3>2
      <3> QED BY <1>4, <3>1, <3>2
    <2>3. ASSUME NEW i \in DOMAIN gs, NEW j \in DOMAIN gs, i < j PROVE gs[i].ctx.id < gs[j].ctx.id
      <3>1. i \in 1..l
        BY <1>2, <1>4, <2>3
      <3>2. CASE j \in 1..l
        BY <1>2, <1>4, <2>3, <3>1, <3>2 DEF Shaped
      <3>3. CASE j = k
        <4>1. fs[i].ctx.id <= fs[l].ctx.id
          <5>1. i = l \/ i < l
            BY <1>2, <3>1
          <5> QED BY <1>2, <3>1, <5>1, FrameParts DEF Shaped
        <4>2. fs[l].ctx.id <= c.id
          BY <1>2, FrameParts DEF Shaped, c, CurrentOf
        <4>3. fs[i].ctx.id \in Nat /\ fs[l].ctx.id \in Nat /\ c.id \in Nat /\ f.ctx.id \in Nat
          BY <1>2, <1>4, <3>1, FrameParts DEF c, CurrentOf
        <4> QED BY <1>3, <1>4, <3>1, <3>3, <4>1, <4>2, <4>3
      <3> QED BY <1>4, <3>2, <3>3
    <2> QED BY <2>1, <2>2, <2>3 DEF Shaped
  <1>11. Placed(g, gs)
    <2>1. ASSUME NEW j \in 2..k
          PROVE  /\ gs[j].before.index <= Len(g.index) /\ gs[j].before.values <= Len(g.values)
                 /\ After(gs[j], gs[j].ctx)
                 /\ RetInUse(gs[j]) => /\ After(gs[j], gs[j].ret)
                                       /\ gs[j].ctx.index # gs[j].ret.index
                                       /\ gs[j].ctx.values # gs[j].ret.values
      <3>1. CASE j \in 2..l
        <4>1. gs[j] = fs[j] /\ fs[j].before.index \in Nat /\ fs[j].before.values \in Nat
          BY <1>2, <1>4, <3>1, FrameParts
        <4>2. /\ fs[j].before.index <= Len(m.index) /\ fs[j].before.values <= Len(m.values)
              /\ After(fs[j], fs[j].ctx)
              /\ RetInUse(fs[j]) => /\ After(fs[j], fs[j].ret)
                                    /\ fs[j].ctx.index # fs[j].ret.index
                                    /\ fs[j].ctx.values # fs[j].ret.values
          BY <1>2, <3>1 DEF Placed
        <4>3. fs[j].before.index <= Len(g.index) /\ fs[j].before.values <= Len(g.values)
          BY <1>5, <4>1, <4>2, SMTT(30)
        <4> QED BY <4>1, <4>2, <4>3
      <3>2. CASE j = k
        BY <1>3, <1>4, <1>5, <1>6, <3>2 DEF RetInUse
      <3> QED BY <1>1, <1>2, <3>1, <3>2
    <2>2. ASSUME NEW i \in DOMAIN gs, NEW j \in DOMAIN gs, i < j
          PROVE  Upto(gs[j], gs[i].ctx) /\ (RetInUse(gs[i]) => Upto(gs[j], gs[i].ret))
      <3>1. i \in 1..l /\ gs[i] = fs[i]
        BY <1>2, <1>4, <2>2
      <3>2. CASE j \in 1..l
        BY <1>2, <1>4, <2>2, <3>1, <3>2 DEF Placed
      <3>3. CASE j = k
        <4>1. \A e : IsContext(m, e) => Upto(f, e)
          BY <1>5, <1>6 DEF IsContext, Upto
        <4> QED BY <1>2, <1>4, <3>1, <3>3, <4>1
      <3> QED BY <1>4, <3>2, <3>3
    <2> QED BY <1>4, <2>1, <2>2 DEF Placed
  <1>12. Listed(gs, bs)
    <2>1. \A i \in DOMAIN bs : bs[i].depth \in 2..k
      BY <1>1, <1>2 DEF Listed
    <2>2. ASSUME NEW j \in 2..k
          PROVE  /\ gs[j].before.binders <= Len(bs)
                 /\ \A i \in DOMAIN bs : bs[i].depth < j <=> i <= gs[j].before.binders
      <3>1. CASE j \in 2..l
        BY <1>2, <1>4, <3>1 DEF Listed
      <3>2. CASE j = k
        BY <1>2, <1>4, <1>6, <1>7, <3>2
      <3> QED BY <1>1, <1>2, <3>1, <3>2
    <2>3. ASSUME NEW j \in DOMAIN gs PROVE gs[j].known <= Seen(gs, bs, j)
      <3>1. CASE j \in 1..l
        BY <1>2, <1>4, <1>8, <3>1 DEF Listed
      <3>2. CASE j = k
        BY <1>2, <1>3, <1>4, <1>8, <3>2 DEF Continues
      <3> QED BY <1>4, <3>1, <3>2
    <2> QED BY <1>4, <2>1, <2>2, <2>3 DEF Listed
  <1>13. Registered(g, gs, bs)
    <2>1. ASSUME NEW q \in DOMAIN g.values, NEW v \in Named, Holds(g, q, v)
          PROVE  \E i \in DOMAIN bs :
                   /\ bs[i].var = v
                   /\ \A j \in 2..Len(gs) : q <= gs[j].before.values => i <= gs[j].before.binders
      <3>1. PICK p \in DOMAIN m.values : Holds(m, p, v) /\ (q \in DOMAIN m.values => q = p)
        BY <2>1 DEF NothingNew
      <3>2. PICK i \in DOMAIN bs :
              /\ bs[i].var = v
              /\ \A j \in 2..l : p <= fs[j].before.values => i <= fs[j].before.binders
        BY <1>2, <3>1 DEF Registered
      <3>3. ASSUME NEW j \in 2..k, q <= gs[j].before.values PROVE i <= gs[j].before.binders
        <4>1. CASE j = k
          BY <1>2, <1>4, <1>6, <4>1
        <4>2. CASE j # k
          <5>1. j \in 2..l /\ gs[j] = fs[j] /\ j \in DOMAIN fs
            BY <1>2, <1>4, <4>2
          <5>2. fs[j].before.values <= Len(m.values) /\ fs[j].before.values \in Nat
            BY <1>2, <5>1, FrameParts DEF Placed
          <5>3. q \in DOMAIN m.values
            <6>1. q \in 1..Len(g.values)
              BY <1>5, <2>1, MemoryParts
            <6> QED BY <1>5, <3>3, <5>1, <5>2, <6>1
          <5> QED BY <3>1, <3>2, <3>3, <5>1, <5>3
        <4> QED BY <4>1, <4>2
      <3> QED BY <1>4, <3>2, <3>3
    <2> QED BY <2>1 DEF Registered
  <1>14. ASSUME NEW j \in DOMAIN gs PROVE FrameSees(g, gs, bs, j)
    <2>1. CASE j \in 1..l
      <3>1. KeepsFrame(m, fs, g, gs, j)
        <4>1. gs[j] = fs[j] /\ IsContext(m, fs[j].ctx) /\ (RetInUse(fs[j]) => IsContext(m, fs[j].ret))
          BY <1>2, <1>4, <2>1
        <4>2. \A e : IsContext(m, e) => IsContext(g, e) /\ SameMeaning(m, e, g, e)
                                        /\ g.index[e.index].index = m.index[e.index].index
          BY DEF Keeps, IsContext
        <4> QED BY <4>1, <4>2 DEF KeepsFrame
      <3>2. AgreeUpto(fs, bs, gs, bs, j)
        <4>1. /\ Seen(fs, bs, j) \in 0..n
              /\ \A i \in DOMAIN bs : bs[i].depth <= j <=> i <= Seen(fs, bs, j)
          BY <1>2, <2>1, SeenParts
        <4>2. ASSUME NEW i \in 1..Seen(fs, bs, j) PROVE bs[i].depth \in 1..j /\ bs[i].var \in Named
          <5>1. i \in DOMAIN bs /\ bs[i].depth \in 1..l
            BY <1>2, <1>7, <4>1
          <5>2. bs[i].depth <= j
            BY <4>1, <5>1
          <5> QED BY <1>2, <5>1, <5>2, BinderParts
        <4>3. \A i \in 1..j : gs[i] = fs[i]
          BY <1>2, <1>4, <2>1
        <4> QED BY <1>8, <2>1, <4>1, <4>2, <4>3 DEF AgreeUpto
      <3>3. FrameSees(m, fs, bs, j)
        BY <1>2, <2>1
      <3> QED BY <3>1, <3>2, <3>3, FrameKept
    <2>2. CASE j = k
      <3>1. KnowsMore(fs, l, gs, k, n, f.known)
        <4>1. \A i \in 1..l : gs[i].ctx.id = fs[i].ctx.id
          BY <1>4
        <4>2. ASSUME NEW i \in 1..n
              PROVE  (\E a \in 1..k : i <= gs[a].known)
                       <=> i <= f.known \/ \E a \in 1..l : i <= fs[a].known
          BY <1>4
        <4> QED BY <4>1, <4>2 DEF KnowsMore
      <3>2. Sees(m, c, fs, bs, l)
        BY <1>2 DEF FrameSees, SeesParameters, c, CurrentOf, RetInUse, Shaped
      <3>3. \A i \in 1..n : bs[i].depth \in 1..l
        BY <1>2, <1>7
      <3>4. n = Seen(fs, bs, l) /\ n \in 0..Len(bs) /\ Seen(gs, bs, k) = n
        BY <1>2, <1>7, <1>8
      <3>5. Sees(g, f.ctx, gs, bs, k)
        BY <1>2, <1>3, <3>1, <3>2, <3>3, <3>4, ContinuedSees
      <3>6. ASSUME RetInUse(f) PROVE SeesParameters(g, gs, bs, k)
        <4>1. Continues(m, c, g, f.ret, n, f.known)
          BY <1>3, <3>6 DEF RetInUse, SameMeaning, Continues
        <4>2. Sees(g, f.ret, gs, bs, k)
          BY <1>2, <3>1, <3>2, <3>3, <3>4, <4>1, ContinuedSees
        <4>3. \A i \in 1..n : bs[i].depth # k
          BY <1>1, <1>2, <3>3
        <4>4. \A name \in Names : g.index[f.ret.index].index[name] = 0
          BY <1>3, <3>6 DEF RetInUse
        <4> QED BY <1>4, <3>4, <4>2, <4>3, <4>4 DEF SeesParameters
      <3> QED BY <1>4, <2>2, <3>5, <3>6 DEF FrameSees
    <2> QED BY <1>4, <2>1, <2>2
  <1> QED BY <1>1, <1>2, <1>9, <1>10, <1>11, <1>12, <1>13, <1>14 DEF Sound

\* The innermost construct goes on, perhaps with a context in which more types
\* are rewritten.
GoesOn(m, fs, bs, g, f) ==
  LET o == fs[Len(fs)]
      n == Len(bs)
  IN  /\ f \in AFrame /\ f.before = o.before /\ f.kind = o.kind /\ f.ret = o.ret
      /\ f.ctx.id = o.ctx.id
      /\ Len(fs) = 1 => f.phase = "expr"
      /\ f.phase = "ret" => HasRet(f)
      /\ RetInUse(f) => RetInUse(o)
      /\ \/ f.ctx = o.ctx /\ f.known = o.known
         \/ ~RetInUse(f) /\ f.known = n /\ After(f, f.ctx) /\ Continues(m, o.ctx, g, f.ctx, n, n)

LEMMA GoingOn ==
  ASSUME NEW m, NEW fs, NEW bs, Sound(m, fs, bs), NEW g, Keeps(m, g), NothingNew(m, g),
         NEW f, GoesOn(m, fs, bs, g, f)
  PROVE  Sound(g, [fs EXCEPT ![Len(fs)] = f], bs)
  <1>1. PICK gs, k, n, o : gs = [fs EXCEPT ![Len(fs)] = f] /\ k = Len(fs) /\ n = Len(bs) /\ o = fs[k]
    OBVIOUS
  <1>2. /\ m \in Memory /\ fs \in Seq(AFrame) /\ bs \in Seq(ABinder)
        /\ k \in Nat \ {0} /\ DOMAIN fs = 1..k /\ k \in DOMAIN fs /\ n \in Nat /\ DOMAIN bs = 1..n
        /\ Shaped(fs) /\ Placed(m, fs) /\ Listed(fs, bs) /\ Distinct(bs) /\ Registered(m, fs, bs)
        /\ \A j \in DOMAIN fs : FrameSees(m, fs, bs, j)
        /\ \A j \in DOMAIN fs : IsContext(m, fs[j].ctx) /\ (RetInUse(fs[j]) => IsContext(m, fs[j].ret))
        /\ k = Len(fs) /\ n = Len(bs)
    BY <1>1, SoundParts
  <1>3. /\ f \in AFrame /\ f.before = o.before /\ f.kind = o.kind /\ f.ret = o.ret
        /\ f.ctx.id = o.ctx.id
        /\ Len(fs) = 1 => f.phase = "expr"
        /\ f.phase = "ret" => HasRet(f)
        /\ RetInUse(f) => RetInUse(o)
        /\ \/ f.ctx = o.ctx /\ f.known = o.known
           \/ ~RetInUse(f) /\ f.known = n /\ After(f, f.ctx) /\ Continues(m, o.ctx, g, f.ctx, n, n)
    BY <1>1 DEF GoesOn
  <1>4. /\ gs \in Seq(AFrame) /\ gs # <<>> /\ Len(gs) = k /\ DOMAIN gs = 1..k /\ gs[k] = f
        /\ \A j \in 1..k : j # k => gs[j] = fs[j]
        /\ \A j \in 1..k : gs[j].before = fs[j].before /\ gs[j].ctx.id = fs[j].ctx.id
                           /\ gs[j].kind = fs[j].kind /\ gs[j].ret = fs[j].ret
                           /\ (RetInUse(gs[j]) => RetInUse(fs[j]))
    BY <1>1, <1>2, <1>3
  <1>5. /\ Len(m.index) \in Nat /\ DOMAIN m.index = 1..Len(m.index)
        /\ Len(m.values) \in Nat /\ DOMAIN m.values = 1..Len(m.values)
        /\ g \in Memory /\ Len(g.index) \in Nat /\ Len(g.values) \in Nat
        /\ Len(m.index) <= Len(g.index) /\ Len(m.values) <= Len(g.values)
    BY <1>2, MemoryParts DEF Keeps
  <1>k. /\ 1 \in 1..k /\ \A j \in 1..k : j # k => j + 1 \in 1..k
        /\ \A j \in 2..k : j \in 1..k
        /\ \A i, j \in 1..k : i < j => i # k
        /\ \A j \in 1..k : \A i \in 1..j : i \in 1..k /\ (i = k => j = k)
    <2>1. k \in Nat \ {0}
      BY <1>2
    <2> QED BY <2>1
  <1>6. ASSUME NEW j \in 1..k PROVE Seen(gs, bs, j) = Seen(fs, bs, j)
    <2>1. CASE j = k
      BY <1>2, <1>4, <2>1, Zenon DEF Seen
    <2>2. CASE j # k
      <3>1. j + 1 \in 1..k
        BY <1>k, <2>2
      <3> QED BY <1>2, <1>4, <2>2, <3>1, Zenon DEF Seen
    <2> QED BY <2>1, <2>2
  <1>7. Seen(fs, bs, k) = n /\ \A i \in 1..n : bs[i].depth \in 1..k
    <2>1. \A i \in DOMAIN bs : bs[i].depth \in 2..k
      BY <1>2 DEF Listed
    <2> QED BY <1>2, <2>1 DEF Seen
  <1>8. Typed(g, gs, bs)
    BY <1>2, <1>4, <1>5, Zenon DEF Typed
  <1>9. Shaped(gs)
    <2>1. gs[1].phase = "expr"
      <3>1. CASE k = 1
        BY <1>2, <1>3, <1>4, <3>1
      <3>2. CASE k # 1
        <4>1. gs[1] = fs[1] /\ Shaped(fs)
          BY <1>2, <1>4, <1>k, <3>2, Zenon
        <4> QED BY <4>1 DEF Shaped
      <3> QED BY <3>1, <3>2
    <2>2. ASSUME NEW j \in DOMAIN gs
          PROVE  /\ gs[j].phase = "ret" => HasRet(gs[j])
                 /\ HasRet(gs[j]) => gs[j].ctx.id < gs[j].ret.id /\ ~gs[j].ret.scoped
      <3>1. HasRet(fs[j]) => fs[j].ctx.id < fs[j].ret.id /\ ~fs[j].ret.scoped
        BY <1>2, <1>4, Zenon DEF Shaped
      <3>2. HasRet(gs[j]) => gs[j].ctx.id < gs[j].ret.id /\ ~gs[j].ret.scoped
        BY <1>4, <3>1 DEF HasRet
      <3>3. gs[j].phase = "ret" => HasRet(gs[j])
        BY <1>2, <1>3, <1>4, Zenon DEF Shaped
      <3> QED BY <3>2, <3>3
    <2>3. \A i, j \in DOMAIN gs : i < j => gs[i].ctx.id < gs[j].ctx.id
      BY <1>2, <1>4, Zenon DEF Shaped
    <2> QED BY <2>1, <2>2, <2>3 DEF Shaped
  <1>10. Placed(g, gs)
    <2>1. ASSUME NEW j \in 2..k
          PROVE  /\ gs[j].before.index <= Len(g.index) /\ gs[j].before.values <= Len(g.values)
                 /\ After(gs[j], gs[j].ctx)
                 /\ RetInUse(gs[j]) => /\ After(gs[j], gs[j].ret)
                                       /\ gs[j].ctx.index # gs[j].ret.index
                                       /\ gs[j].ctx.values # gs[j].ret.values
      <3>1. j \in 1..k /\ j \in DOMAIN fs
        BY <1>2
      <3>2. /\ fs[j].before.index <= Len(m.index) /\ fs[j].before.values <= Len(m.values)
            /\ After(fs[j], fs[j].ctx)
            /\ RetInUse(fs[j]) => /\ After(fs[j], fs[j].ret)
                                  /\ fs[j].ctx.index # fs[j].ret.index
                                  /\ fs[j].ctx.values # fs[j].ret.values
        BY <1>2 DEF Placed
      <3>3. gs[j].before.index <= Len(g.index) /\ gs[j].before.values <= Len(g.values)
        <4>1. fs[j].before.index \in Nat /\ fs[j].before.values \in Nat /\ gs[j].before = fs[j].before
          BY <1>2, <1>4, <3>1, FrameParts, Zenon
        <4> QED BY <1>5, <3>2, <4>1
      <3>4. After(gs[j], gs[j].ctx)
        BY <1>1, <1>3, <1>4, <3>1, <3>2 DEF After
      <3>5. ASSUME RetInUse(gs[j])
            PROVE  /\ After(gs[j], gs[j].ret) /\ gs[j].ctx.index # gs[j].ret.index
                   /\ gs[j].ctx.values # gs[j].ret.values
        <4>1. RetInUse(fs[j]) /\ gs[j].ret = fs[j].ret /\ gs[j].ctx = fs[j].ctx
              /\ gs[j].before = fs[j].before
          BY <1>1, <1>3, <1>4, <3>1, <3>5
        <4> QED BY <3>2, <4>1 DEF After
      <3> QED BY <3>3, <3>4, <3>5
    <2>2. ASSUME NEW i \in DOMAIN gs, NEW j \in DOMAIN gs, i < j
          PROVE  Upto(gs[j], gs[i].ctx) /\ (RetInUse(gs[i]) => Upto(gs[j], gs[i].ret))
      <3>1. gs[i] = fs[i] /\ gs[j].before = fs[j].before /\ i \in DOMAIN fs /\ j \in DOMAIN fs
        BY <1>2, <1>4, <1>k, <2>2, Zenon
      <3>2. Upto(fs[j], fs[i].ctx) /\ (RetInUse(fs[i]) => Upto(fs[j], fs[i].ret))
        BY <1>2, <2>2, <3>1 DEF Placed
      <3> QED BY <3>1, <3>2 DEF Upto
    <2> QED BY <1>4, <2>1, <2>2 DEF Placed
  <1>11. Listed(gs, bs)
    <2>1. ASSUME NEW j \in 2..k
          PROVE  /\ gs[j].before.binders <= Len(bs)
                 /\ \A i \in DOMAIN bs : bs[i].depth < j <=> i <= gs[j].before.binders
      <3>1. gs[j].before = fs[j].before
        BY <1>4, <1>k
      <3> QED BY <1>2, <3>1 DEF Listed
    <2>2. ASSUME NEW j \in DOMAIN gs PROVE gs[j].known <= Seen(gs, bs, j)
      <3>1. fs[j].known <= Seen(fs, bs, j)
        BY <1>2, <1>4, Zenon DEF Listed
      <3>2. CASE j = k
        <4>1. Seen(gs, bs, j) = n /\ Seen(fs, bs, j) = n /\ gs[j] = f /\ fs[j] = o
          BY <1>1, <1>2, <1>4, <1>6, <1>7, <3>2
        <4>2. f.known = o.known \/ f.known = n
          BY <1>3
        <4> QED BY <1>2, <3>1, <4>1, <4>2
      <3>3. CASE j # k
        BY <1>4, <1>6, <3>1, <3>3
      <3> QED BY <3>2, <3>3
    <2> QED BY <1>2, <1>4, <2>1, <2>2, Zenon DEF Listed
  <1>12. Registered(g, gs, bs)
    <2>1. ASSUME NEW q \in DOMAIN g.values, NEW v \in Named, Holds(g, q, v)
          PROVE  \E i \in DOMAIN bs :
                   /\ bs[i].var = v
                   /\ \A j \in 2..Len(gs) : q <= gs[j].before.values => i <= gs[j].before.binders
      <3>1. PICK p \in DOMAIN m.values : Holds(m, p, v) /\ (q \in DOMAIN m.values => q = p)
        BY <2>1 DEF NothingNew
      <3>2. PICK i \in DOMAIN bs :
              /\ bs[i].var = v
              /\ \A j \in 2..k : p <= fs[j].before.values => i <= fs[j].before.binders
        BY <1>2, <3>1 DEF Registered
      <3>3. ASSUME NEW j \in 2..k, q <= gs[j].before.values PROVE i <= gs[j].before.binders
        <4>1. gs[j].before = fs[j].before /\ j \in DOMAIN fs
          BY <1>2, <1>4, <1>k, Zenon
        <4>2. fs[j].before.values <= Len(m.values) /\ fs[j].before.values \in Nat
          BY <1>2, <4>1, FrameParts DEF Placed
        <4>3. q \in DOMAIN m.values
          <5>1. q \in 1..Len(g.values)
            BY <1>5, <2>1, MemoryParts
          <5> QED BY <1>5, <3>3, <4>1, <4>2, <5>1
        <4> QED BY <3>1, <3>2, <3>3, <4>1, <4>3
      <3> QED BY <1>4, <3>2, <3>3
    <2> QED BY <2>1 DEF Registered
  <1>13. ASSUME NEW j \in DOMAIN gs, gs[j].ctx = fs[j].ctx, gs[j].known = fs[j].known
         PROVE  FrameSees(g, gs, bs, j)
    <2>1. gs[j].ctx = fs[j].ctx /\ j \in DOMAIN fs /\ j \in 1..k
      BY <1>1, <1>2, <1>4, <1>13
    <2>2. KeepsFrame(m, fs, g, gs, j)
      <3>1. /\ gs[j].kind = fs[j].kind /\ gs[j].ret = fs[j].ret /\ (RetInUse(gs[j]) => RetInUse(fs[j]))
            /\ IsContext(m, fs[j].ctx) /\ (RetInUse(fs[j]) => IsContext(m, fs[j].ret))
        BY <1>2, <1>4, <2>1, Zenon
      <3>2. \A e : IsContext(m, e) => IsContext(g, e) /\ SameMeaning(m, e, g, e)
                                      /\ g.index[e.index].index = m.index[e.index].index
        BY DEF Keeps, IsContext
      <3> QED BY <2>1, <3>1, <3>2 DEF KeepsFrame
    <2>3. AgreeUpto(fs, bs, gs, bs, j)
      <3>1. /\ Seen(fs, bs, j) \in 0..n
            /\ \A i \in DOMAIN bs : bs[i].depth <= j <=> i <= Seen(fs, bs, j)
        BY <1>2, <2>1, SeenParts
      <3>2. ASSUME NEW i \in 1..Seen(fs, bs, j) PROVE bs[i].depth \in 1..j /\ bs[i].var \in Named
        <4>1. i \in DOMAIN bs /\ bs[i].depth \in 1..k
          BY <1>2, <1>7, <3>1
        <4>2. bs[i].depth <= j
          BY <3>1, <4>1
        <4> QED BY <1>2, <2>1, <4>1, <4>2, BinderParts
      <3>3. \A i \in 1..j : gs[i].known = fs[i].known /\ gs[i].ctx.id = fs[i].ctx.id
        <4>1. ASSUME NEW i \in 1..j PROVE gs[i].known = fs[i].known /\ gs[i].ctx.id = fs[i].ctx.id
          <5>1. i \in 1..k /\ (i = k => j = k)
            BY <1>k, <2>1
          <5> QED BY <1>1, <1>4, <1>13, <5>1
        <4> QED BY <4>1
      <3> QED BY <1>2, <1>6, <2>1, <3>1, <3>2, <3>3 DEF AgreeUpto
    <2>4. FrameSees(m, fs, bs, j)
      BY <1>2, <2>1
    <2> QED BY <2>2, <2>3, <2>4, FrameKept
  <1>14. ASSUME ~(f.ctx = o.ctx /\ f.known = o.known) PROVE FrameSees(g, gs, bs, k)
    <2>1. ~RetInUse(f) /\ f.known = n /\ Continues(m, o.ctx, g, f.ctx, n, n)
      BY <1>3, <1>14
    <2>2. KnowsMore(fs, k, gs, k, n, n)
      <3>1. ASSUME NEW i \in 1..n
            PROVE  (\E a \in 1..k : i <= gs[a].known)
                     <=> i <= n \/ \E a \in 1..k : i <= fs[a].known
        <4>1. gs[k].known = n
          BY <1>4, <2>1
        <4>2. k \in 1..k /\ i <= n
          <5>1. k \in Nat \ {0} /\ n \in Nat
            BY <1>2
          <5> QED BY <5>1
        <4> QED BY <4>1, <4>2
      <3> QED BY <1>4, <3>1 DEF KnowsMore
    <2>3. Sees(m, o.ctx, fs, bs, k)
      BY <1>1, <1>2 DEF FrameSees
    <2>4. n = Seen(fs, bs, k) /\ n \in 0..Len(bs) /\ Seen(gs, bs, k) = n
      BY <1>2, <1>6, <1>7
    <2>5. Sees(g, f.ctx, gs, bs, k)
      BY <1>2, <1>7, <2>1, <2>2, <2>3, <2>4, ContinuedSees
    <2> QED BY <1>4, <2>1, <2>5 DEF FrameSees
  <1>15. \A j \in DOMAIN gs : FrameSees(g, gs, bs, j)
    <2>1. CASE f.ctx = o.ctx /\ f.known = o.known
      <3>1. ASSUME NEW j \in DOMAIN gs PROVE gs[j].ctx = fs[j].ctx /\ gs[j].known = fs[j].known
        BY <1>1, <1>4, <2>1
      <3> QED BY <1>13, <3>1
    <2>2. CASE ~(f.ctx = o.ctx /\ f.known = o.known)
      <3>1. ASSUME NEW j \in DOMAIN gs PROVE FrameSees(g, gs, bs, j)
        <4>1. CASE j = k
          BY <1>14, <2>2, <4>1
        <4>2. CASE j # k
          <5>1. gs[j] = fs[j]
            BY <1>4, <4>2
          <5> QED BY <1>13, <5>1
        <4> QED BY <4>1, <4>2
      <3> QED BY <3>1
    <2> QED BY <2>1, <2>2
  <1> QED BY <1>1, <1>2, <1>8, <1>9, <1>10, <1>11, <1>12, <1>15 DEF Sound

LEMMA PrefixOf ==
  ASSUME NEW S, NEW s \in Seq(S), NEW b \in 0..Len(s), NEW t, t = SubSeq(s, 1, b)
  PROVE  t \in Seq(S) /\ Len(t) = b /\ DOMAIN t = 1..b /\ \A i \in 1..b : t[i] = s[i] /\ i \in DOMAIN s
  OBVIOUS

\* What the innermost construct has allocated is given back: its parents cannot
\* tell that it was there.
Forgets(m, e, g) ==
  /\ g.index = SubSeq(m.index, 1, e.index) /\ g.values = SubSeq(m.values, 1, e.values)
  /\ g = [index |-> g.index, values |-> g.values]

LEMMA Forgetting ==
  ASSUME NEW m \in Memory, NEW e, e.index \in 0..Len(m.index), e.values \in 0..Len(m.values),
         NEW g, Forgets(m, e, g)
  PROVE  /\ g \in Memory /\ Len(g.index) = e.index /\ Len(g.values) = e.values
         /\ \A n \in DOMAIN g.values : /\ n \in DOMAIN m.values
                                       /\ \A v : Holds(g, n, v) <=> Holds(m, n, v)
         /\ \A c : IsContext(m, c) /\ c.index <= e.index /\ c.values <= e.values =>
              /\ IsContext(g, c) /\ SameMeaning(m, c, g, c)
              /\ g.index[c.index].index = m.index[c.index].index
  <1>1. LI!WellFormed(m.index, Named) /\ LV!WellFormed(m.values, Decls)
    BY MemoryParts
  <1>2. /\ LI!WellFormed(g.index, Named) /\ Len(g.index) = e.index /\ DOMAIN g.index = 1..e.index
        /\ \A n \in DOMAIN g.index : n \in DOMAIN m.index /\ LI!KeepsNode(m.index, g.index, n)
    BY <1>1, LI!PrefixSees DEF Forgets
  <1>3. /\ LV!WellFormed(g.values, Decls) /\ Len(g.values) = e.values /\ DOMAIN g.values = 1..e.values
        /\ \A n \in DOMAIN g.values : n \in DOMAIN m.values /\ LV!KeepsNode(m.values, g.values, n)
    BY <1>1, LV!PrefixSees DEF Forgets
  <1>4. g \in Memory
    <2>1. g.index \in Seq(LI!NodeOf(Named)) /\ g.values \in Seq(LV!NodeOf(Decls))
      BY <1>2, <1>3 DEF LI!WellFormed, LV!WellFormed
    <2> QED BY <1>2, <1>3, <2>1 DEF Memory, Forgets
  <1>5. ASSUME NEW n \in DOMAIN g.values
        PROVE  n \in DOMAIN m.values /\ \A v : Holds(g, n, v) <=> Holds(m, n, v)
    BY <1>3 DEF LV!KeepsNode, Holds
  <1>6. ASSUME NEW c, IsContext(m, c), c.index <= e.index, c.values <= e.values
        PROVE  /\ IsContext(g, c) /\ SameMeaning(m, c, g, c)
               /\ g.index[c.index].index = m.index[c.index].index
    <2>1. c \in Context /\ c.index \in DOMAIN g.index /\ c.values \in DOMAIN g.values
      <3>1. c \in Context /\ c.index \in 1..Len(m.index) /\ c.values \in 1..Len(m.values)
            /\ Len(m.index) \in Nat /\ Len(m.values) \in Nat
        BY <1>6, MemoryParts DEF IsContext
      <3> QED BY <1>2, <1>3, <1>6, <3>1
    <2>2. /\ \A k \in Names : \A none : LI!Value(g.index, c.index, k, none) = LI!Value(m.index, c.index, k, none)
          /\ g.index[c.index] = m.index[c.index]
      BY <1>2, <2>1 DEF LI!KeepsNode, LI!KeepsLookups
    <2>3. \A v \in C!Vars : \A none : LV!Value(g.values, c.values, v, none) = LV!Value(m.values, c.values, v, none)
      BY <1>3, <2>1 DEF LV!KeepsNode, LV!KeepsLookups
    <2>4. SameMeaning(m, c, g, c)
      BY <2>2, <2>3, LookedUp, NamedAreVars DEF SameMeaning
    <2> QED BY <2>1, <2>2, <2>4 DEF IsContext
  <1> QED BY <1>2, <1>3, <1>4, <1>5, <1>6

LEMMA Leaving ==
  ASSUME NEW m, NEW fs, NEW bs, Sound(m, fs, bs), Len(fs) > 1,
         NEW g, Forgets(m, fs[Len(fs)].before, g),
         NEW cs, cs = SubSeq(bs, 1, fs[Len(fs)].before.binders)
  PROVE  Sound(g, Front(fs), cs)
  <1>1. PICK gs, k, l, e : gs = Front(fs) /\ k = Len(fs) /\ l = k - 1 /\ e = fs[k].before
    OBVIOUS
  <1>2. /\ m \in Memory /\ fs \in Seq(AFrame) /\ bs \in Seq(ABinder)
        /\ k \in Nat \ {0} /\ DOMAIN fs = 1..k /\ Len(bs) \in Nat /\ DOMAIN bs = 1..Len(bs)
        /\ Shaped(fs) /\ Placed(m, fs) /\ Listed(fs, bs) /\ Distinct(bs) /\ Registered(m, fs, bs)
        /\ k = Len(fs)
    BY <1>1, SoundParts
  <1>3. /\ k > 1 /\ l \in Nat /\ l >= 1 /\ l + 1 = k /\ k \in 2..k /\ k \in DOMAIN fs
        /\ \A j \in 1..l : j \in DOMAIN fs /\ j < k /\ j # k
        /\ \A j \in 2..l : j \in 1..l /\ j \in 2..k
        /\ \A j \in 1..l : j # l => j + 1 \in 1..l
    BY <1>1, <1>2
  <1>k. \A d \in Nat : d < k /\ d \in 2..k => d \in 2..l
    BY <1>3
  <1>4. /\ gs \in Seq(AFrame) /\ gs # <<>> /\ Len(gs) = l /\ DOMAIN gs = 1..l
        /\ \A j \in 1..l : gs[j] = fs[j]
    <2>1. gs = SubSeq(fs, 1, l) /\ l \in 0..Len(fs)
      BY <1>1, <1>2, <1>3 DEF Front
    <2>2. gs \in Seq(AFrame) /\ Len(gs) = l /\ DOMAIN gs = 1..l /\ \A j \in 1..l : gs[j] = fs[j]
      BY <1>2, <2>1, PrefixOf
    <2> QED BY <1>3, <2>2
  <1>5. /\ e.index \in 0..Len(m.index) /\ e.values \in 0..Len(m.values) /\ e.binders \in 0..Len(bs)
        /\ e.index \in Nat /\ e.values \in Nat /\ e.binders \in Nat
        /\ \A i \in DOMAIN bs : bs[i].depth < k <=> i <= e.binders
    <2>1. e.index \in Nat /\ e.values \in Nat /\ e.binders \in Nat
      BY <1>1, <1>2, <1>3, FrameParts
    <2>2. e.index <= Len(m.index) /\ e.values <= Len(m.values)
      BY <1>1, <1>2, <1>3 DEF Placed
    <2>3. e.binders <= Len(bs) /\ \A i \in DOMAIN bs : bs[i].depth < k <=> i <= e.binders
      BY <1>1, <1>2, <1>3 DEF Listed
    <2> QED BY <1>2, <2>1, <2>2, <2>3, MemoryParts
  <1>6. /\ g \in Memory /\ Len(g.index) = e.index /\ Len(g.values) = e.values
        /\ \A n \in DOMAIN g.values : n \in DOMAIN m.values /\ \A v : Holds(g, n, v) <=> Holds(m, n, v)
        /\ \A c : IsContext(m, c) /\ c.index <= e.index /\ c.values <= e.values =>
              /\ IsContext(g, c) /\ SameMeaning(m, c, g, c)
              /\ g.index[c.index].index = m.index[c.index].index
    <2>1. Forgets(m, e, g)
      BY <1>1
    <2> QED BY <1>2, <1>5, <2>1, Forgetting
  <1>7. /\ cs \in Seq(ABinder) /\ Len(cs) = e.binders /\ DOMAIN cs = 1..e.binders
        /\ \A i \in DOMAIN cs : i \in DOMAIN bs /\ cs[i] = bs[i] /\ i \in Nat
    BY <1>1, <1>2, <1>5, PrefixOf
  <1>8. ASSUME NEW j \in 1..l PROVE Seen(gs, cs, j) = Seen(fs, bs, j)
    <2>1. CASE j = l
      BY <1>1, <1>3, <1>4, <1>7, <2>1 DEF Seen
    <2>2. CASE j # l
      <3>1. j + 1 \in 1..l /\ j # Len(fs)
        BY <1>1, <1>3, <2>2
      <3> QED BY <1>4, <2>2, <3>1 DEF Seen
    <2> QED BY <2>1, <2>2
  <1>9. Typed(g, gs, cs)
    BY <1>4, <1>6, <1>7 DEF Typed
  <1>10. Shaped(gs)
    <2>1. gs[1] = fs[1] /\ \A j \in DOMAIN gs : gs[j] = fs[j] /\ j \in DOMAIN fs
      BY <1>3, <1>4
    <2> QED BY <1>2, <2>1 DEF Shaped
  <1>11. ASSUME NEW j \in 1..l PROVE Upto(fs[k], fs[j].ctx) /\ (RetInUse(fs[j]) => Upto(fs[k], fs[j].ret))
    BY <1>2, <1>3, Zenon DEF Placed
  <1>12. ASSUME NEW j \in 2..l
         PROVE  fs[j].before.index < e.index /\ fs[j].before.values < e.values
    <2>1. After(fs[j], fs[j].ctx) /\ Upto(fs[k], fs[j].ctx) /\ j \in DOMAIN fs
      BY <1>2, <1>3, <1>11, Zenon DEF Placed
    <2>2. /\ fs[j].ctx.index \in Nat /\ fs[j].ctx.values \in Nat
          /\ fs[j].before.index \in Nat /\ fs[j].before.values \in Nat
      BY <1>2, <2>1, FrameParts
    <2>3. fs[j].before.index < fs[j].ctx.index /\ fs[j].before.values < fs[j].ctx.values
          /\ fs[j].ctx.index <= e.index /\ fs[j].ctx.values <= e.values
      BY <1>1, <2>1 DEF After, Upto
    <2>4. e.index \in Nat /\ e.values \in Nat
      BY <1>5
    <2> QED BY <2>2, <2>3, <2>4, SMTT(30)
  <1>13. Placed(g, gs)
    <2>1. ASSUME NEW j \in 2..l
          PROVE  /\ gs[j].before.index <= Len(g.index) /\ gs[j].before.values <= Len(g.values)
                 /\ After(gs[j], gs[j].ctx)
                 /\ RetInUse(gs[j]) => /\ After(gs[j], gs[j].ret)
                                       /\ gs[j].ctx.index # gs[j].ret.index
                                       /\ gs[j].ctx.values # gs[j].ret.values
      <3>1. gs[j] = fs[j] /\ j \in 2..k /\ j \in DOMAIN fs
        BY <1>3, <1>4
      <3>2. /\ After(fs[j], fs[j].ctx)
            /\ RetInUse(fs[j]) => /\ After(fs[j], fs[j].ret)
                                  /\ fs[j].ctx.index # fs[j].ret.index
                                  /\ fs[j].ctx.values # fs[j].ret.values
        BY <1>2, <3>1 DEF Placed
      <3>3. fs[j].before.index \in Nat /\ fs[j].before.values \in Nat
        BY <1>2, <3>1, FrameParts
      <3>4. fs[j].before.index <= Len(g.index) /\ fs[j].before.values <= Len(g.values)
        BY <1>5, <1>6, <1>12, <3>3, SMTT(30)
      <3> QED BY <3>1, <3>2, <3>4
    <2>2. \A i, j \in DOMAIN gs : i < j =>
             Upto(gs[j], gs[i].ctx) /\ (RetInUse(gs[i]) => Upto(gs[j], gs[i].ret))
      BY <1>2, <1>3, <1>4, Zenon DEF Placed
    <2> QED BY <1>4, <2>1, <2>2 DEF Placed
  <1>14. Listed(gs, cs)
    <2>1. ASSUME NEW i \in DOMAIN cs PROVE cs[i].depth \in 2..l
      <3>1. i <= e.binders /\ i \in DOMAIN bs /\ cs[i] = bs[i]
        BY <1>5, <1>7
      <3>2. bs[i].depth < k /\ bs[i].depth \in 2..k
        BY <1>2, <1>5, <3>1 DEF Listed
      <3>3. bs[i].depth \in Nat
        BY <1>2, <3>1, BinderParts
      <3> QED BY <1>k, <3>1, <3>2, <3>3
    <2>2. ASSUME NEW j \in 2..l
          PROVE  /\ gs[j].before.binders <= Len(cs)
                 /\ \A i \in DOMAIN cs : cs[i].depth < j <=> i <= gs[j].before.binders
      <3>1. gs[j] = fs[j] /\ j \in 2..k /\ j \in DOMAIN fs
        BY <1>3, <1>4
      <3>2. /\ fs[j].before.binders <= Len(bs) /\ fs[j].before.binders \in Nat
            /\ \A i \in DOMAIN bs : bs[i].depth < j <=> i <= fs[j].before.binders
        BY <1>2, <3>1, FrameParts DEF Listed
      <3>3. PICK b : b = fs[j].before.binders
        OBVIOUS
      <3>4. b <= e.binders
        <4>1. CASE b = 0
          BY <1>5, <4>1
        <4>2. CASE b # 0
          <5>1. b \in DOMAIN bs
            BY <1>2, <3>2, <3>3, <4>2
          <5>2. bs[b].depth < j /\ bs[b].depth \in Nat
            BY <1>2, <3>2, <3>3, <5>1, BinderParts
          <5>3. bs[b].depth < k
            BY <1>2, <1>3, <3>1, <5>2
          <5> QED BY <1>5, <5>1, <5>3
        <4> QED BY <4>1, <4>2
      <3> QED BY <1>7, <3>1, <3>2, <3>3, <3>4
    <2>3. ASSUME NEW j \in DOMAIN gs PROVE gs[j].known <= Seen(gs, cs, j)
      <3>1. gs[j] = fs[j] /\ j \in DOMAIN fs /\ j \in 1..l
        BY <1>3, <1>4
      <3>2. fs[j].known <= Seen(fs, bs, j)
        BY <1>2, <3>1 DEF Listed
      <3> QED BY <1>8, <3>1, <3>2
    <2> QED BY <1>4, <2>1, <2>2, <2>3 DEF Listed
  <1>15. Distinct(cs)
    <2>1. \A i \in DOMAIN bs : bs[i].var.name = bs[i].name
      BY <1>2 DEF Distinct
    <2>2. \A i, j \in DOMAIN bs : i < j /\ bs[i].name = bs[j].name => bs[i].var.shadow < bs[j].var.shadow
      BY <1>2 DEF Distinct
    <2>3. \A i \in DOMAIN cs : cs[i].var.name = cs[i].name
      BY <1>7, <2>1
    <2>4. ASSUME NEW i \in DOMAIN cs, NEW j \in DOMAIN cs, i < j, cs[i].name = cs[j].name
          PROVE  cs[i].var.shadow < cs[j].var.shadow
      <3>1. i \in DOMAIN bs /\ j \in DOMAIN bs /\ cs[i] = bs[i] /\ cs[j] = bs[j]
        BY <1>7
      <3> QED BY <2>2, <2>4, <3>1
    <2> QED BY <2>3, <2>4 DEF Distinct
  <1>16. Registered(g, gs, cs)
    <2>1. ASSUME NEW q \in DOMAIN g.values, NEW v \in Named, Holds(g, q, v)
          PROVE  \E i \in DOMAIN cs :
                   /\ cs[i].var = v
                   /\ \A j \in 2..Len(gs) : q <= gs[j].before.values => i <= gs[j].before.binders
      <3>1. q \in DOMAIN m.values /\ Holds(m, q, v)
        BY <1>6, <2>1
      <3>2. PICK i \in DOMAIN bs :
              /\ bs[i].var = v
              /\ \A j \in 2..k : q <= fs[j].before.values => i <= fs[j].before.binders
        BY <1>2, <3>1 DEF Registered
      <3>3. q <= e.values
        <4>1. q \in 1..Len(g.values)
          BY <1>6, MemoryParts
        <4> QED BY <1>5, <1>6, <4>1
      <3>4. i \in DOMAIN cs /\ cs[i] = bs[i]
        <4>1. i <= e.binders
          BY <1>1, <1>3, <3>2, <3>3
        <4>2. i \in DOMAIN cs
          BY <1>2, <1>5, <1>7, <4>1
        <4> QED BY <1>7, <4>2
      <3>5. \A j \in 2..l : q <= gs[j].before.values => i <= gs[j].before.binders
        BY <1>3, <1>4, <3>2
      <3> QED BY <1>4, <3>2, <3>4, <3>5
    <2> QED BY <2>1 DEF Registered
  <1>17. ASSUME NEW j \in DOMAIN gs PROVE FrameSees(g, gs, cs, j)
    <2>1. j \in 1..l /\ j \in DOMAIN fs /\ gs[j] = fs[j]
      BY <1>3, <1>4
    <2>2. FrameSees(m, fs, bs, j) /\ IsContext(m, fs[j].ctx) /\ (RetInUse(fs[j]) => IsContext(m, fs[j].ret))
      BY <2>1, SoundParts
    <2>3. KeepsFrame(m, fs, g, gs, j)
      <3>1. /\ fs[j].ctx.index <= e.index /\ fs[j].ctx.values <= e.values
            /\ RetInUse(fs[j]) => fs[j].ret.index <= e.index /\ fs[j].ret.values <= e.values
        BY <1>1, <1>11, <2>1 DEF Upto
      <3> QED BY <1>6, <2>1, <2>2, <3>1 DEF KeepsFrame
    <2>4. AgreeUpto(fs, bs, gs, cs, j)
      <3>1. /\ Seen(fs, bs, j) \in 0..Len(bs)
            /\ \A i \in DOMAIN bs : bs[i].depth <= j <=> i <= Seen(fs, bs, j)
        BY <2>1, SeenParts
      <3>2. ASSUME NEW i \in 1..Seen(fs, bs, j)
            PROVE  cs[i] = bs[i] /\ bs[i].depth \in 1..j /\ bs[i].var \in Named
        <4>1. i \in DOMAIN bs
          BY <1>2, <3>1
        <4>2. bs[i].depth <= j /\ bs[i].depth \in 2..k
          BY <1>2, <3>1, <4>1 DEF Listed
        <4>3. bs[i].depth < k
          <5>1. bs[i].depth \in Nat
            BY <1>2, <4>1, BinderParts
          <5>2. PICK d \in Nat : d = bs[i].depth
            BY <5>1
          <5>3. d <= j
            BY <4>2, <5>2
          <5>4. d < k
            <6>1. j \in 1..l /\ l \in Nat /\ l + 1 = k
              BY <1>3, <2>1
            <6> QED BY <5>3, <6>1
          <5> QED BY <5>2, <5>4
        <4>4. i \in DOMAIN cs
          BY <1>2, <1>5, <1>7, <4>1, <4>3
        <4> QED BY <1>2, <1>7, <2>1, <4>1, <4>2, <4>4, BinderParts, SMTT(30)
      <3>3. \A i \in 1..j : gs[i] = fs[i]
        <4>1. \A i \in 1..j : i \in 1..l
          BY <1>3, <2>1
        <4> QED BY <1>4, <4>1
      <3>4. Seen(fs, bs, j) \in Nat /\ Seen(gs, cs, j) = Seen(fs, bs, j)
        BY <1>2, <1>8, <2>1, <3>1
      <3> QED BY <3>2, <3>3, <3>4 DEF AgreeUpto
    <2> QED BY <2>2, <2>3, <2>4, FrameKept
  <1> QED BY <1>1, <1>9, <1>10, <1>13, <1>14, <1>15, <1>16, <1>17 DEF Sound

\* A new variable is apart from all that are declared around, hidden or not.
Fresh(m, bs, name, v) ==
  /\ v \in Named /\ v.name = name
  /\ \A i \in DOMAIN bs : /\ bs[i].var # v
                          /\ bs[i].name = name => bs[i].var.shadow < v.shadow
  /\ \A n \in DOMAIN m.values : ~Holds(m, n, v)

LEMMA NewVarIsFresh ==
  ASSUME NEW m, NEW fs, NEW bs, Sound(m, fs, bs), NEW c, c = fs[Len(fs)].ctx,
         NEW name \in Names, C!HasShadow(m, c, name)
  PROVE  Fresh(m, bs, name, C!NewVar(m, c, name))
  <1>1. PICK v, x : v = C!NewVar(m, c, name) /\ x = C!VarOf(m, c, name)
    OBVIOUS
  <1>2. /\ bs \in Seq(ABinder) /\ Len(bs) \in Nat /\ DOMAIN bs = 1..Len(bs)
        /\ Len(fs) \in DOMAIN fs /\ Distinct(bs) /\ Registered(m, fs, bs)
        /\ \A k \in DOMAIN fs : FrameSees(m, fs, bs, k)
    BY SoundParts
  <1>3. NameSeen(x, bs, Len(bs), name)
    <2>1. Seen(fs, bs, Len(fs)) = Len(bs)
      BY DEF Seen
    <2> QED BY <1>1, <1>2, <2>1 DEF FrameSees, Sees
  <1>4. v = [name |-> name, shadow |-> IF x = C!NoVar THEN 0 ELSE x.shadow + 1]
        /\ v.shadow <= MaxShadow
    BY <1>1 DEF C!NewVar, C!HasShadow
  <1>5. v.name = name /\ v.shadow = IF x = C!NoVar THEN 0 ELSE x.shadow + 1
    BY <1>4
  <1>6. \A i \in DOMAIN bs : bs[i].var.name = bs[i].name /\ bs[i].var.shadow \in Nat /\ bs[i].var \in Named
    BY <1>2, BinderParts DEF Distinct
  <1>7. v.shadow \in Nat /\ \A i \in DOMAIN bs : bs[i].name = name => bs[i].var.shadow < v.shadow
    <2>1. CASE \A i \in 1..Len(bs) : bs[i].name # name
      <3>1. x = C!NoVar
        BY <1>3, <2>1 DEF NameSeen
      <3> QED BY <1>2, <1>5, <2>1, <3>1
    <2>2. CASE ~ \A i \in 1..Len(bs) : bs[i].name # name
      <3>1. PICK i \in 1..Len(bs) :
              bs[i].name = name /\ bs[i].var = x /\ \A j \in (i + 1)..Len(bs) : bs[j].name # name
        BY <1>3, <2>2 DEF NameSeen
      <3>2. i \in DOMAIN bs /\ x \in Named /\ x.shadow \in Nat
        BY <1>2, <1>6, <3>1
      <3>3. v.shadow = x.shadow + 1
        BY <1>5, <3>2, NamedAreVars
      <3>4. ASSUME NEW j \in DOMAIN bs, bs[j].name = name PROVE bs[j].var.shadow < v.shadow
        <4>1. j = i \/ j < i
          BY <1>2, <3>1, <3>4
        <4>2. CASE j = i
          BY <3>1, <3>2, <3>3, <4>2
        <4>3. CASE j < i
          <5>1. bs[j].var.shadow < x.shadow /\ bs[j].var.shadow \in Nat
            BY <1>2, <1>6, <3>1, <3>2, <3>4, <4>3 DEF Distinct
          <5> QED BY <3>2, <3>3, <5>1
        <4> QED BY <4>1, <4>2, <4>3
      <3> QED BY <3>2, <3>3, <3>4
    <2> QED BY <2>1, <2>2
  <1>8. \A i \in DOMAIN bs : bs[i].var # v
    <2>1. ASSUME NEW i \in DOMAIN bs, bs[i].var = v PROVE FALSE
      <3>1. bs[i].name = name
        BY <1>5, <1>6, <2>1
      <3>2. v.shadow < v.shadow
        BY <1>7, <2>1, <3>1
      <3> QED BY <1>7, <3>2
    <2> QED BY <2>1
  <1>9. v \in Named
    <2>1. v.shadow \in 0..MaxShadow
      BY <1>4, <1>7, NamedAreVars
    <2>2. v = [name |-> v.name, shadow |-> v.shadow]
      BY <1>4
    <2> QED BY <1>5, <2>1, <2>2 DEF Named
  <1>10. ASSUME NEW n \in DOMAIN m.values, Holds(m, n, v) PROVE FALSE
    <2>1. \E i \in DOMAIN bs : bs[i].var = v
      BY <1>2, <1>9, <1>10 DEF Registered
    <2> QED BY <1>8, <2>1
  <1> QED BY <1>1, <1>5, <1>7, <1>8, <1>9, <1>10 DEF Fresh

\* There is one variable that a name stands for.
LEMMA OneSeen ==
  ASSUME NEW bs \in Seq(ABinder), NEW n \in 0..Len(bs), NEW name, NEW x, NEW y,
         NameSeen(x, bs, n, name), NameSeen(y, bs, n, name)
  PROVE  x = y
  <1>1. CASE \A i \in 1..n : bs[i].name # name
    BY <1>1 DEF NameSeen
  <1>2. CASE ~ \A i \in 1..n : bs[i].name # name
    <2>1. PICK i \in 1..n : bs[i].name = name /\ bs[i].var = x /\ \A l \in (i + 1)..n : bs[l].name # name
      BY <1>2 DEF NameSeen
    <2>2. PICK j \in 1..n : bs[j].name = name /\ bs[j].var = y /\ \A l \in (j + 1)..n : bs[l].name # name
      BY <1>2 DEF NameSeen
    <2>3. i = j
      <3>1. i \in Nat /\ j \in Nat /\ n \in Nat
        OBVIOUS
      <3>2. ~(j \in (i + 1)..n) /\ ~(i \in (j + 1)..n)
        BY <2>1, <2>2
      <3> QED BY <3>1, <3>2
    <2> QED BY <2>1, <2>2, <2>3
  <1> QED BY <1>1, <1>2

OwnIndex(f) == {f.ctx.index} \union (IF HasRet(f) THEN {f.ret.index} ELSE {})
OwnValues(f) == {f.ctx.values} \union (IF HasRet(f) THEN {f.ret.values} ELSE {})

\* try_emplace() in the contexts of one construct: name stands for variable v in
\* both from then on, and nothing else that had a name changes anywhere.
Binds(m, f, name, v, t, g) ==
  /\ g \in Memory /\ Len(g.index) = Len(m.index) /\ Len(g.values) = Len(m.values)
  /\ C!VarOf(g, f.ctx, name) = v /\ C!DeclOf(g, f.ctx, v) = C!Decl(f.ctx, t)
  /\ g.index[f.ctx.index].index[name] # 0
  /\ HasRet(f) => C!VarOf(g, f.ret, name) = v /\ C!DeclOf(g, f.ret, v) = C!Decl(f.ret, t)
  /\ \A e : IsContext(m, e) => IsContext(g, e)
  /\ \A e : \A x \in Names : IsContext(m, e) /\ ~(e.index \in OwnIndex(f) /\ x = name) =>
       C!VarOf(g, e, x) = C!VarOf(m, e, x)
  /\ \A e : \A x \in Named : IsContext(m, e) /\ ~(e.values \in OwnValues(f) /\ x = v) =>
       C!DeclOf(g, e, x) = C!DeclOf(m, e, x)
  /\ \A n \in DOMAIN m.index, x \in Names : ~(n \in OwnIndex(f) /\ x = name) =>
       g.index[n].index[x] = m.index[n].index[x]
  /\ \A n \in DOMAIN m.values, x \in Named : ~(n \in OwnValues(f) /\ x = v) =>
       (Holds(g, n, x) <=> Holds(m, n, x))

LEMMA DeclaredInBoth ==
  ASSUME NEW m, NEW fs, NEW bs, Sound(m, fs, bs), NEW f, f = fs[Len(fs)], f.phase = "params",
         NEW name \in Names, NEW t \in DeclTypes, NEW v, v = C!NewVar(m, f.ctx, name), Fresh(m, bs, name, v),
         C!CanDeclare(m, f.ctx, name), NEW a, a = C!Declared(m, f.ctx, name, t),
         NEW g, g = IF HasRet(f) THEN C!Declared(a, f.ret, name, t) ELSE a
  PROVE  Binds(m, f, name, v, t, g)
  <1>1. PICK k, c, r : k = Len(fs) /\ c = f.ctx /\ r = f.ret
    OBVIOUS
  <1>2. /\ m \in Memory /\ fs \in Seq(AFrame) /\ bs \in Seq(ABinder)
        /\ k \in Nat \ {0} /\ DOMAIN fs = 1..k /\ k \in DOMAIN fs
        /\ Shaped(fs) /\ Placed(m, fs) /\ FrameSees(m, fs, bs, k)
        /\ IsContext(m, c) /\ (RetInUse(f) => IsContext(m, r))
    BY <1>1, SoundParts
  <1>3. k \in 2..Len(fs)
    <2>1. k # 1
      BY <1>1, <1>2 DEF Shaped
    <2> QED BY <1>1, <1>2, <2>1
  <1>4. Declares(m, c, name, v, C!Decl(c, t), a)
    <2>1. m.index[c.index].index[name] = 0
      BY <1>1, <1>2, SameIndex DEF C!CanDeclare
    <2>2. v \in Named /\ ~Holds(m, c.values, v)
      BY <1>2 DEF Fresh, IsContext
    <2> QED BY <1>1, <1>2, <2>1, <2>2, DeclaredMeans
  <1>5. CASE ~HasRet(f)
    <2>1. OwnIndex(f) = {c.index} /\ OwnValues(f) = {c.values} /\ g = a
      BY <1>1, <1>5, SMTT(30) DEF OwnIndex, OwnValues
    <2>2. /\ g \in Memory /\ Len(g.index) = Len(m.index) /\ Len(g.values) = Len(m.values)
          /\ C!VarOf(g, c, name) = v /\ C!DeclOf(g, c, v) = C!Decl(c, t)
          /\ g.index[c.index].index[name] # 0
          /\ \A e : IsContext(m, e) => IsContext(g, e)
      BY <1>4, <2>1 DEF Declares
    <2>3. ASSUME NEW e, IsContext(m, e)
          PROVE  /\ \A x \in Names : ~(e.index \in OwnIndex(f) /\ x = name) => C!VarOf(g, e, x) = C!VarOf(m, e, x)
                 /\ \A x \in Named : ~(e.values \in OwnValues(f) /\ x = v) => C!DeclOf(g, e, x) = C!DeclOf(m, e, x)
      BY <1>4, <2>1, <2>3, SMTT(30) DEF Declares
    <2>4. \A n \in DOMAIN m.index, x \in Names : ~(n \in OwnIndex(f) /\ x = name) =>
            g.index[n].index[x] = m.index[n].index[x]
      BY <1>4, <2>1 DEF Declares
    <2>5. \A n \in DOMAIN m.values, x \in Named : ~(n \in OwnValues(f) /\ x = v) =>
            (Holds(g, n, x) <=> Holds(m, n, x))
      BY <1>4, <2>1 DEF Declares
    <2> QED BY <1>1, <1>5, <2>2, <2>3, <2>4, <2>5 DEF Binds
  <1>6. CASE HasRet(f)
    <2>1. /\ RetInUse(f) /\ IsContext(m, r) /\ c.index # r.index /\ c.values # r.values
          /\ SeesParameters(m, fs, bs, k)
      BY <1>1, <1>2, <1>3, <1>6 DEF RetInUse, Placed, FrameSees
    <2>2. IsContext(a, r) /\ a \in Memory
      BY <1>4, <2>1 DEF Declares
    <2>3. C!VarOf(m, r, name) = C!VarOf(m, c, name)
      <3>1. Seen(fs, bs, k) = Len(bs) /\ Len(bs) \in 0..Len(bs)
        BY <1>1, SoundParts, SMTT(30) DEF Seen
      <3>2. NameSeen(C!VarOf(m, r, name), bs, Len(bs), name)
            /\ NameSeen(C!VarOf(m, c, name), bs, Len(bs), name)
        BY <1>1, <1>2, <2>1, <3>1 DEF SeesParameters, FrameSees, Sees
      <3> QED BY <1>2, <3>1, <3>2, OneSeen
    <2>4. C!VarOf(a, r, name) = C!VarOf(m, r, name)
      BY <1>4, <2>1 DEF Declares
    <2>5. v = C!NewVar(a, r, name)
      BY <1>1, <2>3, <2>4 DEF C!NewVar
    <2>6. a.index[r.index].index[name] = 0
      <3>1. m.index[r.index].index[name] = 0
        <4>1. m.index[c.index].index[name] = 0
          BY <1>1, <1>2, SameIndex DEF C!CanDeclare
        <4> QED BY <1>1, <2>1, <4>1 DEF SeesParameters
      <3> QED BY <1>4, <2>1, <3>1, SMTT(30) DEF Declares, IsContext
    <2>7. v \in Named /\ ~Holds(a, r.values, v)
      <3>1. v \in Named /\ ~Holds(m, r.values, v)
        BY <2>1 DEF Fresh, IsContext
      <3> QED BY <1>4, <2>1, <3>1 DEF Declares, IsContext
    <2>8. Declares(a, r, name, v, C!Decl(r, t), g)
      <3>1. g = C!Declared(a, r, name, t)
        BY <1>1, <1>6
      <3> QED BY <2>2, <2>5, <2>6, <2>7, <3>1, DeclaredMeans
    <2>9. OwnIndex(f) = {c.index, r.index} /\ OwnValues(f) = {c.values, r.values}
      BY <1>1, <1>6 DEF OwnIndex, OwnValues
    <2>10. DOMAIN a.index = DOMAIN m.index /\ DOMAIN a.values = DOMAIN m.values
      <3>1. Len(a.index) = Len(m.index) /\ Len(a.values) = Len(m.values)
        BY <1>4 DEF Declares
      <3> QED BY <1>2, <2>2, <3>1, MemoryParts
    <2>11. /\ g \in Memory /\ Len(g.index) = Len(m.index) /\ Len(g.values) = Len(m.values)
           /\ C!VarOf(g, r, name) = v /\ C!DeclOf(g, r, v) = C!Decl(r, t)
           /\ \A e : IsContext(m, e) => IsContext(g, e)
      BY <1>4, <2>8, Zenon DEF Declares
    <2>12. /\ C!VarOf(g, c, name) = v /\ C!DeclOf(g, c, v) = C!Decl(c, t)
           /\ g.index[c.index].index[name] # 0
      <3>1. IsContext(a, c) /\ c.index \in DOMAIN a.index
        BY <1>2, <1>4, <2>10 DEF Declares, IsContext
      <3>2. C!VarOf(g, c, name) = C!VarOf(a, c, name)
        BY <2>1, <2>8, <3>1, Zenon DEF Declares
      <3>3. C!DeclOf(g, c, v) = C!DeclOf(a, c, v)
        BY <2>1, <2>7, <2>8, <3>1, ZenonT(60) DEF Declares
      <3>4. g.index[c.index].index[name] = a.index[c.index].index[name]
        BY <2>1, <2>8, <3>1, Zenon DEF Declares
      <3> QED BY <1>4, <3>2, <3>3, <3>4, Zenon DEF Declares
    <2>13. ASSUME NEW e, IsContext(m, e)
           PROVE  /\ \A x \in Names : ~(e.index \in OwnIndex(f) /\ x = name) => C!VarOf(g, e, x) = C!VarOf(m, e, x)
                  /\ \A x \in Named : ~(e.values \in OwnValues(f) /\ x = v) => C!DeclOf(g, e, x) = C!DeclOf(m, e, x)
      <3>1. IsContext(a, e)
        BY <1>4, <2>13 DEF Declares
      <3>2. ASSUME NEW x \in Names, ~(e.index \in OwnIndex(f) /\ x = name)
            PROVE  C!VarOf(g, e, x) = C!VarOf(m, e, x)
        <4>1. ~(e.index = c.index /\ x = name) /\ ~(e.index = r.index /\ x = name)
          BY <2>9, <3>2
        <4>2. C!VarOf(a, e, x) = C!VarOf(m, e, x)
          BY <1>4, <2>13, <4>1 DEF Declares
        <4>3. C!VarOf(g, e, x) = C!VarOf(a, e, x)
          BY <2>8, <3>1, <4>1, Zenon DEF Declares
        <4> QED BY <4>2, <4>3
      <3>3. ASSUME NEW x \in Named, ~(e.values \in OwnValues(f) /\ x = v)
            PROVE  C!DeclOf(g, e, x) = C!DeclOf(m, e, x)
        <4>1. ~(e.values = c.values /\ x = v) /\ ~(e.values = r.values /\ x = v)
          BY <2>9, <3>3
        <4>2. C!DeclOf(a, e, x) = C!DeclOf(m, e, x)
          BY <1>4, <2>13, <4>1 DEF Declares
        <4>3. C!DeclOf(g, e, x) = C!DeclOf(a, e, x)
          BY <2>8, <3>1, <4>1, Zenon DEF Declares
        <4> QED BY <4>2, <4>3
      <3> QED BY <3>2, <3>3
    <2>14. ASSUME NEW n \in DOMAIN m.index, NEW x \in Names, ~(n \in OwnIndex(f) /\ x = name)
           PROVE  g.index[n].index[x] = m.index[n].index[x]
      <3>1. ~(n = c.index /\ x = name) /\ ~(n = r.index /\ x = name) /\ n \in DOMAIN a.index
        BY <2>9, <2>10, <2>14
      <3>2. a.index[n].index[x] = m.index[n].index[x]
        BY <1>4, <3>1 DEF Declares
      <3>3. g.index[n].index[x] = a.index[n].index[x]
        BY <2>8, <3>1, Zenon DEF Declares
      <3> QED BY <3>2, <3>3
    <2>15. ASSUME NEW n \in DOMAIN m.values, NEW x \in Named, ~(n \in OwnValues(f) /\ x = v)
           PROVE  Holds(g, n, x) <=> Holds(m, n, x)
      <3>1. ~(n = c.values /\ x = v) /\ ~(n = r.values /\ x = v) /\ n \in DOMAIN a.values
        BY <2>9, <2>10, <2>15
      <3>2. Holds(a, n, x) <=> Holds(m, n, x)
        BY <1>4, <3>1 DEF Declares
      <3>3. Holds(g, n, x) <=> Holds(a, n, x)
        BY <2>8, <3>1, Zenon DEF Declares
      <3> QED BY <3>2, <3>3
    <2> QED BY <1>1, <2>11, <2>12, <2>13, <2>14, <2>15, Zenon DEF Binds
  <1> QED BY <1>5, <1>6

\* One more binder, that a context has come to know.
LearnsOf(m, c, g, b, ids) ==
  /\ IsContext(g, c) /\ C!Scope(c) \in {C!Unscoped, ids}
  /\ C!VarOf(g, c, b.name) = b.var /\ C!DeclOf(g, c, b.var) = C!Decl(c, b.type)
  /\ \A x \in Names : x # b.name => C!VarOf(g, c, x) = C!VarOf(m, c, x)
  /\ \A x \in Named : x # b.var => C!DeclOf(g, c, x) = C!DeclOf(m, c, x)

LEMMA OneMoreSeen ==
  ASSUME NEW fs, NEW bs \in Seq(ABinder), NEW k \in Nat \ {0}, NEW n, n = Len(bs), Seen(fs, bs, k) = n,
         NEW gs, NEW cs, NEW b \in ABinder, cs = Append(bs, b), Seen(gs, cs, k) = n + 1, b.depth = k,
         \A j \in 1..k : gs[j].known = fs[j].known /\ gs[j].ctx.id = fs[j].ctx.id
                         /\ fs[j].known \in Nat /\ fs[j].known <= n,
         \A i \in DOMAIN bs : bs[i].depth \in 1..k /\ bs[i].var # b.var,
         NEW m, NEW c, NEW g, Sees(m, c, fs, bs, k), LearnsOf(m, c, g, b, fs[k].ctx.id)
  PROVE  Sees(g, c, gs, cs, k)
  <1>1. /\ n \in Nat /\ DOMAIN bs = 1..n /\ cs[n + 1] = b /\ n + 1 \in 1..(n + 1)
        /\ \A i \in 1..n : cs[i] = bs[i] /\ i \in 1..(n + 1) /\ i # n + 1
        /\ \A i \in 1..(n + 1) : i \in 1..n \/ i = n + 1
    OBVIOUS
  <1>2. b.name \in Names /\ b.var \in Named /\ b.type \in DeclTypes /\ c \in Context
    BY NamesAssumption DEF ABinder, DeclTypes, Sees, IsContext
  <1>3. ASSUME NEW x \in Names PROVE NameSeen(C!VarOf(g, c, x), cs, n + 1, x)
    <2>1. CASE x = b.name
      <3>1. \A j \in (n + 1 + 1)..(n + 1) : FALSE
        BY <1>1
      <3> QED BY <1>1, <2>1, <3>1 DEF NameSeen, LearnsOf
    <2>2. CASE x # b.name
      <3>1. PICK y : y = C!VarOf(m, c, x)
        OBVIOUS
      <3>2. C!VarOf(g, c, x) = y /\ NameSeen(y, bs, n, x)
        BY <2>2, <3>1 DEF LearnsOf, Sees
      <3>3. CASE y = C!NoVar /\ \A i \in 1..n : bs[i].name # x
        <4>1. \A i \in 1..(n + 1) : cs[i].name # x
          BY <1>1, <2>2, <3>3
        <4> QED BY <3>2, <3>3, <4>1 DEF NameSeen
      <3>4. CASE \E i \in 1..n : bs[i].name = x /\ bs[i].var = y /\ \A j \in (i + 1)..n : bs[j].name # x
        <4>1. PICK i \in 1..n : bs[i].name = x /\ bs[i].var = y /\ \A j \in (i + 1)..n : bs[j].name # x
          BY <3>4
        <4>2. ASSUME NEW j \in (i + 1)..(n + 1) PROVE cs[j].name # x
          <5>1. CASE j = n + 1
            BY <1>1, <2>2, <5>1
          <5>2. CASE j # n + 1
            <6>1. j \in (i + 1)..n /\ j \in 1..n
              BY <1>1, <5>2
            <6> QED BY <1>1, <4>1, <6>1
          <5> QED BY <5>1, <5>2
        <4>3. cs[i].name = x /\ cs[i].var = y /\ i \in 1..(n + 1)
          BY <1>1, <4>1
        <4> QED BY <3>2, <4>2, <4>3 DEF NameSeen
      <3> QED BY <3>2, <3>3, <3>4 DEF NameSeen
    <2> QED BY <2>1, <2>2
  <1>4. ASSUME NEW i \in 1..(n + 1) PROVE DeclSeen(C!DeclOf(g, c, cs[i].var), gs, cs, k, i)
    <2>1. CASE i \in 1..n
      <3>1. cs[i] = bs[i] /\ bs[i].var \in Named /\ bs[i].var # b.var /\ bs[i].depth \in 1..k
        BY <1>1, <2>1, BinderParts
      <3>2. C!DeclOf(g, c, cs[i].var) = C!DeclOf(m, c, bs[i].var)
        BY <3>1 DEF LearnsOf
      <3>3. DeclSeen(C!DeclOf(m, c, bs[i].var), fs, bs, k, i)
        BY <2>1 DEF Sees
      <3>4. TypeSeen(gs, cs, k, i) = TypeSeen(fs, bs, k, i)
        BY <3>1 DEF TypeSeen
      <3>5. gs[cs[i].depth].ctx.id = fs[bs[i].depth].ctx.id
        BY <3>1
      <3> QED BY <3>2, <3>3, <3>4, <3>5 DEF DeclSeen
    <2>2. CASE i = n + 1
      <3>1. cs[i] = b
        BY <1>1, <2>2
      <3>2. C!Decl(c, b.type) \in Decls /\ C!Decl(c, b.type) = [type |-> b.type, scope |-> C!Scope(c)]
        BY <1>2, DeclType
      <3>3. ~ \E j \in 1..k : i <= gs[j].known
        <4>1. ASSUME NEW j \in 1..k, i <= gs[j].known PROVE FALSE
          <5>1. gs[j].known \in Nat /\ gs[j].known <= n
            OBVIOUS
          <5> QED BY <1>1, <2>2, <4>1, <5>1
        <4> QED BY <4>1
      <3>4. TypeSeen(gs, cs, k, i) = b.type
        BY <3>1, <3>3 DEF TypeSeen
      <3>5. C!DeclOf(g, c, cs[i].var) = C!Decl(c, b.type) /\ C!Scope(c) \in {C!Unscoped, gs[cs[i].depth].ctx.id}
        <4>1. k \in 1..k
          OBVIOUS
        <4> QED BY <3>1, <4>1 DEF LearnsOf
      <3> QED BY <3>2, <3>4, <3>5 DEF DeclSeen
    <2> QED BY <1>1, <2>1, <2>2
  <1> QED BY <1>3, <1>4 DEF Sees, LearnsOf

\* One binder more, of the innermost construct f, which goes on as o.
BindsOne(fs, bs, f, name, v, t, o, gs, cs) ==
  /\ f = fs[Len(fs)] /\ f.phase = "params"
  /\ o \in AFrame /\ o = [f EXCEPT !.params = o.params] /\ gs = [fs EXCEPT ![Len(fs)] = o]
  /\ cs = Append(bs, [name |-> name, var |-> v, type |-> t, depth |-> Len(fs)])

LEMMA Binding ==
  ASSUME NEW m, NEW fs, NEW bs, Sound(m, fs, bs),
         NEW name \in Names, NEW t \in Types, NEW v, Fresh(m, bs, name, v),
         NEW f, NEW g, Binds(m, f, name, v, t, g),
         NEW o, NEW gs, NEW cs, BindsOne(fs, bs, f, name, v, t, o, gs, cs)
  PROVE  Sound(g, gs, cs)
  <1>0. /\ f = fs[Len(fs)] /\ f.phase = "params" /\ o \in AFrame /\ o = [f EXCEPT !.params = o.params]
        /\ cs = Append(bs, [name |-> name, var |-> v, type |-> t, depth |-> Len(fs)])
    BY DEF BindsOne
  <1> USE <1>0
  <1>1. PICK k, n, b :
          /\ gs = [fs EXCEPT ![Len(fs)] = o] /\ k = Len(fs) /\ n = Len(bs)
          /\ b = [name |-> name, var |-> v, type |-> t, depth |-> k]
    BY DEF BindsOne
  <1>2. /\ m \in Memory /\ fs \in Seq(AFrame) /\ bs \in Seq(ABinder) /\ k \in Nat \ {0}
        /\ DOMAIN fs = 1..k /\ k \in DOMAIN fs /\ n \in Nat /\ DOMAIN bs = 1..n
        /\ Shaped(fs) /\ Placed(m, fs) /\ Listed(fs, bs) /\ Distinct(bs) /\ Registered(m, fs, bs)
        /\ \A j \in DOMAIN fs : FrameSees(m, fs, bs, j)
        /\ \A j \in DOMAIN fs : IsContext(m, fs[j].ctx) /\ (RetInUse(fs[j]) => IsContext(m, fs[j].ret))
        /\ k = Len(fs) /\ n = Len(bs)
    BY <1>1, SoundParts
  <1>3. k \in 2..k /\ \A j \in DOMAIN fs : j = k \/ (j < k /\ j # k /\ j \in 1..k /\ j + 1 \in 2..k /\ j + 1 \in DOMAIN fs)
    <2>1. k # 1
      BY <1>1, <1>2 DEF Shaped
    <2> QED BY <1>2, <2>1
  <1>4. /\ o.ctx = f.ctx /\ o.ret = f.ret /\ o.kind = f.kind /\ o.phase = f.phase
        /\ o.known = f.known /\ o.before = f.before
    <2>1. f \in AFrame
      BY <1>2, FrameParts
    <2> QED BY <2>1 DEF AFrame
  <1>5. gs \in Seq(AFrame) /\ Len(gs) = k /\ DOMAIN gs = 1..k /\ gs # <<>> /\ gs[k] = o
    BY <1>1, <1>2
  <1>6. \A j \in DOMAIN fs :
          /\ gs[j].ctx = fs[j].ctx /\ gs[j].ret = fs[j].ret /\ gs[j].kind = fs[j].kind
          /\ gs[j].phase = fs[j].phase /\ gs[j].known = fs[j].known /\ gs[j].before = fs[j].before
    BY <1>1, <1>2, <1>4
  <1>7. \A j \in DOMAIN fs : (HasRet(gs[j]) <=> HasRet(fs[j])) /\ (RetInUse(gs[j]) <=> RetInUse(fs[j]))
    BY <1>6 DEF HasRet, RetInUse
  <1>8. /\ v \in Named /\ v.name = name /\ \A q \in DOMAIN m.values : ~Holds(m, q, v)
        /\ \A i \in DOMAIN bs : bs[i].var # v /\ (bs[i].name = name => bs[i].var.shadow < v.shadow)
    BY DEF Fresh
  <1>9. /\ cs \in Seq(ABinder) /\ Len(cs) = n + 1 /\ DOMAIN cs = 1..(n + 1) /\ b \in ABinder
        /\ cs = Append(bs, b) /\ cs[n + 1] = b /\ n + 1 \in DOMAIN cs
        /\ \A i \in 1..n : cs[i] = bs[i] /\ i \in DOMAIN cs /\ i \in DOMAIN bs /\ i < n + 1
        /\ \A i \in DOMAIN cs : i \in 1..n \/ i = n + 1
    <2>1. b \in ABinder
      BY <1>1, <1>2, <1>8 DEF ABinder
    <2>2. cs = Append(bs, b)
      BY <1>1
    <2> QED BY <1>2, <2>1, <2>2
  <1>b. b.name = name /\ b.var = v /\ b.type = t /\ b.depth = k
    BY <1>1
  <1>10. Seen(fs, bs, k) = n /\ Seen(gs, cs, k) = n + 1
    BY <1>2, <1>5, <1>9 DEF Seen
  <1>11. ASSUME NEW j \in DOMAIN fs, j # k PROVE Seen(gs, cs, j) = Seen(fs, bs, j)
    BY <1>2, <1>3, <1>5, <1>6, <1>11 DEF Seen
  <1>12. /\ g \in Memory /\ Len(g.index) = Len(m.index) /\ Len(g.values) = Len(m.values)
         /\ DOMAIN g.index = DOMAIN m.index /\ DOMAIN g.values = DOMAIN m.values
         /\ \A e : IsContext(m, e) => IsContext(g, e)
    <2>1. /\ g \in Memory /\ Len(g.index) = Len(m.index) /\ Len(g.values) = Len(m.values)
          /\ \A e : IsContext(m, e) => IsContext(g, e)
      BY DEF Binds
    <2> QED BY <1>2, <2>1, MemoryParts
  <1>13. /\ \A e \in OwnIndex(f) : f.before.index < e
         /\ \A e \in OwnValues(f) : f.before.values < e
    <2>1. After(f, f.ctx) /\ (RetInUse(f) => After(f, f.ret))
      BY <1>1, <1>2, <1>3 DEF Placed
    <2>2. HasRet(f) => RetInUse(f)
      BY DEF RetInUse
    <2> QED BY <2>1, <2>2 DEF OwnIndex, OwnValues, After
  <1>14. ASSUME NEW j \in 2..k PROVE fs[j].before.values <= f.before.values
    <2>1. j \in DOMAIN fs /\ k \in DOMAIN fs
      BY <1>2
    <2>2. CASE j = k
      BY <1>1, <2>1, <2>2, FrameParts, <1>2
    <2>3. CASE j # k
      <3>1. j < k
        BY <1>3, <2>1, <2>3
      <3>2. After(fs[j], fs[j].ctx) /\ Upto(fs[k], fs[j].ctx)
        BY <1>2, <2>1, <3>1 DEF Placed
      <3>3. fs[j].before.values < fs[j].ctx.values /\ fs[j].ctx.values <= f.before.values
        BY <1>1, <3>2 DEF After, Upto
      <3>4. fs[j].before.values \in Nat /\ fs[j].ctx.values \in Nat /\ f.before.values \in Nat
        BY <1>1, <1>2, <2>1, FrameParts
      <3> QED BY <3>3, <3>4
    <2> QED BY <2>2, <2>3
  <1>15. Typed(g, gs, cs)
    BY <1>5, <1>9, <1>12 DEF Typed
  <1>16. Shaped(gs)
    <2>1. DOMAIN gs = DOMAIN fs /\ 1 \in DOMAIN fs
      BY <1>2, <1>5
    <2> QED BY <1>2, <1>6, <1>7, <2>1 DEF Shaped
  <1>17. Placed(g, gs)
    <2>1. Len(gs) = Len(fs) /\ DOMAIN gs = DOMAIN fs /\ \A j \in 2..Len(fs) : j \in DOMAIN fs
      BY <1>2, <1>5
    <2>2. \A j \in DOMAIN fs : \A c : (After(gs[j], c) <=> After(fs[j], c)) /\ (Upto(gs[j], c) <=> Upto(fs[j], c))
      BY <1>6 DEF After, Upto
    <2>3. ASSUME NEW j \in 2..Len(fs)
          PROVE  /\ gs[j].before.index <= Len(g.index) /\ gs[j].before.values <= Len(g.values)
                 /\ After(gs[j], gs[j].ctx)
                 /\ RetInUse(gs[j]) => /\ After(gs[j], gs[j].ret)
                                       /\ gs[j].ctx.index # gs[j].ret.index
                                       /\ gs[j].ctx.values # gs[j].ret.values
      BY <1>2, <1>6, <1>7, <1>12, <2>1, <2>2 DEF Placed
    <2>4. ASSUME NEW i \in DOMAIN fs, NEW j \in DOMAIN fs, i < j
          PROVE  Upto(gs[j], gs[i].ctx) /\ (RetInUse(gs[i]) => Upto(gs[j], gs[i].ret))
      BY <1>2, <1>6, <1>7, <2>2, <2>4 DEF Placed
    <2> QED BY <2>1, <2>3, <2>4 DEF Placed
  <1>18. Listed(gs, cs)
    <2>1. ASSUME NEW i \in DOMAIN cs PROVE cs[i].depth \in 2..k
      <3>1. CASE i \in 1..n
        BY <1>2, <1>9, <3>1 DEF Listed
      <3>2. CASE i = n + 1
        BY <1>3, <1>9, <1>b, <3>2
      <3> QED BY <1>9, <3>1, <3>2
    <2>2. ASSUME NEW j \in 2..k
          PROVE  /\ gs[j].before.binders <= Len(cs)
                 /\ \A i \in DOMAIN cs : cs[i].depth < j <=> i <= gs[j].before.binders
      <3>1. j \in DOMAIN fs
        BY <1>2
      <3>2. PICK e : e = fs[j].before.binders
        OBVIOUS
      <3>3. e \in Nat /\ e <= n /\ gs[j].before.binders = e
        BY <1>2, <1>6, <3>1, <3>2, FrameParts DEF Listed
      <3>4. ASSUME NEW i \in DOMAIN cs PROVE cs[i].depth < j <=> i <= e
        <4>1. CASE i \in 1..n
          BY <1>2, <1>9, <3>2, <4>1 DEF Listed
        <4>2. CASE i = n + 1
          <5>1. cs[i].depth = k /\ ~(k < j) /\ ~(n + 1 <= e)
            BY <1>2, <1>9, <1>b, <3>3, <4>2
          <5> QED BY <4>2, <5>1
        <4> QED BY <1>9, <4>1, <4>2
      <3>5. e <= Len(cs)
        BY <1>2, <1>9, <3>3
      <3> QED BY <3>3, <3>4, <3>5
    <2>3. ASSUME NEW j \in DOMAIN gs PROVE gs[j].known <= Seen(gs, cs, j)
      <3>1. j \in DOMAIN fs /\ gs[j].known = fs[j].known /\ fs[j].known \in Nat
        BY <1>2, <1>5, <1>6, FrameParts
      <3>2. fs[j].known <= Seen(fs, bs, j)
        BY <1>2, <3>1 DEF Listed
      <3>3. CASE j = k
        BY <1>2, <1>10, <3>1, <3>2, <3>3
      <3>4. CASE j # k
        BY <1>11, <3>1, <3>2, <3>4
      <3> QED BY <3>3, <3>4
    <2> QED BY <1>5, <2>1, <2>2, <2>3 DEF Listed
  <1>19. Distinct(cs)
    <2>1. ASSUME NEW i \in DOMAIN cs PROVE cs[i].var.name = cs[i].name
      BY <1>2, <1>8, <1>9, <1>b DEF Distinct
    <2>2. ASSUME NEW i \in DOMAIN cs, NEW j \in DOMAIN cs, i < j, cs[i].name = cs[j].name
          PROVE  cs[i].var.shadow < cs[j].var.shadow
      <3>1. i \in 1..n
        BY <1>2, <1>9, <2>2
      <3>2. CASE j \in 1..n
        BY <1>2, <1>9, <2>2, <3>1, <3>2 DEF Distinct
      <3>3. CASE j = n + 1
        BY <1>8, <1>9, <1>b, <2>2, <3>1, <3>3
      <3> QED BY <1>9, <3>2, <3>3
    <2> QED BY <2>1, <2>2 DEF Distinct
  <1>20. Registered(g, gs, cs)
    <2>1. ASSUME NEW q \in DOMAIN g.values, NEW w \in Named, Holds(g, q, w)
          PROVE  \E i \in DOMAIN cs :
                   /\ cs[i].var = w
                   /\ \A j \in 2..Len(gs) : q <= gs[j].before.values => i <= gs[j].before.binders
      <3>1. q \in DOMAIN m.values /\ q \in Nat
        <4>1. q \in DOMAIN m.values /\ DOMAIN m.values = 1..Len(m.values) /\ Len(m.values) \in Nat
          BY <1>2, <1>12, <2>1, MemoryParts
        <4> QED BY <4>1
      <3>2. CASE q \in OwnValues(f) /\ w = v
        <4>1. ASSUME NEW j \in 2..k, q <= gs[j].before.values PROVE FALSE
          <5>1. j \in DOMAIN fs
            BY <1>2
          <5>2. fs[j].before.values <= f.before.values /\ f.before.values < q /\ q <= fs[j].before.values
            BY <1>6, <1>13, <1>14, <3>2, <4>1, <5>1
          <5>3. fs[j].before.values \in Nat /\ f.before.values \in Nat
            BY <1>1, <1>2, <5>1, FrameParts
          <5> QED BY <3>1, <5>2, <5>3
        <4> QED BY <1>5, <1>9, <1>b, <3>2, <4>1
      <3>3. CASE ~(q \in OwnValues(f) /\ w = v)
        <4>1. Holds(m, q, w)
          BY <2>1, <3>1, <3>3 DEF Binds
        <4>2. PICK i \in DOMAIN bs :
                /\ bs[i].var = w
                /\ \A j \in 2..k : q <= fs[j].before.values => i <= fs[j].before.binders
          BY <1>2, <3>1, <4>1, ZenonT(60) DEF Registered
        <4>3. \A j \in 2..k : gs[j].before = fs[j].before
          BY <1>2, <1>6
        <4>4. i \in DOMAIN cs /\ cs[i] = bs[i]
          BY <1>2, <1>9, <4>2
        <4> QED BY <1>5, <4>2, <4>3, <4>4
      <3> QED BY <3>2, <3>3
    <2> QED BY <2>1 DEF Registered
  <1>21. ASSUME NEW j \in DOMAIN fs, j # k PROVE FrameSees(g, gs, cs, j)
    <2>1. j < k /\ j \in 1..k /\ Upto(f, fs[j].ctx) /\ (RetInUse(fs[j]) => Upto(f, fs[j].ret))
      BY <1>1, <1>2, <1>3, <1>21 DEF Placed
    <2>2. ASSUME NEW e, IsContext(m, e), Upto(f, e)
          PROVE  /\ IsContext(g, e) /\ SameMeaning(m, e, g, e)
                 /\ g.index[e.index].index = m.index[e.index].index
      <3>1. /\ e.index \in DOMAIN m.index /\ e.values \in DOMAIN m.values
            /\ e.index \in Nat /\ e.values \in Nat /\ f.before.index \in Nat /\ f.before.values \in Nat
        BY <1>1, <1>2, <2>2, FrameParts DEF IsContext, Context
      <3>2. e.index \notin OwnIndex(f) /\ e.values \notin OwnValues(f)
        <4>1. e.index <= f.before.index /\ e.values <= f.before.values
          BY <2>2 DEF Upto
        <4>2. ~(f.before.index < e.index) /\ ~(f.before.values < e.values)
          BY <3>1, <4>1
        <4> QED BY <1>13, <4>2
      <3>3. \A x \in Names : C!VarOf(g, e, x) = C!VarOf(m, e, x)
        BY <2>2, <3>2 DEF Binds
      <3>4. \A x \in Named : C!DeclOf(g, e, x) = C!DeclOf(m, e, x)
        BY <2>2, <3>2 DEF Binds
      <3>5. \A x \in Names : g.index[e.index].index[x] = m.index[e.index].index[x]
        BY <3>1, <3>2 DEF Binds
      <3>6. m.index[e.index].index \in [Names -> Nat] /\ g.index[e.index].index \in [Names -> Nat]
        <4>1. LI!WellFormed(m.index, Named) /\ LI!WellFormed(g.index, Named) /\ e.index \in DOMAIN g.index
          BY <1>2, <1>12, <3>1, MemoryParts
        <4> QED BY <3>1, <4>1, LI!NodeParts DEF LI!WellFormed
      <3>7. g.index[e.index].index = m.index[e.index].index
        <4>1. PICK p, q : p = m.index[e.index].index /\ q = g.index[e.index].index
          OBVIOUS
        <4>2. p \in [Names -> Nat] /\ q \in [Names -> Nat] /\ \A x \in Names : q[x] = p[x]
          BY <3>5, <3>6, <4>1
        <4>3. p = q
          BY <4>2
        <4> QED BY <4>1, <4>3
      <3> QED BY <1>12, <2>2, <3>3, <3>4, <3>7 DEF SameMeaning
    <2>3. KeepsFrame(m, fs, g, gs, j)
      BY <1>2, <1>6, <1>7, <2>1, <2>2 DEF KeepsFrame
    <2>4. AgreeUpto(fs, bs, gs, cs, j)
      <3>1. /\ Seen(fs, bs, j) \in 0..n
            /\ \A i \in DOMAIN bs : bs[i].depth <= j <=> i <= Seen(fs, bs, j)
        BY <1>1, SeenParts
      <3>2. ASSUME NEW i \in 1..Seen(fs, bs, j) PROVE cs[i] = bs[i] /\ bs[i].depth \in 1..j /\ bs[i].var \in Named
        <4>1. i \in 1..n /\ i \in DOMAIN bs /\ i <= Seen(fs, bs, j)
          BY <1>2, <3>1
        <4>2. bs[i].depth <= j /\ bs[i].depth \in 2..k
          BY <1>2, <3>1, <4>1 DEF Listed
        <4>3. bs[i].depth \in 1..j
          BY <1>2, <4>2
        <4> QED BY <1>2, <1>9, <4>1, <4>3, BinderParts
      <3>3. \A i \in 1..j : gs[i].known = fs[i].known /\ gs[i].ctx.id = fs[i].ctx.id
        BY <1>2, <1>6
      <3>4. Seen(fs, bs, j) \in Nat
        BY <1>2, <3>1
      <3> QED BY <1>11, <1>21, <3>2, <3>3, <3>4 DEF AgreeUpto
    <2> QED BY <1>2, <2>3, <2>4, FrameKept
  <1>22. FrameSees(g, gs, cs, k)
    <2>1. ASSUME NEW e, Sees(m, e, fs, bs, k), LearnsOf(m, e, g, b, f.ctx.id)
          PROVE  Sees(g, e, gs, cs, k)
      <3>1. \A j \in 1..k : gs[j].known = fs[j].known /\ gs[j].ctx.id = fs[j].ctx.id
                            /\ fs[j].known \in Nat /\ fs[j].known <= n
        <4>1. ASSUME NEW j \in 1..k PROVE fs[j].known \in Nat /\ fs[j].known <= n
          <5>1. fs[j].known <= Seen(fs, bs, j) /\ Seen(fs, bs, j) \in 0..n /\ fs[j].known \in Nat
            BY <1>1, <1>2, SeenParts, FrameParts
          <5> QED BY <1>2, <5>1
        <4> QED BY <1>2, <1>6, <4>1
      <3>2. \A i \in DOMAIN bs : bs[i].depth \in 1..k /\ bs[i].var # b.var
        <4>1. \A i \in DOMAIN bs : bs[i].depth \in 2..k
          BY <1>2 DEF Listed
        <4> QED BY <1>2, <1>8, <1>b, <4>1
      <3> QED BY <1>1, <1>2, <1>9, <1>b, <1>10, <2>1, <3>1, <3>2, OneMoreSeen
    <2>2. Sees(m, f.ctx, fs, bs, k) /\ IsContext(m, f.ctx) /\ (HasRet(f) => SeesParameters(m, fs, bs, k) /\ IsContext(m, f.ret))
      BY <1>1, <1>2 DEF FrameSees, RetInUse
    <2>3. LearnsOf(m, f.ctx, g, b, f.ctx.id)
      <3>1. C!Scope(f.ctx) \in {C!Unscoped, f.ctx.id}
        BY DEF C!Scope
      <3>2. \A x \in Names : x # name => C!VarOf(g, f.ctx, x) = C!VarOf(m, f.ctx, x)
        BY <2>2 DEF Binds
      <3>3. \A x \in Named : x # v => C!DeclOf(g, f.ctx, x) = C!DeclOf(m, f.ctx, x)
        BY <2>2 DEF Binds
      <3>4. C!VarOf(g, f.ctx, name) = v /\ C!DeclOf(g, f.ctx, v) = C!Decl(f.ctx, t)
        BY DEF Binds
      <3> QED BY <1>12, <1>b, <2>2, <3>1, <3>2, <3>3, <3>4 DEF LearnsOf
    <2>4. Sees(g, f.ctx, gs, cs, k)
      BY <2>1, <2>2, <2>3
    <2>5. ASSUME HasRet(f) PROVE SeesParameters(g, gs, cs, k)
      <3>1. C!Scope(f.ret) = C!Unscoped
        BY <1>1, <1>2, <2>5 DEF Shaped, C!Scope
      <3>2. \A x \in Names : x # name => C!VarOf(g, f.ret, x) = C!VarOf(m, f.ret, x)
        BY <2>2, <2>5 DEF Binds
      <3>3. \A x \in Named : x # v => C!DeclOf(g, f.ret, x) = C!DeclOf(m, f.ret, x)
        BY <2>2, <2>5 DEF Binds
      <3>4. C!VarOf(g, f.ret, name) = v /\ C!DeclOf(g, f.ret, v) = C!Decl(f.ret, t)
        BY <2>5 DEF Binds
      <3>5. LearnsOf(m, f.ret, g, b, f.ctx.id)
        BY <1>12, <1>b, <2>2, <2>5, <3>1, <3>2, <3>3, <3>4 DEF LearnsOf
      <3>6. Sees(m, f.ret, fs, bs, k)
        BY <1>1, <2>2, <2>5 DEF SeesParameters
      <3>7. Sees(g, f.ret, gs, cs, k)
        BY <2>1, <3>5, <3>6
      <3>8. ASSUME NEW i \in 1..(n + 1), cs[i].depth = k PROVE C!DeclOf(g, f.ret, cs[i].var).scope = C!Unscoped
        <4>1. CASE i \in 1..n
          <5>1. cs[i] = bs[i] /\ bs[i].var \in Named /\ bs[i].var # v
            BY <1>2, <1>8, <1>9, <4>1, BinderParts, SMTT(30)
          <5>2. C!DeclOf(m, f.ret, bs[i].var).scope = C!Unscoped
            BY <1>1, <1>10, <2>2, <2>5, <3>8, <4>1, <5>1 DEF SeesParameters
          <5> QED BY <3>3, <5>1, <5>2
        <4>2. CASE i = n + 1
          <5>1. C!DeclOf(g, f.ret, cs[i].var) = C!Decl(f.ret, t)
            BY <1>9, <1>b, <3>4, <4>2
          <5>2. f.ret \in Context /\ t \in DeclTypes
            BY <2>2, <2>5, NamesAssumption DEF IsContext, DeclTypes
          <5>3. PICK d, s : d = C!Decl(f.ret, t) /\ s = C!Scope(f.ret)
            OBVIOUS
          <5>4. d = [type |-> t, scope |-> s]
            BY <5>2, <5>3, DeclType
          <5>5. d.scope = s
            BY <5>4, SMTT(30)
          <5> QED BY <3>1, <5>1, <5>3, <5>5
        <4> QED BY <1>9, <4>1, <4>2
      <3>9. ASSUME NEW x \in Names, g.index[f.ctx.index].index[x] = 0
            PROVE  g.index[f.ret.index].index[x] = 0
        <4>1. x # name
          BY <3>9 DEF Binds
        <4>2. f.ctx.index \in DOMAIN m.index /\ f.ret.index \in DOMAIN m.index
          BY <2>2, <2>5 DEF IsContext
        <4>3. m.index[f.ctx.index].index[x] = 0
          BY <3>9, <4>1, <4>2, Zenon DEF Binds
        <4>4. m.index[f.ret.index].index[x] = 0
          BY <1>1, <2>2, <2>5, <4>3, Zenon DEF SeesParameters
        <4> QED BY <4>1, <4>2, <4>4 DEF Binds
      <3>10. gs[k].ctx = f.ctx /\ gs[k].ret = f.ret
        BY <1>4, <1>5
      <3> QED BY <1>10, <3>7, <3>8, <3>9, <3>10, Zenon DEF SeesParameters
    <2>6. gs[k].ctx = f.ctx /\ (RetInUse(gs[k]) => HasRet(f))
      BY <1>1, <1>2, <1>6, <1>7 DEF RetInUse
    <2> QED BY <2>4, <2>5, <2>6 DEF FrameSees
  <1>23. \A j \in DOMAIN gs : FrameSees(g, gs, cs, j)
    BY <1>2, <1>5, <1>21, <1>22
  <1> QED BY <1>1, <1>15, <1>16, <1>17, <1>18, <1>19, <1>20, <1>23 DEF Sound

-----------------------------------------------------------------------------
(* Every action preserves the invariant.                                   *)

LEMMA KeepsItself ==
  ASSUME NEW m \in Memory
  PROVE  Keeps(m, m) /\ NothingNew(m, m)
  <1>1. Len(m.index) <= Len(m.index) /\ Len(m.values) <= Len(m.values)
    BY MemoryParts
  <1> QED BY <1>1 DEF Keeps, NothingNew, SameMeaning

LEMMA CurrentIs ==
  ASSUME Inv
  PROVE  /\ memory \in Memory /\ frames \in Seq(AFrame) /\ binders \in Seq(ABinder)
         /\ Len(frames) \in Nat \ {0} /\ Len(frames) \in DOMAIN frames /\ DOMAIN frames = 1..Len(frames)
         /\ Len(binders) \in Nat /\ Top \in AFrame /\ Top = frames[Len(frames)]
         /\ Current = CurrentOf(frames[Len(frames)]) /\ IsContext(memory, Current)
         /\ IsContext(memory, Top.ctx) /\ (RetInUse(Top) => IsContext(memory, Top.ret))
         /\ Current.scoped \in BOOLEAN
         /\ Top.phase # "expr" => Len(frames) \in 2..Len(frames)
  <1>1. PICK k : k = Len(frames)
    OBVIOUS
  <1>2. /\ memory \in Memory /\ frames \in Seq(AFrame) /\ binders \in Seq(ABinder)
        /\ k \in Nat \ {0} /\ k \in DOMAIN frames /\ DOMAIN frames = 1..k /\ Len(binders) \in Nat
        /\ Shaped(frames)
        /\ IsContext(memory, frames[k].ctx) /\ (RetInUse(frames[k]) => IsContext(memory, frames[k].ret))
    BY <1>1, SoundParts DEF Inv
  <1>3. Top = frames[k] /\ Top \in AFrame
    BY <1>1, <1>2, FrameParts DEF Top, Last
  <1>4. Current = CurrentOf(frames[k])
    BY <1>3 DEF Current, CurrentOf
  <1>5. frames[k].phase = "ret" => RetInUse(frames[k])
    BY <1>2 DEF Shaped, RetInUse
  <1>6. IsContext(memory, Current)
    BY <1>2, <1>4, <1>5 DEF CurrentOf
  <1>7. Current.scoped \in BOOLEAN
    BY <1>6 DEF IsContext, Context
  <1>8. Top.phase # "expr" => k \in 2..k
    <2>1. Top.phase # "expr" => k # 1
      BY <1>2, <1>3 DEF Shaped
    <2> QED BY <1>2, <2>1
  <1> QED BY <1>1, <1>2, <1>3, <1>4, <1>6, <1>7, <1>8

LEMMA Entering ==
  ASSUME Inv, NEW g, NEW f, Keeps(memory, g), NothingNew(memory, g), Enters(memory, frames, binders, g, f),
         memory' = g, frames' = Append(frames, f), binders' = binders
  PROVE  Inv'
  BY Pushing DEF Inv

LEMMA Continuing ==
  ASSUME Inv, NEW g, NEW f, Keeps(memory, g), NothingNew(memory, g), GoesOn(memory, frames, binders, g, f),
         memory' = g, frames' = [frames EXCEPT ![Len(frames)] = f], binders' = binders
  PROVE  Inv'
  BY GoingOn DEF Inv

\* A frame of a construct that is entered now.
EnteredNow(f, kind, phase, c, d) ==
  /\ f \in AFrame /\ f.kind = kind /\ f.phase = phase /\ f.ctx = c /\ f.ret = d /\ f.known = 0
  /\ f.before = [index |-> Len(memory.index), values |-> Len(memory.values), binders |-> Len(binders)]

LEMMA NewFrame ==
  ASSUME Inv, NEW c \in Context, NEW d \in Context,
         NEW kind, kind \in {"function", "pi", "sigma", "because", "branch"},
         NEW phase, phase \in {"expr", "params", "body"}
  PROVE  EnteredNow(Frame(kind, phase, c, d), kind, phase, c, d)
  <1>1. Len(memory.index) \in Nat /\ Len(memory.values) \in Nat /\ Len(binders) \in Nat
    BY CurrentIs, MemoryParts
  <1> QED BY <1>1 DEF Frame, AFrame, EnteredNow

LEMMA SignatureBegins ==
  ASSUME Inv, NEW kind \in {"function", "pi"}, BeginSignature(kind)
  PROVE  Inv'
  <1>1. PICK m, c, own, ret, f :
          /\ m = memory /\ c = Current
          /\ own = C!Extended(m, c, TRUE) /\ ret = C!Extended(own.memory, own.context, FALSE)
          /\ f = Frame(kind, "params", own.context, ret.context)
    OBVIOUS
  <1>2. memory' = ret.memory /\ frames' = Append(frames, f) /\ binders' = binders
    BY <1>1 DEF BeginSignature, Enter, RetScoped
  <1>3. PICK a, d, g, e : a = own.memory /\ d = own.context /\ g = ret.memory /\ e = ret.context
    OBVIOUS
  <1>4. m \in Memory /\ IsContext(m, c) /\ c = CurrentOf(frames[Len(frames)]) /\ c \in Context
    BY <1>1, CurrentIs DEF IsContext
  <1>5. ExtendsTo(m, c, TRUE, a, d)
    BY <1>1, <1>3, <1>4, ExtendedMeans
  <1>6. a \in Memory /\ IsContext(a, d)
    BY <1>5 DEF ExtendsTo, Keeps
  <1>7. ExtendsTo(a, d, FALSE, g, e)
    BY <1>1, <1>3, <1>6, ExtendedMeans
  <1>8. Keeps(m, g) /\ NothingNew(m, g)
    BY <1>4, <1>5, <1>7, KeepsTrans, NothingNewTrans DEF ExtendsTo
  <1>9. IsContext(g, d) /\ IsContext(g, e) /\ SameMeaning(m, c, g, d) /\ SameMeaning(m, c, g, e)
    <2>1. SameMeaning(m, c, a, d) /\ SameMeaning(a, d, g, d) /\ SameMeaning(a, d, g, e)
          /\ IsContext(g, d) /\ IsContext(g, e)
      BY <1>5, <1>6, <1>7 DEF ExtendsTo, Keeps
    <2> QED BY <2>1, SameMeaningTrans
  <1>10. /\ Len(m.index) \in Nat /\ Len(m.values) \in Nat /\ c.id \in Nat
         /\ d.index = Len(m.index) + 1 /\ d.values = Len(m.values) + 1 /\ d.id = c.id + 1
         /\ e.index = Len(m.index) + 2 /\ e.values = Len(m.values) + 2 /\ e.id = c.id + 2 /\ e.scoped = FALSE
         /\ \A name \in Names : g.index[e.index].index[name] = 0
    <2>1. Len(m.index) \in Nat /\ Len(m.values) \in Nat /\ c.id \in Nat
      BY <1>4, MemoryParts DEF Context
    <2>2. d.index = Len(m.index) + 1 /\ d.values = Len(m.values) + 1 /\ d.id = c.id + 1
          /\ Len(a.index) = Len(m.index) + 1 /\ Len(a.values) = Len(m.values) + 1
      BY <1>5 DEF ExtendsTo
    <2>3. e.index = Len(a.index) + 1 /\ e.values = Len(a.values) + 1 /\ e.id = d.id + 1 /\ e.scoped = FALSE
          /\ \A name \in Names : g.index[e.index].index[name] = 0
      BY <1>7 DEF ExtendsTo
    <2> QED BY <2>1, <2>2, <2>3
  <1>11. /\ f \in AFrame /\ f.kind = kind /\ f.phase = "params" /\ f.ctx = d /\ f.ret = e /\ f.known = 0
         /\ f.before = [index |-> Len(m.index), values |-> Len(m.values), binders |-> Len(binders)]
    <2>1. d \in Context /\ e \in Context
      BY <1>9 DEF IsContext
    <2>2. EnteredNow(Frame(kind, "params", d, e), kind, "params", d, e)
      BY <2>1, NewFrame
    <2>3. f = Frame(kind, "params", d, e) /\ memory = m
      BY <1>1, <1>3
    <2> QED BY <2>2, <2>3 DEF EnteredNow
  <1>12. Enters(m, frames, binders, g, f)
    <2>1. Continues(m, c, g, d, Len(binders), 0)
      BY <1>9 DEF Continues, SameMeaning
    <2>2. After(f, d) /\ After(f, e)
      BY <1>10, <1>11, SMTT(30) DEF After
    <2>3. c.id < d.id /\ d.id < e.id /\ d.index # e.index /\ d.values # e.values /\ ~e.scoped
      BY <1>10, SMTT(30)
    <2> QED BY <1>4, <1>9, <1>10, <1>11, <2>1, <2>2, <2>3 DEF Enters
  <1> QED BY <1>1, <1>2, <1>3, <1>8, <1>12, Entering

\* A construct begins that makes one context and adds nothing to it.
LEMMA PlainBegins ==
  ASSUME Inv, NEW kind, NEW phase,
         \/ kind = "sigma" /\ phase = "params" /\ BeginSigma
         \/ kind = "because" /\ phase = "expr" /\ BeginBecauseOfType
  PROVE  Inv'
  <1>1. PICK m, c, own, f :
          /\ m = memory /\ c = Current
          /\ own = C!Extended(m, c, c.scoped) /\ f = Frame(kind, phase, own.context, own.context)
    OBVIOUS
  <1>2. memory' = own.memory /\ frames' = Append(frames, f) /\ binders' = binders
    BY <1>1 DEF BeginSigma, BeginBecauseOfType, Enter
  <1>3. PICK g, d : g = own.memory /\ d = own.context
    OBVIOUS
  <1>4. m \in Memory /\ IsContext(m, c) /\ c = CurrentOf(frames[Len(frames)]) /\ c \in Context /\ c.scoped \in BOOLEAN
    BY <1>1, CurrentIs DEF IsContext
  <1>5. ExtendsTo(m, c, c.scoped, g, d)
    BY <1>1, <1>3, <1>4, ExtendedMeans
  <1>6. /\ Keeps(m, g) /\ NothingNew(m, g) /\ IsContext(g, d) /\ SameMeaning(m, c, g, d) /\ d \in Context
        /\ d.index = Len(m.index) + 1 /\ d.values = Len(m.values) + 1 /\ d.id = c.id + 1
    BY <1>5 DEF ExtendsTo, IsContext
  <1>7. EnteredNow(f, kind, phase, d, d) /\ ~HasRet(f)
    <2>1. EnteredNow(Frame(kind, phase, d, d), kind, phase, d, d)
      BY <1>6, NewFrame
    <2>2. f = Frame(kind, phase, d, d)
      BY <1>1, <1>3
    <2> QED BY <2>1, <2>2 DEF EnteredNow, HasRet
  <1>8. Enters(m, frames, binders, g, f)
    <2>1. Continues(m, c, g, d, Len(binders), 0)
      BY <1>6 DEF Continues, SameMeaning
    <2>2. After(f, d) /\ c.id < d.id
      <3>1. Len(m.index) \in Nat /\ Len(m.values) \in Nat /\ c.id \in Nat
        BY <1>4, MemoryParts DEF Context
      <3>2. f.before.index = Len(m.index) /\ f.before.values = Len(m.values)
        BY <1>1, <1>7 DEF EnteredNow
      <3> QED BY <1>6, <3>1, <3>2 DEF After
    <2> QED BY <1>1, <1>4, <1>7, <2>1, <2>2, Zenon DEF Enters, EnteredNow
  <1> QED BY <1>1, <1>2, <1>3, <1>6, <1>8, Entering

\* What is declared has a type of its own.
LEMMA TypesAreDeclTypes == Types \subseteq DeclTypes /\ "cond" \in DeclTypes
  BY NamesAssumption DEF DeclTypes

LEMMA BecauseBegins ==
  ASSUME Inv, NEW t \in Types, BeginBecause(t)
  PROVE  Inv'
  <1>1. PICK m, c, own, f :
          /\ m = memory /\ c = Current
          /\ own = C!Extended(m, c, c.scoped) /\ f = Frame("because", "expr", own.context, own.context)
    OBVIOUS
  <1>2. PICK a, d, g : a = own.memory /\ d = own.context /\ g = C!UnnamedAdded(a, d, t)
    OBVIOUS
  <1>3. memory' = g /\ frames' = Append(frames, f) /\ binders' = binders /\ C!Unused(a) # {}
    BY <1>1, <1>2 DEF BeginBecause, Enter, CanAddUnnamed
  <1>4. m \in Memory /\ IsContext(m, c) /\ c = CurrentOf(frames[Len(frames)]) /\ c \in Context /\ c.scoped \in BOOLEAN
    BY <1>1, CurrentIs DEF IsContext
  <1>5. ExtendsTo(m, c, c.scoped, a, d)
    BY <1>1, <1>2, <1>4, ExtendedMeans
  <1>6. /\ Keeps(m, a) /\ NothingNew(m, a) /\ IsContext(a, d) /\ SameMeaning(m, c, a, d) /\ d \in Context /\ a \in Memory
        /\ d.index = Len(m.index) + 1 /\ d.values = Len(m.values) + 1 /\ d.id = c.id + 1
    BY <1>5 DEF ExtendsTo, IsContext, Keeps
  <1>7. AddsUnnamed(a, g)
    BY <1>2, <1>3, <1>6, TypesAreDeclTypes, UnnamedMeans
  <1>8. Keeps(m, g) /\ NothingNew(m, g) /\ IsContext(g, d) /\ SameMeaning(m, c, g, d)
    <2>1. Keeps(a, g) /\ NothingNew(a, g)
      BY <1>7 DEF AddsUnnamed
    <2>2. IsContext(g, d) /\ SameMeaning(a, d, g, d)
      BY <1>6, <2>1 DEF Keeps
    <2> QED BY <1>4, <1>6, <2>1, <2>2, KeepsTrans, NothingNewTrans, SameMeaningTrans
  <1>9. EnteredNow(f, "because", "expr", d, d) /\ ~HasRet(f)
    <2>1. EnteredNow(Frame("because", "expr", d, d), "because", "expr", d, d)
      BY <1>6, NewFrame
    <2>2. f = Frame("because", "expr", d, d)
      BY <1>1, <1>2
    <2> QED BY <2>1, <2>2 DEF EnteredNow, HasRet
  <1>10. Enters(m, frames, binders, g, f)
    <2>1. Continues(m, c, g, d, Len(binders), 0)
      BY <1>8 DEF Continues, SameMeaning
    <2>2. After(f, d) /\ c.id < d.id
      <3>1. Len(m.index) \in Nat /\ Len(m.values) \in Nat /\ c.id \in Nat
        BY <1>4, MemoryParts DEF Context
      <3>2. f.before.index = Len(m.index) /\ f.before.values = Len(m.values)
        BY <1>1, <1>9 DEF EnteredNow
      <3> QED BY <1>6, <3>1, <3>2 DEF After
    <2> QED BY <1>1, <1>4, <1>9, <2>1, <2>2, Zenon DEF Enters, EnteredNow
  <1> QED BY <1>1, <1>3, <1>8, <1>10, Entering

\* rewrite() and then add_unnamed(), of the condition that became known.
Learns(m, c, g, d) ==
  /\ Keeps(m, g) /\ NothingNew(m, g) /\ IsContext(g, d) /\ d.scoped = c.scoped /\ d.id = c.id
  /\ Len(m.index) < d.index /\ Len(m.values) < d.values
  /\ \A name \in Names : C!VarOf(g, d, name) = C!VarOf(m, c, name)
  /\ \A v \in Named : C!DeclOf(g, d, v) = C!RewrittenDecl(C!DeclOf(m, c, v))

LEMMA Learning ==
  ASSUME NEW m \in Memory, NEW c, IsContext(m, c), NEW new, new = C!Rewritten(m, c),
         NEW t \in DeclTypes, C!Unused(new.memory) # {}
  PROVE  Learns(m, c, C!UnnamedAdded(new.memory, new.context, t), new.context)
  <1>1. PICK a, d, g : a = new.memory /\ d = new.context /\ g = C!UnnamedAdded(a, d, t)
    OBVIOUS
  <1>2. RewrittenTo(m, c, a, d)
    BY <1>1, RewrittenMeans
  <1>3. /\ Keeps(m, a) /\ NothingNew(m, a) /\ IsContext(a, d) /\ d.scoped = c.scoped /\ d.id = c.id
        /\ Len(a.index) = Len(m.index) + 1 /\ Len(m.values) < Len(a.values)
        /\ d.index = Len(a.index) /\ d.values = Len(a.values) /\ a \in Memory
        /\ \A name \in Names : C!VarOf(a, d, name) = C!VarOf(m, c, name)
        /\ \A v \in Named : C!DeclOf(a, d, v) = C!RewrittenDecl(C!DeclOf(m, c, v))
    BY <1>2 DEF RewrittenTo, Keeps
  <1>4. AddsUnnamed(a, g)
    BY <1>1, <1>3, UnnamedMeans
  <1>5. Keeps(a, g) /\ NothingNew(a, g)
    BY <1>4 DEF AddsUnnamed
  <1>6. IsContext(g, d) /\ SameMeaning(a, d, g, d)
    BY <1>3, <1>5 DEF Keeps
  <1>7. Keeps(m, g) /\ NothingNew(m, g)
    BY <1>3, <1>5, KeepsTrans, NothingNewTrans
  <1>8. Len(m.index) < d.index /\ Len(m.values) < d.values
    BY <1>3, MemoryParts
  <1>9. \A name \in Names : C!VarOf(g, d, name) = C!VarOf(m, c, name)
    BY <1>3, <1>6 DEF SameMeaning
  <1>10. \A v \in Named : C!DeclOf(g, d, v) = C!RewrittenDecl(C!DeclOf(m, c, v))
    BY <1>3, <1>6 DEF SameMeaning
  <1> QED BY <1>1, <1>3, <1>6, <1>7, <1>8, <1>9, <1>10 DEF Learns

LEMMA BranchBegins ==
  ASSUME Inv, BeginBranch
  PROVE  Inv'
  <1>0. PICK m, c, own, new, o :
          /\ m = memory /\ c = Current
          /\ own = C!Extended(m, c, c.scoped) /\ new = C!Rewritten(own.memory, own.context)
          /\ o = Frame("branch", "body", new.context, new.context)
    OBVIOUS
  <1>1. PICK f : /\ m = memory /\ c = Current
                 /\ own = C!Extended(m, c, c.scoped) /\ new = C!Rewritten(own.memory, own.context)
                 /\ o = Frame("branch", "body", new.context, new.context)
                 /\ f = [o EXCEPT !.facts = 1, !.known = Len(binders)]
    BY <1>0
  <1>2. PICK a, d, b, e, g : /\ a = own.memory /\ d = own.context /\ b = new.memory /\ e = new.context
                             /\ g = C!UnnamedAdded(b, e, "cond")
    OBVIOUS
  <1>3. memory' = g /\ frames' = Append(frames, f) /\ binders' = binders /\ C!Unused(b) # {}
    BY <1>1, <1>2 DEF BeginBranch, Enter, CanAddUnnamed
  <1>4. m \in Memory /\ IsContext(m, c) /\ c = CurrentOf(frames[Len(frames)]) /\ c \in Context /\ c.scoped \in BOOLEAN
    BY <1>1, CurrentIs DEF IsContext
  <1>5. ExtendsTo(m, c, c.scoped, a, d)
    BY <1>1, <1>2, <1>4, ExtendedMeans, Zenon
  <1>6. /\ Keeps(m, a) /\ NothingNew(m, a) /\ IsContext(a, d) /\ SameMeaning(m, c, a, d) /\ d \in Context /\ a \in Memory
        /\ d.id = c.id + 1 /\ Len(a.index) = Len(m.index) + 1 /\ Len(a.values) = Len(m.values) + 1
    BY <1>5, SMTT(30) DEF ExtendsTo, IsContext, Keeps
  <1>7. Learns(a, d, g, e)
    BY <1>1, <1>2, <1>3, <1>6, TypesAreDeclTypes, Learning
  <1>8. Keeps(m, g) /\ NothingNew(m, g) /\ IsContext(g, e) /\ e \in Context /\ e.id = d.id
        /\ Len(a.index) < e.index /\ Len(a.values) < e.values
    BY <1>4, <1>6, <1>7, KeepsTrans, NothingNewTrans DEF Learns, IsContext
  <1>9. Continues(m, c, g, e, Len(binders), Len(binders))
    <2>1. \A name \in Names : C!VarOf(g, e, name) = C!VarOf(m, c, name)
      BY <1>6, <1>7 DEF Learns, SameMeaning
    <2>2. \A v \in Named : C!DeclOf(g, e, v) = C!RewrittenDecl(C!DeclOf(m, c, v))
      BY <1>6, <1>7 DEF Learns, SameMeaning
    <2> QED BY <1>8, <2>1, <2>2 DEF Continues
  <1>10. /\ f \in AFrame /\ f.kind = "branch" /\ f.phase = "body" /\ f.ctx = e /\ f.known = Len(binders)
         /\ f.before = [index |-> Len(m.index), values |-> Len(m.values), binders |-> Len(binders)]
    <2>1. EnteredNow(o, "branch", "body", e, e)
      <3>1. EnteredNow(Frame("branch", "body", e, e), "branch", "body", e, e)
        BY <1>8, NewFrame
      <3>2. o = Frame("branch", "body", e, e)
        BY <1>1, <1>2
      <3> QED BY <3>1, <3>2
    <2>2. Len(binders) \in Nat /\ 1 \in Nat
      BY CurrentIs, SMTT(30)
    <2>3. o \in AFrame /\ f = [o EXCEPT !.facts = 1, !.known = Len(binders)]
      BY <1>1, <2>1 DEF EnteredNow
    <2>4. f \in AFrame /\ f.kind = o.kind /\ f.phase = o.phase /\ f.ctx = o.ctx /\ f.before = o.before
          /\ f.known = Len(binders)
      BY <2>2, <2>3 DEF AFrame
    <2>5. o.before = [index |-> Len(memory.index), values |-> Len(memory.values), binders |-> Len(binders)]
          /\ o.kind = "branch" /\ o.phase = "body" /\ o.ctx = e
      BY <2>1 DEF EnteredNow
    <2>6. memory = m
      BY <1>1
    <2> QED BY <2>4, <2>5, <2>6
  <1>11. Enters(m, frames, binders, g, f)
    <2>1. After(f, e) /\ c.id < e.id
      <3>1. Len(m.index) \in Nat /\ Len(m.values) \in Nat /\ c.id \in Nat /\ e.index \in Nat /\ e.values \in Nat
        BY <1>4, <1>8, MemoryParts DEF Context
      <3>2. f.before.index = Len(m.index) /\ f.before.values = Len(m.values)
        BY <1>10
      <3>3. Len(m.index) < e.index /\ Len(m.values) < e.values
        BY <1>6, <1>8, <3>1
      <3> QED BY <1>6, <1>8, <3>1, <3>2, <3>3 DEF After
    <2> QED BY <1>1, <1>4, <1>9, <1>10, <2>1, Zenon DEF Enters, HasRet
  <1> QED BY <1>1, <1>3, <1>8, <1>11, Entering

\* The innermost frame after an action that gives it parameters.
LEMMA MoreParams ==
  ASSUME Inv, NEW gs, gs = [frames EXCEPT ![Len(frames)].params = @ + 1]
  PROVE  \E f \in AFrame : gs = [frames EXCEPT ![Len(frames)] = f] /\ f = [Top EXCEPT !.params = f.params]
  <1>1. PICK k, o, n : k = Len(frames) /\ o = frames[k] /\ n = o.params + 1
    OBVIOUS
  <1>2. o \in AFrame /\ n \in Nat /\ o = Top /\ k \in DOMAIN frames /\ frames \in Seq(AFrame)
    BY <1>1, CurrentIs, FrameParts
  <1>3. PICK f : f = [o EXCEPT !.params = n]
    OBVIOUS
  <1>4. f \in AFrame /\ f.params = n
    BY <1>2, <1>3 DEF AFrame
  <1>5. gs = [frames EXCEPT ![k] = f]
    BY <1>1, <1>2, <1>3
  <1> QED BY <1>1, <1>2, <1>3, <1>4, <1>5

LEMMA ParamAdded ==
  ASSUME Inv, NEW name \in Names, NEW t \in Types, AddParam(name, t)
  PROVE  Inv'
  <1>1. PICK f, v, a, g, cs :
          /\ f = Top /\ v = C!NewVar(memory, f.ctx, name) /\ a = C!Declared(memory, f.ctx, name, t)
          /\ g = (IF HasRet(f) THEN C!Declared(a, f.ret, name, t) ELSE a)
          /\ cs = Append(binders, [name |-> name, var |-> v, type |-> t, depth |-> Len(frames)])
    OBVIOUS
  <1>2. /\ memory' = g /\ frames' = [frames EXCEPT ![Len(frames)].params = @ + 1] /\ binders' = cs
        /\ f.phase = "params" /\ C!CanDeclare(memory, f.ctx, name) /\ C!HasShadow(memory, f.ctx, name)
    BY <1>1 DEF AddParam, InBoth, Binder
  <1>3. f = frames[Len(frames)]
    BY <1>1, CurrentIs
  <1>4. Fresh(memory, binders, name, v)
    BY <1>1, <1>2, <1>3, NewVarIsFresh DEF Inv
  <1>5. Binds(memory, f, name, v, t, g)
    <2>1. t \in DeclTypes
      BY TypesAreDeclTypes
    <2> QED BY <1>1, <1>2, <1>3, <1>4, <2>1, DeclaredInBoth DEF Inv
  <1>6. PICK o \in AFrame : frames' = [frames EXCEPT ![Len(frames)] = o] /\ o = [f EXCEPT !.params = o.params]
    BY <1>1, <1>2, MoreParams
  <1>7. BindsOne(frames, binders, f, name, v, t, o, frames', cs)
    BY <1>1, <1>2, <1>3, <1>6 DEF BindsOne
  <1>8. Sound(g, frames', cs)
    BY <1>4, <1>5, <1>7, Binding DEF Inv
  <1> QED BY <1>2, <1>8 DEF Inv

LEMMA UnnamedParamAdded ==
  ASSUME Inv, NEW t \in Types, AddUnnamedParam(t)
  PROVE  Inv'
  <1>1. PICK f, a, g : /\ f = Top /\ a = C!UnnamedAdded(memory, f.ctx, t)
                       /\ g = (IF HasRet(f) THEN C!UnnamedAdded(a, f.ret, t) ELSE a)
    OBVIOUS
  <1>2. /\ memory' = g /\ frames' = [frames EXCEPT ![Len(frames)].params = @ + 1] /\ binders' = binders
        /\ f.phase = "params" /\ C!Unused(memory) # {} /\ (HasRet(f) => C!Unused(a) # {})
    BY <1>1 DEF AddUnnamedParam, CanAddUnnamed
  <1>3. /\ memory \in Memory /\ f \in AFrame /\ f = frames[Len(frames)] /\ t \in DeclTypes
        /\ IsContext(memory, f.ctx) /\ (HasRet(f) => IsContext(memory, f.ret))
        /\ Len(frames) \in 2..Len(frames)
    BY <1>1, <1>2, CurrentIs, TypesAreDeclTypes DEF RetInUse
  <1>4. AddsUnnamed(memory, a)
    BY <1>1, <1>2, <1>3, UnnamedMeans
  <1>5. Keeps(memory, a) /\ NothingNew(memory, a) /\ a \in Memory /\ (HasRet(f) => IsContext(a, f.ret))
    BY <1>3, <1>4 DEF AddsUnnamed, Keeps
  <1>6. Keeps(memory, g) /\ NothingNew(memory, g)
    <2>1. CASE HasRet(f)
      <3>1. AddsUnnamed(a, g)
        BY <1>1, <1>2, <1>3, <1>5, <2>1, UnnamedMeans
      <3> QED BY <1>3, <1>5, <3>1, KeepsTrans, NothingNewTrans DEF AddsUnnamed
    <2>2. CASE ~HasRet(f)
      BY <1>1, <1>5, <2>2
    <2> QED BY <2>1, <2>2
  <1>7. PICK o \in AFrame : frames' = [frames EXCEPT ![Len(frames)] = o] /\ o = [f EXCEPT !.params = o.params]
    BY <1>1, <1>2, MoreParams
  <1>8. /\ o.ctx = f.ctx /\ o.ret = f.ret /\ o.kind = f.kind /\ o.phase = f.phase
        /\ o.known = f.known /\ o.before = f.before
    BY <1>3, <1>7 DEF AFrame
  <1>9. GoesOn(memory, frames, binders, g, o)
    <2>1. Len(frames) # 1
      BY <1>3
    <2>2. o.phase # "ret" /\ (RetInUse(o) => RetInUse(f))
      BY <1>2, <1>8 DEF RetInUse, HasRet
    <2> QED BY <1>3, <1>7, <1>8, <2>1, <2>2 DEF GoesOn
  <1> QED BY <1>2, <1>6, <1>7, <1>9, Continuing

\* The parts of a signature follow one another.
LEMMA NextPhase ==
  ASSUME Inv, NEW p \in {"ret", "body"}, HasRet(Top), Top.phase \in {"params", "ret"},
         UNCHANGED <<memory, binders>>, frames' = [frames EXCEPT ![Len(frames)].phase = p]
  PROVE  Inv'
  <1>1. PICK k, o, f : k = Len(frames) /\ o = frames[k] /\ f = [o EXCEPT !.phase = p]
    OBVIOUS
  <1>2. /\ o \in AFrame /\ o = Top /\ k \in DOMAIN frames /\ frames \in Seq(AFrame) /\ memory \in Memory
        /\ k \in 2..k
    BY <1>1, CurrentIs
  <1>3. /\ f \in AFrame /\ f.phase = p /\ f.ctx = o.ctx /\ f.ret = o.ret /\ f.kind = o.kind
        /\ f.known = o.known /\ f.before = o.before
    BY <1>1, <1>2 DEF AFrame
  <1>4. frames' = [frames EXCEPT ![k] = f]
    BY <1>1, <1>2
  <1>5. GoesOn(memory, frames, binders, memory, f)
    <2>1. HasRet(f) /\ RetInUse(o) /\ k # 1
      BY <1>2, <1>3 DEF HasRet, RetInUse
    <2> QED BY <1>1, <1>3, <2>1 DEF GoesOn
  <1>6. Keeps(memory, memory) /\ NothingNew(memory, memory)
    BY <1>2, KeepsItself
  <1> QED BY <1>1, <1>4, <1>5, <1>6, Continuing

LEMMA FactAdded ==
  ASSUME Inv, FactAfterIf
  PROVE  Inv'
  <1>1. PICK m, o, new : m = memory /\ o = Top /\ new = C!Rewritten(m, o.ctx)
    OBVIOUS
  <1>2. PICK a, d, g, k, n, x : /\ a = new.memory /\ d = new.context /\ g = C!UnnamedAdded(a, d, "cond")
                                /\ k = Len(frames) /\ n = Len(binders) /\ x = o.facts + 1
    OBVIOUS
  <1>3. /\ memory' = g /\ binders' = binders /\ C!Unused(a) # {} /\ o.phase = "body"
        /\ frames' = [frames EXCEPT ![k].ctx = d, ![k].facts = @ + 1, ![k].known = n]
    BY <1>1, <1>2 DEF FactAfterIf, CanAddUnnamed
  <1>4. /\ m \in Memory /\ o \in AFrame /\ IsContext(m, o.ctx) /\ k \in DOMAIN frames /\ o = frames[k]
        /\ frames \in Seq(AFrame) /\ k \in 2..k /\ n \in Nat
    BY <1>1, <1>2, <1>3, CurrentIs
  <1>5. Learns(m, o.ctx, g, d)
    BY <1>1, <1>2, <1>3, <1>4, TypesAreDeclTypes, Learning
  <1>6. d \in Context
    BY <1>5 DEF Learns, IsContext
  <1>7. PICK f : f = [o EXCEPT !.ctx = d, !.facts = x, !.known = n]
    OBVIOUS
  <1>8. /\ f \in AFrame /\ f.phase = o.phase /\ f.ctx = d /\ f.ret = o.ret /\ f.kind = o.kind
        /\ f.known = n /\ f.before = o.before
    <2>1. o.facts \in Nat /\ x \in Nat
      BY <1>2, <1>4, FrameParts
    <2> QED BY <1>4, <1>6, <1>7, <2>1 DEF AFrame
  <1>9. frames' = [frames EXCEPT ![k] = f]
    BY <1>2, <1>3, <1>4, <1>7
  <1>10. After(f, d)
    <2>1. o.before.index <= Len(m.index) /\ o.before.values <= Len(m.values)
      BY <1>1, <1>2, <1>4 DEF Inv, Sound, Placed
    <2>2. o.before.index \in Nat /\ o.before.values \in Nat /\ Len(m.index) \in Nat /\ Len(m.values) \in Nat
          /\ d.index \in Nat /\ d.values \in Nat
      BY <1>4, <1>6, FrameParts, MemoryParts DEF Context
    <2>3. Len(m.index) < d.index /\ Len(m.values) < d.values
      BY <1>5 DEF Learns
    <2> QED BY <1>8, <2>1, <2>2, <2>3 DEF After
  <1>11. Continues(m, o.ctx, g, d, n, n)
    BY <1>5 DEF Learns, Continues
  <1>12. GoesOn(m, frames, binders, g, f)
    <2>1. d.id = o.ctx.id /\ k # 1 /\ ~RetInUse(f) /\ f.phase # "ret"
      BY <1>3, <1>4, <1>5, <1>8 DEF Learns, RetInUse
    <2> QED BY <1>2, <1>4, <1>8, <1>10, <1>11, <2>1 DEF GoesOn
  <1>13. Keeps(m, g) /\ NothingNew(m, g)
    BY <1>5 DEF Learns
  <1> QED BY <1>1, <1>2, <1>3, <1>9, <1>12, <1>13, Continuing

LEMMA Left ==
  ASSUME Inv, Leave
  PROVE  Inv'
  <1>1. PICK g : g = memory'
    OBVIOUS
  <1>2. /\ Len(frames) > 1 /\ frames' = Front(frames)
        /\ g = [index |-> SubSeq(memory.index, 1, Top.before.index),
                values |-> SubSeq(memory.values, 1, Top.before.values)]
        /\ binders' = SubSeq(binders, 1, Top.before.binders)
    BY <1>1 DEF Leave
  <1>3. Top = frames[Len(frames)]
    BY CurrentIs
  <1>4. Forgets(memory, frames[Len(frames)].before, g)
    BY <1>2, <1>3 DEF Forgets
  <1>5. Sound(g, Front(frames), binders')
    BY <1>2, <1>3, <1>4, Leaving DEF Inv
  <1> QED BY <1>1, <1>2, <1>5 DEF Inv

\* There is nothing in the first context.
LEMMA StartSound == Init => Inv
  <1> SUFFICES ASSUME Init PROVE Inv
    OBVIOUS
  <1>1. PICK m, f, c, x, y : m = memory /\ f = frames[1] /\ c = C!EmptyContext /\ x = m.index /\ y = m.values
    OBVIOUS
  <1>2. /\ c = [scoped |-> TRUE, id |-> 0, index |-> 1, values |-> 1]
        /\ f = [kind |-> "entry", phase |-> "expr", ctx |-> c, ret |-> c, params |-> 0, facts |-> 0, known |-> 0,
                before |-> [index |-> 1, values |-> 1, binders |-> 0]]
        /\ frames = <<f>> /\ binders = <<>>
    BY <1>1 DEF Init, C!EmptyContext
  <1>3. m = [index |-> x, values |-> y] /\ x = <<LI!RootNode>> /\ y = <<LV!RootNode>>
    BY <1>1, SameIndex, SameValues DEF Init, C!EmptyMemory
  <1>4. /\ LI!WellFormed(x, Named) /\ Len(x) = 1 /\ DOMAIN x = {1}
        /\ \A k \in Names : \A none : LI!Value(x, 1, k, none) = none
    BY <1>3, LI!RootAlone
  <1>5. /\ LV!WellFormed(y, Decls) /\ Len(y) = 1 /\ DOMAIN y = {1}
        /\ \A k \in C!Vars : y[1].index[k] = 0
    BY <1>3, LV!RootAlone DEF LV!Absent
  <1>6. m \in Memory
    <2>1. x \in Seq(LI!NodeOf(Named)) /\ y \in Seq(LV!NodeOf(Decls))
      BY <1>4, <1>5 DEF LI!WellFormed, LV!WellFormed
    <2> QED BY <1>3, <1>4, <1>5, <2>1 DEF Memory
  <1>7. c \in Context /\ IsContext(m, c)
    BY <1>1, <1>2, <1>4, <1>5 DEF Context, IsContext
  <1>8. /\ frames \in Seq(AFrame) /\ frames # <<>> /\ Len(frames) = 1 /\ DOMAIN frames = {1} /\ frames[1] = f
        /\ binders \in Seq(ABinder) /\ Len(binders) = 0 /\ DOMAIN binders = {}
    <2>1. f \in AFrame
      BY <1>2, <1>7 DEF AFrame
    <2> QED BY <1>2, <2>1
  <1>9. 2..1 = {} /\ 1..0 = {}
    OBVIOUS
  <1>10. Shaped(frames)
    BY <1>2, <1>8 DEF Shaped, HasRet
  <1>11. Placed(m, frames)
    BY <1>8, <1>9 DEF Placed
  <1>12. Seen(frames, binders, 1) = 0
    BY <1>8 DEF Seen
  <1>13. Listed(frames, binders)
    BY <1>2, <1>8, <1>9, <1>12 DEF Listed
  <1>14. Distinct(binders)
    BY <1>8 DEF Distinct
  <1>15. Registered(m, frames, binders)
    <2>1. \A n \in DOMAIN m.values, v \in Named : ~Holds(m, n, v)
      BY <1>1, <1>5, NamedAreVars DEF Holds
    <2> QED BY <2>1 DEF Registered
  <1>16. FrameSees(m, frames, binders, 1)
    <2>1. \A name \in Names : C!VarOf(m, c, name) = C!NoVar
      BY <1>1, <1>2, <1>4, LookedUp
    <2>2. Sees(m, c, frames, binders, 1)
      BY <1>7, <1>9, <1>12, <2>1 DEF Sees, NameSeen
    <2>3. frames[1].ctx = c /\ ~RetInUse(frames[1])
      BY <1>2, <1>8 DEF RetInUse
    <2> QED BY <2>2, <2>3 DEF FrameSees
  <1>17. Typed(m, frames, binders) /\ \A k \in DOMAIN frames : FrameSees(m, frames, binders, k)
    BY <1>6, <1>8, <1>16 DEF Typed
  <1> QED BY <1>1, <1>10, <1>11, <1>13, <1>14, <1>15, <1>17 DEF Inv, Sound

LEMMA StepSound == Inv /\ [Next]_vars => Inv'
  <1> SUFFICES ASSUME Inv, [Next]_vars PROVE Inv'
    OBVIOUS
  <1>1. ASSUME NEW kind \in {"function", "pi"}, BeginSignature(kind) PROVE Inv'
    BY <1>1, SignatureBegins
  <1>2. CASE BeginSigma
    BY <1>2, PlainBegins
  <1>3. ASSUME NEW name \in Names, NEW t \in Types, AddParam(name, t) PROVE Inv'
    BY <1>3, ParamAdded
  <1>4. ASSUME NEW t \in Types, AddUnnamedParam(t) PROVE Inv'
    BY <1>4, UnnamedParamAdded
  <1>5. CASE EndParams
    BY <1>5, NextPhase DEF EndParams
  <1>6. CASE BeginBody
    BY <1>6, NextPhase DEF BeginBody, HasRet
  <1>7. ASSUME NEW t \in Types, BeginBecause(t) PROVE Inv'
    BY <1>7, BecauseBegins
  <1>8. CASE BeginBecauseOfType
    BY <1>8, PlainBegins
  <1>9. CASE BeginBranch
    BY <1>9, BranchBegins
  <1>10. CASE FactAfterIf
    BY <1>10, FactAdded
  <1>11. CASE Leave
    BY <1>11, Left
  <1>12. CASE UNCHANGED vars
    BY <1>12 DEF vars, Inv
  <1> QED BY <1>1, <1>2, <1>3, <1>4, <1>5, <1>6, <1>7, <1>8, <1>9, <1>10, <1>11, <1>12 DEF Next

\* Whatever the names, the types and the nesting, the contexts of all constructs
\* that are being checked keep what their own levels and the list of binders say:
\* the nodes of ctx.cpp's two scope_maps are the constructs' own, a variable has
\* entries only where it can be seen, and shadow identifiers grow.
THEOREM ContextsStaySound == Spec => []Inv
  <1>1. Init => Inv
    BY StartSound
  <1>2. Inv /\ [Next]_vars => Inv'
    BY StepSound
  <1> QED BY <1>1, <1>2, PTL DEF Spec

-----------------------------------------------------------------------------
(* What the invariant is for.                                              *)

\* What construct k can see is what a reader finds around it.
LEMMA AroundIs ==
  ASSUME Inv, NEW k \in DOMAIN frames
  PROVE  Around(k) = 1..Seen(frames, binders, k) /\ Seen(frames, binders, k) \in 0..Len(binders)
  <1>1. PICK n : n = Seen(frames, binders, k)
    OBVIOUS
  <1>2. /\ n \in 0..Len(binders) /\ Len(binders) \in Nat /\ DOMAIN binders = 1..Len(binders)
        /\ \A i \in DOMAIN binders : binders[i].depth <= k <=> i <= n
    BY <1>1, SoundParts, SeenParts DEF Inv
  <1>3. Around(k) = {i \in DOMAIN binders : i <= n}
    BY <1>2 DEF Around
  <1>4. {i \in DOMAIN binders : i <= n} = 1..n
    BY <1>2
  <1> QED BY <1>1, <1>2, <1>3, <1>4

LEMMA InnermostIs ==
  ASSUME Inv, NEW k \in DOMAIN frames, NEW name \in Names, NEW x,
         NameSeen(x, binders, Seen(frames, binders, k), name)
  PROVE  x = Innermost(k, name)
  <1>1. PICK n, named : n = Seen(frames, binders, k) /\ named = {i \in Around(k) : binders[i].name = name}
    OBVIOUS
  <1>2. Around(k) = 1..n /\ n \in Nat
    <2>1. Len(binders) \in Nat
      BY SoundParts DEF Inv
    <2> QED BY <1>1, <2>1, AroundIs
  <1>3. named = {i \in 1..n : binders[i].name = name}
    BY <1>1, <1>2
  <1>4. Innermost(k, name) = IF named = {} THEN C!NoVar ELSE binders[Max(named)].var
    BY <1>1 DEF Innermost
  <1>5. CASE x = C!NoVar /\ \A i \in 1..n : binders[i].name # name
    BY <1>3, <1>4, <1>5
  <1>6. CASE \E i \in 1..n : binders[i].name = name /\ binders[i].var = x
                             /\ \A j \in (i + 1)..n : binders[j].name # name
    <2>1. PICK i \in 1..n : binders[i].name = name /\ binders[i].var = x
                            /\ \A j \in (i + 1)..n : binders[j].name # name
      BY <1>6
    <2>2. i \in named /\ named # {} /\ named \in SUBSET (0..n)
      BY <1>3, <2>1
    <2>3. Max(named) \in named /\ \A y \in named : y <= Max(named)
      BY <1>2, <2>2, LI!GreatestUpTo DEF Max, LI!Max
    <2>4. PICK z : z = Max(named)
      OBVIOUS
    <2>5. z \in 1..n /\ binders[z].name = name /\ i <= z
      BY <1>3, <2>2, <2>3, <2>4
    <2>6. z = i
      <3>1. ~(z \in (i + 1)..n)
        BY <2>1, <2>5
      <3> QED BY <1>2, <2>5, <3>1
    <2> QED BY <1>4, <2>1, <2>2, <2>4, <2>6
  <1> QED BY <1>1, <1>5, <1>6 DEF NameSeen

LEMMA SeesItRightly ==
  ASSUME Inv, NEW k \in DOMAIN frames, NEW c, Sees(memory, c, frames, binders, k)
  PROVE  SeesRightly(c, k)
  <1>1. ASSUME NEW name \in Names PROVE C!VarOf(memory, c, name) = Innermost(k, name)
    BY InnermostIs DEF Sees
  <1>2. ASSUME NEW i \in Around(k)
        PROVE  C!DeclOf(memory, c, binders[i].var) # C!NoDecl
               /\ C!DeclOf(memory, c, binders[i].var).type = TypeFrom(k, i)
    <2>1. PICK d : d = C!DeclOf(memory, c, binders[i].var)
      OBVIOUS
    <2>2. DeclSeen(d, frames, binders, k, i)
      BY <2>1, AroundIs DEF Sees
    <2>3. d \in Decls /\ d.type = TypeFrom(k, i)
      BY <2>2 DEF DeclSeen, TypeSeen, TypeFrom
    <2> QED BY <2>1, <2>3, NamedAreVars
  <1> QED BY <1>1, <1>2 DEF SeesRightly

\* Wherever the checker is, in every construct around it names stand for what is
\* bound innermost in the source, and every variable that can be seen, hidden or
\* not, has its own type still, rewritten by what is known there: scope_map's
\* levels, NewVar's shadow identifiers and rewrite() never mix them up.
THEOREM NamesFollowSource == Spec => []ContextsFollowSource
  <1>1. Inv => ContextsFollowSource
    <2> SUFFICES ASSUME Inv PROVE ContextsFollowSource
      OBVIOUS
    <2>1. /\ binders \in Seq(ABinder) /\ Len(binders) \in Nat /\ DOMAIN binders = 1..Len(binders)
          /\ Distinct(binders) /\ \A k \in DOMAIN frames : FrameSees(memory, frames, binders, k)
      BY SoundParts DEF Inv
    <2>2. ASSUME NEW i \in DOMAIN binders, NEW j \in DOMAIN binders, binders[i].var = binders[j].var
          PROVE  ~(i < j)
      <3>1. SUFFICES ASSUME i < j PROVE FALSE
        OBVIOUS
      <3>2. binders[i].name = binders[j].name
        BY <2>1, <2>2 DEF Distinct
      <3>3. binders[i].var.shadow < binders[j].var.shadow
        BY <2>1, <3>1, <3>2 DEF Distinct
      <3>4. PICK s : s = binders[i].var.shadow
        OBVIOUS
      <3>5. s \in Nat /\ s < s
        BY <2>1, <2>2, <3>3, <3>4, BinderParts
      <3> QED BY <3>5
    <2>3. ASSUME NEW i \in DOMAIN binders, NEW j \in DOMAIN binders, binders[i].var = binders[j].var
          PROVE  i = j
      <3>1. ~(i < j) /\ ~(j < i)
        BY <2>2, <2>3
      <3> QED BY <2>1, <3>1
    <2>4. ASSUME NEW k \in DOMAIN frames PROVE SeesRightly(frames[k].ctx, k)
      BY <2>1, SeesItRightly DEF FrameSees
    <2> QED BY <2>3, <2>4 DEF ContextsFollowSource
  <1> QED BY <1>1, ContextsStaySound, PTL

\* While the parameters and the return type of a function or of a pi-type are
\* checked, the context apart that check_pi_type keeps for the return type has
\* the very variables that its parameter list binds, and all that is around.
THEOREM ReturnTypesSeeParameters == Spec => []ReturnTypeSeesParameters
  <1>1. Inv => ReturnTypeSeesParameters
    <2> SUFFICES ASSUME Inv PROVE ReturnTypeSeesParameters
      OBVIOUS
    <2>1. \A k \in DOMAIN frames : FrameSees(memory, frames, binders, k)
      BY SoundParts DEF Inv
    <2>2. ASSUME NEW k \in DOMAIN frames, RetInUse(frames[k]) PROVE SeesRightly(frames[k].ret, k)
      BY <2>1, <2>2, SeesItRightly DEF FrameSees, SeesParameters
    <2> QED BY <2>2 DEF ReturnTypeSeesParameters, RetInUse
  <1> QED BY <1>1, ContextsStaySound, PTL

\* How long something lives, as scopes tell it.
LEMMA ScopesOf ==
  ASSUME Inv
  PROVE  \A i \in DOMAIN binders :
           /\ binders[i].depth \in DOMAIN frames
           /\ C!DeclOf(memory, Current, binders[i].var).scope \in {C!Unscoped, frames[binders[i].depth].ctx.id}
           /\ Top.phase = "ret" /\ binders[i].depth = Len(frames) =>
                C!DeclOf(memory, Current, binders[i].var).scope = C!Unscoped
  <1>1. PICK k, c, n : k = Len(frames) /\ c = Current /\ n = Len(binders)
    OBVIOUS
  <1>2. /\ k \in DOMAIN frames /\ DOMAIN frames = 1..k /\ k \in Nat \ {0} /\ DOMAIN binders = 1..n /\ n \in Nat
        /\ Shaped(frames) /\ Listed(frames, binders) /\ FrameSees(memory, frames, binders, k)
        /\ Seen(frames, binders, k) = n
    BY <1>1, SoundParts DEF Inv, Seen
  <1>3. Top = frames[k] /\ c = CurrentOf(frames[k])
    BY <1>1, CurrentIs
  <1>4. Sees(memory, c, frames, binders, k)
    BY <1>2, <1>3 DEF FrameSees, SeesParameters, CurrentOf, RetInUse, Shaped
  <1>5. ASSUME NEW i \in DOMAIN binders
        PROVE  /\ binders[i].depth \in DOMAIN frames
               /\ C!DeclOf(memory, c, binders[i].var).scope \in {C!Unscoped, frames[binders[i].depth].ctx.id}
               /\ Top.phase = "ret" /\ binders[i].depth = k =>
                    C!DeclOf(memory, c, binders[i].var).scope = C!Unscoped
    <2>1. binders[i].depth \in DOMAIN frames
      <3>1. binders[i].depth \in 2..k
        BY <1>1, <1>2 DEF Listed
      <3> QED BY <1>2, <3>1
    <2>2. C!DeclOf(memory, c, binders[i].var).scope \in {C!Unscoped, frames[binders[i].depth].ctx.id}
      BY <1>2, <1>4 DEF Sees, DeclSeen
    <2>3. ASSUME Top.phase = "ret", binders[i].depth = k
          PROVE  C!DeclOf(memory, c, binders[i].var).scope = C!Unscoped
      <3>1. c = frames[k].ret /\ SeesParameters(memory, frames, binders, k)
        BY <1>2, <1>3, <2>3 DEF CurrentOf, FrameSees, RetInUse, Shaped
      <3> QED BY <1>2, <2>3, <3>1 DEF SeesParameters
    <2> QED BY <2>1, <2>2, <2>3
  <1> QED BY <1>1, <1>5

\* No scope of what an expression is about is greater than max_scope of it.
LEMMA MaxScopeBounds ==
  ASSUME NEW m, NEW c, NEW e, NEW b \in Nat,
         \A v \in e.vars : C!DeclOf(m, c, v).scope \in 0..b, e.calls => c.id \in 0..b
  PROVE  /\ \A v \in e.vars : C!DeclOf(m, c, v).scope <= C!MaxScope(m, c, e)
         /\ e.calls => c.id <= C!MaxScope(m, c, e)
         /\ C!MaxScope(m, c, e) \in Nat
  <1>1. PICK s : s = {0} \union {C!DeclOf(m, c, v).scope : v \in e.vars} \union (IF e.calls THEN {c.id} ELSE {})
    OBVIOUS
  <1>2. s \in SUBSET (0..b) /\ s # {}
    BY <1>1
  <1>3. Max(s) \in s /\ \A y \in s : y <= Max(s)
    BY <1>2, LI!GreatestUpTo DEF Max, LI!Max
  <1>4. C!MaxScope(m, c, e) = Max(s)
    BY <1>1 DEF C!MaxScope, C!Max, Max
  <1>5. \A v \in e.vars : C!DeclOf(m, c, v).scope \in s
    BY <1>1
  <1>6. e.calls => c.id \in s
    BY <1>1
  <1>7. Max(s) \in Nat
    <2>1. s \subseteq Nat
      BY <1>2
    <2> QED BY <1>3, <2>1
  <1> QED BY <1>3, <1>4, <1>5, <1>6, <1>7

\* check_expr takes an address only where it is gone before what it refers to,
\* and never that of a function's own parameters in its return type: scopeof and
\* max_scope compare identifiers that grow with the nesting of constructs.
THEOREM AddressesDoNotOutlive == Spec => []NoAddressOutlives
  <1>1. Inv => NoAddressOutlives
    <2> SUFFICES ASSUME Inv, NEW i \in DOMAIN binders, NEW e \in Expressions,
                        C!AddressFits(memory, Current, e, binders[i].var)
                 PROVE  /\ \A depth \in LivesUntil(e) : depth <= binders[i].depth
                        /\ Top.phase = "ret" => binders[i].depth < Len(frames)
      BY DEF NoAddressOutlives
    <2>1. PICK k, c, p, b : /\ k = Len(frames) /\ c = Current /\ p = binders[i].depth
                            /\ b = frames[k].ctx.id
      OBVIOUS
    <2>2. /\ k \in DOMAIN frames /\ DOMAIN frames = 1..k /\ k \in Nat \ {0}
          /\ frames \in Seq(AFrame) /\ Shaped(frames)
          /\ \A j \in DOMAIN frames : frames[j].ctx.id \in Nat
      BY <2>1, SoundParts, FrameParts DEF Inv
    <2>3. /\ p \in 1..k
          /\ C!DeclOf(memory, c, binders[i].var).scope = frames[p].ctx.id
          /\ Top.phase = "ret" => p # k
      BY <2>1, <2>2, ScopesOf DEF C!AddressFits, C!ScopeOf
    <2>4. C!MaxScope(memory, c, e) <= frames[p].ctx.id
      BY <2>1, <2>3 DEF C!AddressFits, C!ScopeOf
    <2>5. \A j, l \in DOMAIN frames : j < l => frames[j].ctx.id < frames[l].ctx.id
      BY <2>2 DEF Shaped
    <2>6. ASSUME NEW j \in 1..k, frames[j].ctx.id <= frames[p].ctx.id PROVE j <= p
      <3>1. SUFFICES ASSUME p < j PROVE FALSE
        BY <2>2, <2>3
      <3>2. frames[p].ctx.id < frames[j].ctx.id
        BY <2>2, <2>3, <2>5, <3>1
      <3>3. frames[p].ctx.id \in Nat /\ frames[j].ctx.id \in Nat
        BY <2>2, <2>3
      <3> QED BY <2>6, <3>2, <3>3
    <2>7. ASSUME NEW j \in 1..k PROVE frames[j].ctx.id \in 0..b
      <3>1. frames[j].ctx.id \in Nat /\ b \in Nat
        BY <2>1, <2>2
      <3>2. j = k \/ frames[j].ctx.id < b
        BY <2>1, <2>2, <2>5
      <3> QED BY <2>1, <3>1, <3>2
    <2>8. \A v \in e.vars : \E j \in DOMAIN binders : binders[j].var = v
      BY DEF Expressions
    <2>9. ASSUME NEW j \in DOMAIN binders, binders[j].var \in e.vars
          PROVE  binders[j].depth \in 1..k
                 /\ C!DeclOf(memory, c, binders[j].var).scope = frames[binders[j].depth].ctx.id
      <3>1. C!DeclOf(memory, c, binders[j].var).scope # C!Unscoped
        BY <2>1, <2>9 DEF C!AddressFits, C!HasScope
      <3> QED BY <2>1, <2>2, <3>1, ScopesOf
    <2>10. e.calls => Top.phase # "ret" /\ c.id = b
      <3>1. e.calls => c.scoped
        BY <2>1 DEF C!AddressFits, C!HasScope
      <3>2. Top = frames[k] /\ c = CurrentOf(frames[k])
        BY <2>1, CurrentIs
      <3>3. Top.phase = "ret" => ~c.scoped
        BY <2>2, <3>2 DEF Shaped, CurrentOf
      <3> QED BY <2>1, <3>1, <3>2, <3>3 DEF CurrentOf
    <2>11. PICK x : x = C!MaxScope(memory, c, e)
      OBVIOUS
    <2>12. /\ \A v \in e.vars : C!DeclOf(memory, c, v).scope <= x
           /\ e.calls => c.id <= x
           /\ x \in Nat
      <3>1. ASSUME NEW v \in e.vars PROVE C!DeclOf(memory, c, v).scope \in 0..b
        BY <2>7, <2>8, <2>9
      <3>2. e.calls => c.id \in 0..b
        BY <2>1, <2>2, <2>7, <2>10
      <3>3. b \in Nat
        BY <2>1, <2>2
      <3> QED BY <2>11, <3>1, <3>2, <3>3, MaxScopeBounds
    <2>13. ASSUME NEW j \in 1..k, frames[j].ctx.id <= x PROVE j <= p
      <3>1. frames[j].ctx.id \in Nat /\ frames[p].ctx.id \in Nat /\ x <= frames[p].ctx.id
        BY <2>2, <2>3, <2>4, <2>11
      <3>2. frames[j].ctx.id <= frames[p].ctx.id
        BY <2>12, <2>13, <3>1
      <3> QED BY <2>6, <3>2
    <2>14. ASSUME NEW d \in LivesUntil(e) PROVE d <= p
      <3>1. CASE \E j \in DOMAIN binders : binders[j].var \in e.vars /\ d = binders[j].depth
        BY <2>9, <2>12, <2>13, <3>1
      <3>2. CASE e.calls /\ d = k
        <4>1. k \in 1..k
          BY <2>2
        <4> QED BY <2>1, <2>10, <2>12, <2>13, <3>2, <4>1
      <3> QED BY <2>1, <3>1, <3>2 DEF LivesUntil
    <2>15. Top.phase = "ret" => p < k
      BY <2>2, <2>3
    <2> QED BY <2>1, <2>14, <2>15
  <1> QED BY <1>1, ContextsStaySound, PTL
=============================================================================
