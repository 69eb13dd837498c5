---------------------------- MODULE ModuleProofs ----------------------------
(***************************************************************************)
(* What ModuleRules says of the module checker holds for every prelude and *)
(* every set of entries, however many a module has and however many        *)
(* modules are checked.                                                    *)
(***************************************************************************)
EXTENDS ModuleRules, Integers, FiniteSetTheorems, TLAPS

L == INSTANCE HeapLemmas WITH Keys <- Globals

-----------------------------------------------------------------------------
(* The inductive invariant.                                                *)

Symbols ==
  {SymbolOf(e) : e \in Entries} \union {Symbol("decl", e.sig, FALSE) : e \in Entries}
    \union (UNION {{Definition(e, n) : n \in Nat} : e \in Entries})
    \union {IncompleteType} \union {Prelude[i].def : i \in DOMAIN Prelude}

Heap == {h \in Seq(L!NodeOf(Symbols)) : L!WellFormed(h, Symbols)}

\* The base environment has what the prelude has.
HasPrelude(h, n) ==
  /\ \A i \in DOMAIN Prelude : T!Lookup(h, n, Prelude[i].global) = Prelude[i].def
  /\ \A g \in Globals \ PreludeNames : n = BaseEnv => T!Lookup(h, n, g) = T!Undefined

Environments(h) ==
  /\ h \in Heap /\ Len(h) >= Env /\ h[BaseEnv].outer = <<>>
  /\ HasPrelude(h, BaseEnv) /\ HasPrelude(h, Env)

\* An entry and what its name stands for.
Agree(e, s) ==
  /\ s.sig = e.sig
  /\ \/ e.kind \in {"typedef", "struct"} /\ s.kind = "type"
     \/ e.kind \in {"axiom", "extern"} /\ s.kind = e.kind
     \/ e.kind = "decl" /\ s.kind \in Functions
     \/ e.kind = "def" /\ s.kind = "def"

\* The environment of the body of entry j, whose definition is s, has names
\* that were there before, and the function as a declaration.
BodySees(j, s) ==
  /\ s.env \in DOMAIN heap \ {BaseEnv, Env}
  /\ \A g \in Globals : T!Lookup(heap, s.env, g) # T!Undefined =>
       \/ g \in PreludeNames
       \/ Prior(j, g) # {}
       \/ g = entries[j].name /\ T!Lookup(heap, s.env, g).kind = "decl"

\* Name g stands for s after m entries.
Explained(m, g, s) ==
  /\ s = T!Undefined => \A j \in 1..m : entries[j].name # g
  /\ s # T!Undefined => \E j \in 1..m : entries[j].name = g
  /\ \A j \in 1..m : entries[j].name = g => Agree(entries[j], s)
  /\ s.kind = "def" =>
       \E j \in 1..m : entries[j].name = g /\ entries[j].kind = "def" /\ BodySees(j, s)
  /\ s.kind = "decl" /\ ~s.builtin =>
       \E j \in 1..m : entries[j].name = g /\ entries[j].kind = "decl" /\ ~entries[j].builtin

Good(i) ==
  NameMayBeUsed(i) /\ TypesAreKnown(i) /\ FieldsAreComplete(i) /\ BodyIsKnown(i) /\ CallableFromC(i)

\* The environment and the declarations are those of the first m entries.
Known(m) ==
  /\ \A i \in 1..m : Good(i)
  /\ \A g \in Globals \ PreludeNames : Explained(m, g, T!Lookup(heap, Env, g))
  /\ decls = {entries[i].name : i \in {i \in 1..m : entries[i].kind = "decl" /\ ~entries[i].builtin}}

Judged ==
  \/ status = "open" /\ Known(Len(entries))
  \/ status = "accepted" /\ Known(Len(entries)) /\ DeclaredIsDefined
  \/ status = "rejected" /\ Known(Len(entries)) /\ ~DeclaredIsDefined
  \/ status = "rejected" /\ entries # <<>> /\ Known(Len(entries) - 1) /\ ~Good(Len(entries))

Inv == Environments(heap) /\ entries \in Seq(Entries) /\ Judged

-----------------------------------------------------------------------------
(* Environments as nodes of a heap.                                        *)

LEMMA SameOperators ==
  ASSUME NEW h, NEW n, NEW g
  PROVE  /\ T!H!ChildNode(h, n) = L!ChildNode(h, n) /\ T!H!RootNode = L!RootNode
         /\ T!H!Find(h, n, g) = L!Find(h, n, g) /\ T!H!NoCell = L!NoCell
         /\ T!Lookup(h, n, g) = L!Value(h, n, g, T!Undefined)
         /\ \A d : T!H!Emplaced(h, n, g, d) = L!Emplaced(h, n, g, d)
         /\ \A d : T!H!Written(h, n, d) = L!Written(h, n, d)
  <1>1. /\ T!H!ChildNode(h, n) = L!ChildNode(h, n) /\ T!H!RootNode = L!RootNode
        /\ T!H!NoCell = L!NoCell
    BY DEF T!H!Levels, L!Levels, T!H!ChildNode, L!ChildNode, T!H!EmptyNode, L!EmptyNode,
           T!H!RootNode, L!RootNode, T!H!NoCell, L!NoCell, T!H!Absent, L!Absent
  <1>2. T!H!Find(h, n, g) = L!Find(h, n, g)
    BY DEF T!H!Find, L!Find, T!H!HitLevels, L!HitLevels, T!H!Levels, L!Levels,
           T!H!PlaceAt, L!PlaceAt, T!H!Absent, L!Absent, T!H!NoCell, L!NoCell
  <1>3. T!Lookup(h, n, g) = L!Value(h, n, g, T!Undefined)
    BY <1>1, <1>2 DEF T!Lookup, L!Value, L!At
  <1>4. \A d : T!H!Emplaced(h, n, g, d) = L!Emplaced(h, n, g, d)
    BY DEF T!H!Emplaced, L!Emplaced, T!H!Absent, L!Absent
  <1>5. \A d : T!H!Written(h, n, d) = L!Written(h, n, d)
    BY DEF T!H!Written, L!Written
  <1> QED BY <1>1, <1>2, <1>3, <1>4, <1>5

LEMMA PreludeFacts ==
  ASSUME NEW i \in DOMAIN Prelude
  PROVE  Prelude[i].global \in PreludeNames /\ Prelude[i].global \in Globals /\ Prelude[i].def \in Symbols
  <1> DEFINE U == [global : Globals, def : {Prelude[j].def : j \in DOMAIN Prelude}]
  <1>1. Prelude[i] \in U
    <2>1. Prelude \in Seq(U)
      BY PreludeAssumption
    <2> HIDE DEF U
    <2> QED BY <2>1
  <1>2. Prelude[i].global \in Globals
    BY <1>1
  <1> QED BY <1>2 DEF PreludeNames, Symbols

LEMMA SymbolKinds ==
  ASSUME NEW s \in Symbols
  PROVE  /\ s.kind \in {"incomplete", "type", "axiom", "extern", "decl", "def"}
         /\ s # T!Undefined
  <1>1. s.kind \in {"incomplete", "type", "axiom", "extern", "decl", "def"}
    <2>1. ASSUME NEW e \in Entries, s = SymbolOf(e) PROVE s.kind \in {"type", "axiom", "extern", "decl", "def"}
      <3>1. e.kind \in {"typedef", "struct", "axiom", "extern", "decl", "def"}
        BY EntriesAssumption
      <3>2. s.kind = IF e.kind \in {"typedef", "struct"} THEN "type" ELSE e.kind
        BY <2>1 DEF SymbolOf, Symbol
      <3> QED BY <3>1, <3>2
    <2>2. ASSUME NEW e \in Entries, s = Symbol("decl", e.sig, FALSE) PROVE s.kind = "decl"
      BY <2>2 DEF Symbol
    <2>3. ASSUME NEW e \in Entries, NEW n \in Nat, s = Definition(e, n) PROVE s.kind = "def"
      BY <2>3 DEF Definition
    <2>4. ASSUME s = IncompleteType PROVE s.kind = "incomplete"
      BY <2>4 DEF IncompleteType, Symbol
    <2>5. ASSUME NEW i \in DOMAIN Prelude, s = Prelude[i].def
          PROVE  s.kind \in {"type", "axiom", "decl", "def"}
      BY <2>5, PreludeAssumption
    <2>6. CASE s \in {SymbolOf(e) : e \in Entries}
      BY <2>1, <2>6
    <2>7. CASE s \in {Symbol("decl", e.sig, FALSE) : e \in Entries}
      BY <2>2, <2>7
    <2>8. CASE s \in UNION {{Definition(e, n) : n \in Nat} : e \in Entries}
      <3>1. PICK e \in Entries : s \in {Definition(e, n) : n \in Nat}
        BY <2>8
      <3> QED BY <2>3, <3>1
    <2>9. CASE s \in {Prelude[i].def : i \in DOMAIN Prelude}
      BY <2>5, <2>9
    <2>10. CASE s = IncompleteType
      BY <2>4, <2>10
    <2> QED BY <2>6, <2>7, <2>8, <2>9, <2>10 DEF Symbols
  <1>2. T!Undefined.kind = "undefined"
    BY DEF T!Undefined
  <1> QED BY <1>1, <1>2

\* What a name stands for in an environment.
LEMMA LookupFacts ==
  ASSUME NEW h \in Heap, NEW n \in DOMAIN h, NEW g \in Globals
  PROVE  /\ T!Lookup(h, n, g) \in Symbols \union {T!Undefined}
         /\ T!Lookup(h, n, g) # T!Undefined =>
              LET c == L!Find(h, n, g)
              IN  /\ c = <<c[1], c[2]>> /\ c[1] \in DOMAIN h /\ c[2] \in DOMAIN h[c[1]].data
                  /\ T!Lookup(h, n, g) = L!At(h, c)
  <1>1. L!WellFormed(h, Symbols) /\ T!Lookup(h, n, g) = L!Value(h, n, g, T!Undefined)
    BY SameOperators DEF Heap
  <1>2. T!Lookup(h, n, g) \in Symbols \union {T!Undefined}
    BY <1>1, L!ValueType
  <1>3. ASSUME T!Lookup(h, n, g) # T!Undefined
        PROVE  LET c == L!Find(h, n, g)
               IN  /\ c = <<c[1], c[2]>> /\ c[1] \in DOMAIN h /\ c[2] \in DOMAIN h[c[1]].data
                   /\ T!Lookup(h, n, g) = L!At(h, c)
    <2>1. L!Find(h, n, g) # L!NoCell /\ T!Lookup(h, n, g) = L!At(h, L!Find(h, n, g))
      BY <1>1, <1>3 DEF L!Value
    <2> QED BY <1>1, <2>1, L!FindCell
  <1> QED BY <1>2, <1>3

MayEmplace(p, d) ==
  \/ p = T!Undefined
  \/ p.kind \in Functions /\ d.kind = "decl" /\ p.sig = d.sig
  \/ p.kind = "decl" /\ d.kind = "def" /\ p.sig = d.sig

\* In f, name x of environment n of h has become d, if it was not known or d
\* defines it; where it stood for the declaration of what d defines, it stands
\* for d as well.
NowStandsFor(h, f, n, x, d) ==
  LET p == T!Lookup(h, n, x)
  IN  /\ f \in Heap /\ DOMAIN f = DOMAIN h /\ Len(f) = Len(h)
      /\ \A m \in DOMAIN h : f[m].outer = h[m].outer
      /\ T!Lookup(f, n, x) = IF p = T!Undefined \/ d.kind = "def" THEN d ELSE p
      /\ \A m \in DOMAIN h, y \in Globals :
           \/ T!Lookup(f, m, y) = T!Lookup(h, m, y)
           \/ m = n /\ y = x /\ p = T!Undefined
           \/ /\ y = x /\ T!Lookup(h, m, y) = p /\ T!Lookup(f, m, y) = d
              /\ p.kind = "decl" /\ d.kind = "def" /\ p.sig = d.sig

LEMMA EmplacedNew ==
  ASSUME NEW h \in Heap, NEW n \in DOMAIN h, NEW x \in Globals, NEW d \in Symbols,
         T!Lookup(h, n, x) = T!Undefined
  PROVE  NowStandsFor(h, L!Emplaced(h, n, x, d), n, x, d)
  <1> DEFINE f == L!Emplaced(h, n, x, d)
  <1>1. L!WellFormed(h, Symbols) /\ h \in Seq(L!NodeOf(Symbols))
    BY DEF Heap
  <1>2. h[n].index[x] = L!Absent
    <2> SUFFICES ASSUME h[n].index[x] # L!Absent PROVE FALSE
      OBVIOUS
    <2>1. h[n].index[x] \in DOMAIN h[n].data /\ h[n].data \in Seq(L!EntryOf(Symbols))
      BY <1>1, L!NodeParts DEF L!WellFormed, L!Indexed
    <2>2. h[n].data[h[n].index[x]] \in L!EntryOf(Symbols)
      BY <2>1
    <2>3. h[n].data[h[n].index[x]].val \in Symbols
      BY <2>2 DEF L!EntryOf
    <2>4. L!Value(h, n, x, T!Undefined) = h[n].data[h[n].index[x]].val
      BY <1>1, L!ValueFrom
    <2> QED BY <2>3, <2>4, SymbolKinds, SameOperators
  <1>3. L!EntryAdded(h, f, n, x, d) /\ f \in Seq(L!NodeOf(Symbols))
    BY <1>1, <1>2, L!EmplacedAdds
  <1> HIDE DEF f
  <1>4. L!WellFormed(f, Symbols)
    BY <1>1, <1>2, <1>3, L!AddedWellFormed
  <1>5. /\ T!Lookup(f, n, x) = d
        /\ \A m \in DOMAIN h, y \in Globals : ~(m = n /\ y = x) => T!Lookup(f, m, y) = T!Lookup(h, m, y)
    <2>1. /\ \A none : L!Value(f, n, x, none) = d
          /\ \A m \in DOMAIN h, y \in Globals : ~(m = n /\ y = x) =>
               \A none : L!Value(f, m, y, none) = L!Value(h, m, y, none)
      BY <1>1, <1>2, <1>3, <1>4, L!AddedSees
    <2> QED BY <2>1, SameOperators
  <1>6. DOMAIN f = DOMAIN h /\ Len(f) = Len(h) /\ \A m \in DOMAIN h : f[m].outer = h[m].outer
    BY <1>3 DEF L!EntryAdded
  <1> QED BY <1>3, <1>4, <1>5, <1>6 DEF NowStandsFor, Heap, f

LEMMA WrittenOver ==
  ASSUME NEW h \in Heap, NEW n \in DOMAIN h, NEW x \in Globals, NEW d \in Symbols,
         T!Lookup(h, n, x).kind = "decl", d.kind = "def", T!Lookup(h, n, x).sig = d.sig,
         T!Lookup(h, n, x) # T!Undefined
  PROVE  NowStandsFor(h, L!Written(h, L!Find(h, n, x), d), n, x, d)
  <1> DEFINE c == L!Find(h, n, x)
             f == L!Written(h, c, d)
             p == T!Lookup(h, n, x)
  <1>1. L!WellFormed(h, Symbols) /\ h \in Seq(L!NodeOf(Symbols))
    BY DEF Heap
  <1>2. c = <<c[1], c[2]>> /\ c[1] \in DOMAIN h /\ c[2] \in DOMAIN h[c[1]].data /\ p = L!At(h, c)
        /\ c # L!NoCell
    BY <1>1, LookupFacts, SameOperators DEF L!Value
  <1> HIDE DEF c, p
  <1>3. L!EntryWritten(h, f, c[1], c[2], d) /\ f \in Seq(L!NodeOf(Symbols))
    BY <1>1, <1>2, L!WrittenWrites
  <1> HIDE DEF f
  <1>4. /\ L!WellFormed(f, Symbols)
        /\ \A m \in DOMAIN h, y \in Globals : \A none :
             L!Value(f, m, y, none) = IF L!Find(h, m, y) = c THEN d ELSE L!Value(h, m, y, none)
    <2> DEFINE a == c[1]
               b == c[2]
    <2>1. a \in DOMAIN h /\ b \in DOMAIN h[a].data /\ c = <<a, b>> /\ L!EntryWritten(h, f, a, b, d)
      BY <1>2, <1>3
    <2> HIDE DEF a, b
    <2> QED BY <1>1, <1>3, <2>1, L!WrittenSees
  <1>5. ASSUME NEW m \in DOMAIN h, NEW y \in Globals, L!Find(h, m, y) = c
        PROVE  y = x /\ T!Lookup(h, m, y) = p
    <2>1. h[c[1]].data[c[2]].key = y
      BY <1>1, <1>2, <1>5, L!FindCell
    <2>2. h[c[1]].data[c[2]].key = x
      BY <1>1, <1>2, L!FindCell DEF c
    <2>3. T!Lookup(h, m, y) = L!At(h, c)
      BY <1>2, <1>5, SameOperators DEF L!Value
    <2> QED BY <1>2, <2>1, <2>2, <2>3
  <1>6. ASSUME NEW m \in DOMAIN h, NEW y \in Globals
        PROVE  T!Lookup(f, m, y) = IF L!Find(h, m, y) = c THEN d ELSE T!Lookup(h, m, y)
    BY <1>4, SameOperators
  <1>7. DOMAIN f = DOMAIN h /\ Len(f) = Len(h) /\ \A m \in DOMAIN h : f[m].outer = h[m].outer
    BY <1>2, <1>3 DEF L!EntryWritten
  <1>8. T!Lookup(f, n, x) = d
    BY <1>6 DEF c
  <1>9. f \in Heap
    BY <1>3, <1>4 DEF Heap
  <1>10. p.kind = "decl" /\ p.sig = d.sig /\ p # T!Undefined
    BY DEF p
  <1>11. ASSUME NEW m \in DOMAIN h, NEW y \in Globals
         PROVE  \/ T!Lookup(f, m, y) = T!Lookup(h, m, y)
                \/ y = x /\ T!Lookup(h, m, y) = p /\ T!Lookup(f, m, y) = d
    BY <1>5, <1>6
  <1> QED BY <1>7, <1>8, <1>9, <1>10, <1>11 DEF NowStandsFor, p, f, c

\* try_emplace.
LEMMA Emplacing ==
  ASSUME NEW h \in Heap, NEW n \in DOMAIN h, NEW x \in Globals, NEW d \in Symbols
  PROVE  LET r == T!TryEmplaced(h, n, x, d)
             p == T!Lookup(h, n, x)
         IN  /\ r.ok \in BOOLEAN /\ (r.ok <=> MayEmplace(p, d))
             /\ r.ok => NowStandsFor(h, r.heap, n, x, d)
             /\ ~r.ok => r.heap = h
  <1> DEFINE p == T!Lookup(h, n, x)
             r == T!TryEmplaced(h, n, x, d)
  <1>1. /\ p \in Symbols \union {T!Undefined}
        /\ \A e : T!H!Emplaced(h, n, x, e) = L!Emplaced(h, n, x, e)
        /\ \A e : T!H!Written(h, T!H!Find(h, n, x), e) = L!Written(h, L!Find(h, n, x), e)
    BY LookupFacts, SameOperators, ZenonT(60)
  <1>2. CASE p = T!Undefined
    <2>1. r = [ok |-> TRUE, heap |-> L!Emplaced(h, n, x, d)]
      <3>1. T!H!Emplaced(h, n, x, d) = L!Emplaced(h, n, x, d)
        BY SameOperators
      <3>2. p.kind \notin {"decl", "def"}
        BY <1>2 DEF T!Undefined
      <3> QED BY <1>2, <3>1, <3>2 DEF T!TryEmplaced, T!Accepted
    <2> QED BY <1>2, <2>1, EmplacedNew DEF MayEmplace
  <1>3. CASE p # T!Undefined
    <2>1. CASE p.kind \in Functions /\ d.kind = "decl" /\ p.sig = d.sig
      <3>1. r = [ok |-> TRUE, heap |-> h]
        BY <1>3, <2>1 DEF T!TryEmplaced, T!Accepted, Functions
      <3>2. NowStandsFor(h, h, n, x, d)
        BY <1>3, <2>1 DEF NowStandsFor
      <3> QED BY <2>1, <3>1, <3>2 DEF MayEmplace
    <2>2. CASE p.kind = "decl" /\ d.kind = "def" /\ p.sig = d.sig
      <3>1. r = [ok |-> TRUE, heap |-> L!Written(h, L!Find(h, n, x), d)]
        BY <1>1, <1>3, <2>2 DEF T!TryEmplaced, T!Accepted
      <3> QED BY <1>3, <2>2, <3>1, WrittenOver DEF MayEmplace
    <2>3. CASE ~MayEmplace(p, d)
      <3>1. r = [ok |-> FALSE, heap |-> h]
        BY <2>3 DEF T!TryEmplaced, T!Rejected, MayEmplace, Functions
      <3> QED BY <2>3, <3>1
    <2> QED BY <1>3, <2>1, <2>2, <2>3 DEF MayEmplace
  <1> QED BY <1>2, <1>3

\* What names stand for in the environments of h, they stand for in those of f.
Keeps(h, f) ==
  /\ f \in Heap /\ DOMAIN h \subseteq DOMAIN f
  /\ \A m \in DOMAIN h : /\ f[m].outer = h[m].outer
                         /\ \A g \in Globals : T!Lookup(f, m, g) = T!Lookup(h, m, g)

\* An environment that extends environment n.
LEMMA Extending ==
  ASSUME NEW h \in Heap, NEW n \in DOMAIN h
  PROVE  LET f == Extended(h, n)
         IN  /\ Keeps(h, f) /\ Len(f) = Len(h) + 1 /\ Len(h) + 1 \in DOMAIN f
             /\ \A g \in Globals : T!Lookup(f, Len(h) + 1, g) = T!Lookup(h, n, g)
  <1> DEFINE f == Extended(h, n)
  <1>1. L!WellFormed(h, Symbols) /\ h \in Seq(L!NodeOf(Symbols)) /\ Len(h) \in Nat
        /\ DOMAIN h = 1..Len(h)
    BY DEF Heap
  <1>2. f = Append(h, L!ChildNode(h, n))
    BY SameOperators DEF Extended
  <1>3. L!ChildAdded(h, f, n, Symbols)
    BY <1>1, <1>2, L!ChildSees
  <1>4. \A m \in DOMAIN h : f[m] = h[m]
    BY <1>1, <1>2
  <1> HIDE DEF f
  <1>5. /\ L!WellFormed(f, Symbols) /\ Len(f) = Len(h) + 1 /\ Len(h) + 1 \in DOMAIN f
        /\ \A m \in DOMAIN h : L!KeepsNode(h, f, m)
        /\ \A g \in Globals : \A none : L!Value(f, Len(h) + 1, g, none) = L!Value(h, n, g, none)
    BY <1>3 DEF L!ChildAdded
  <1>6. f \in Heap /\ DOMAIN h \subseteq DOMAIN f
    <2>1. f \in Seq(L!NodeOf(Symbols))
      BY <1>5 DEF L!WellFormed
    <2> QED BY <1>1, <1>5, <2>1 DEF Heap
  <1>7. ASSUME NEW m \in DOMAIN h, NEW g \in Globals
        PROVE  T!Lookup(f, m, g) = T!Lookup(h, m, g)
    <2>1. \A none : L!Value(f, m, g, none) = L!Value(h, m, g, none)
      BY <1>5 DEF L!KeepsNode, L!KeepsLookups
    <2> QED BY <2>1, SameOperators
  <1>8. \A g \in Globals : T!Lookup(f, Len(h) + 1, g) = T!Lookup(h, n, g)
    BY <1>5, SameOperators, Zenon
  <1> QED BY <1>4, <1>5, <1>6, <1>7, <1>8 DEF Keeps, f

\* An environment that extends environment n and has one name more.
OneMore(h, r, n, x, d) ==
  LET p == T!Lookup(h, n, x)
  IN  /\ r.ok \in BOOLEAN /\ (r.ok <=> MayEmplace(p, d))
      /\ Keeps(h, r.heap) /\ Len(r.heap) = Len(h) + 1 /\ Len(h) + 1 \in DOMAIN r.heap
      /\ \A g \in Globals \ {x} : T!Lookup(r.heap, Len(h) + 1, g) = T!Lookup(h, n, g)
      /\ T!Lookup(r.heap, Len(h) + 1, x) = IF p = T!Undefined THEN d ELSE p

LEMMA ExtendingByOne ==
  ASSUME NEW h \in Heap, NEW n \in DOMAIN h, NEW x \in Globals, NEW d \in Symbols, d.kind # "def"
  PROVE  OneMore(h, T!TryEmplaced(Extended(h, n), Len(h) + 1, x, d), n, x, d)
  <1> DEFINE f == Extended(h, n)
             e == Len(h) + 1
             r == T!TryEmplaced(f, e, x, d)
             p == T!Lookup(h, n, x)
  <1>1. /\ Keeps(h, f) /\ Len(f) = Len(h) + 1 /\ e \in DOMAIN f
        /\ \A g \in Globals : T!Lookup(f, e, g) = T!Lookup(h, n, g)
    BY Extending
  <1>2. f \in Heap /\ DOMAIN h \subseteq DOMAIN f /\ e \notin DOMAIN h
    <2>1. DOMAIN h = 1..Len(h) /\ Len(h) \in Nat
      BY DEF Heap
    <2> QED BY <1>1, <2>1 DEF Keeps
  <1> HIDE DEF f, e
  <1>3. /\ r.ok \in BOOLEAN /\ (r.ok <=> MayEmplace(p, d))
        /\ r.ok => NowStandsFor(f, r.heap, e, x, d)
        /\ ~r.ok => r.heap = f
    BY <1>1, <1>2, Emplacing, ZenonT(60)
  <1> HIDE DEF r, p
  <1>4. CASE ~r.ok
    <2>1. p # T!Undefined
      BY <1>3, <1>4 DEF MayEmplace
    <2> QED BY <1>1, <1>3, <1>4, <2>1 DEF OneMore, f, e, r, p
  <1>5. CASE r.ok
    <2>1. /\ r.heap \in Heap /\ DOMAIN r.heap = DOMAIN f /\ Len(r.heap) = Len(f)
          /\ \A m \in DOMAIN f : r.heap[m].outer = f[m].outer
          /\ T!Lookup(r.heap, e, x) = IF p = T!Undefined THEN d ELSE p
          /\ \A m \in DOMAIN f, y \in Globals :
               T!Lookup(r.heap, m, y) = T!Lookup(f, m, y) \/ (m = e /\ y = x)
      BY <1>1, <1>3, <1>5 DEF NowStandsFor, p
    <2>2. Keeps(h, r.heap)
      BY <1>1, <1>2, <2>1 DEF Keeps
    <2>3. \A g \in Globals \ {x} : T!Lookup(r.heap, e, g) = T!Lookup(h, n, g)
      BY <1>1, <2>1, Zenon
    <2> QED BY <1>1, <1>3, <2>1, <2>2, <2>3 DEF OneMore, f, e, r, p
  <1> QED BY <1>4, <1>5

-----------------------------------------------------------------------------
(* The base environment.                                                   *)

Bases == {h \in Heap : Len(h) = 1 /\ h[BaseEnv].outer = <<>>}

LEMMA EmptyBase ==
  /\ <<T!H!RootNode>> \in Bases
  /\ \A g \in Globals : T!Lookup(<<T!H!RootNode>>, BaseEnv, g) = T!Undefined
  <1> DEFINE x == T!H!RootNode
             h == <<x>>
  <1>1. x = [outer |-> <<>>, data |-> <<>>, index |-> [g \in Globals |-> 0]]
    BY DEF T!H!RootNode, T!H!EmptyNode, T!H!Absent
  <1>2. x \in L!NodeOf(Symbols) /\ x.outer = <<>> /\ L!Indexed(x)
        /\ \A g \in Globals : x.index[g] = L!Absent
    <2>1. <<>> \in Seq(L!Level) /\ <<>> \in Seq(L!EntryOf(Symbols)) /\ DOMAIN <<>> = {}
      OBVIOUS
    <2>2. [g \in Globals |-> 0] \in [Globals -> Nat]
      OBVIOUS
    <2> QED BY <1>1, <2>1, <2>2 DEF L!NodeOf, L!Indexed, L!Absent
  <1> HIDE DEF x
  <1>3. h \in Seq(L!NodeOf(Symbols)) /\ DOMAIN h = {1} /\ h[1] = x /\ Len(h) = 1
    BY <1>2
  <1> HIDE DEF h
  <1>4. L!WellFormed(h, Symbols)
    <2>1. L!Within(h, 1, <<>>)
      BY DEF L!Within
    <2> QED BY <1>2, <1>3, <2>1 DEF L!WellFormed
  <1>5. ASSUME NEW g \in Globals PROVE T!Lookup(h, BaseEnv, g) = T!Undefined
    <2>1. L!HasNode(h, 1, x)
      BY <1>3 DEF L!HasNode
    <2>2. L!Find(h, 1, g) = L!FindIn(h, x.outer, g)
      BY <1>2, <1>4, <2>1, L!OwnOrOuter
    <2>3. L!Find(h, 1, g) = L!NoCell
      BY <1>2, <2>2, L!FindInNowhere
    <2> QED BY <2>3, SameOperators DEF L!Value, BaseEnv
  <1> QED BY <1>2, <1>3, <1>4, <1>5 DEF Bases, Heap, BaseEnv, h, x

\* import: every name of the prelude is new when it is added.
LEMMA ImportingPrelude ==
  MakeBaseEnv \in Bases /\ HasPrelude(MakeBaseEnv, BaseEnv)
  <1> DEFINE us == Prelude
             N == Len(us)
             U == [global : Globals, def : {Prelude[i].def : i \in DOMAIN Prelude}]
             base == <<T!H!RootNode>>
             Then(h, e) == T!TryEmplaced(h, BaseEnv, e.global, e.def).heap
             body(f) == [s \in SUBSET DOMAIN us |->
                           IF s = {} THEN base ELSE Then(f[s \ {T!Max(s)}], us[T!Max(s)])]
             it == CHOOSE f : f = body(f)
             step == [x \in Bases \X U |-> Then(x[1], x[2])]
  <1>1. MakeBaseEnv = it[DOMAIN us]
    <2>1. ~\E i \in DOMAIN us : us[i].global \in T!Visible(base, BaseEnv)
      BY EmptyBase DEF T!Visible
    <2>2. T!Imported(base, BaseEnv, us).heap =
            T!FoldLeft(LAMBDA k, e : T!TryEmplaced(k, BaseEnv, e.global, e.def).heap, base, us)
      BY <2>1 DEF T!Imported, T!Accepted
    <2>3. T!FoldLeft(LAMBDA k, e : T!TryEmplaced(k, BaseEnv, e.global, e.def).heap, base, us) = it[DOMAIN us]
      BY DEF T!FoldLeft, T!MapThenFoldSet, T!Max
    <2> QED BY <2>2, <2>3, Zenon DEF MakeBaseEnv
  <1>2. /\ us \in Seq(U) /\ N \in Nat /\ DOMAIN us = 1..N /\ base \in Bases
        /\ \A i, j \in 1..N : us[i].global = us[j].global => i = j
        /\ \A g \in Globals : T!Lookup(base, BaseEnv, g) = T!Undefined
    BY PreludeAssumption, EmptyBase
  <1>3. ASSUME NEW e \in U PROVE e.global \in Globals /\ e.def \in Symbols
    BY DEF Symbols
  <1>4. ASSUME NEW h \in Bases, NEW e \in U
        PROVE  /\ Then(h, e) \in Bases
               /\ T!Lookup(h, BaseEnv, e.global) = T!Undefined =>
                    /\ T!Lookup(Then(h, e), BaseEnv, e.global) = e.def
                    /\ \A g \in Globals \ {e.global} :
                         T!Lookup(Then(h, e), BaseEnv, g) = T!Lookup(h, BaseEnv, g)
    <2> DEFINE x == e.global
               d == e.def
               r == T!TryEmplaced(h, BaseEnv, x, d)
    <2>1. h \in Heap /\ BaseEnv \in DOMAIN h /\ x \in Globals /\ d \in Symbols
      <3>1. h \in Heap /\ Len(h) = 1
        BY DEF Bases
      <3>2. DOMAIN h = 1..1
        BY <3>1 DEF Heap
      <3> QED BY <1>3, <3>1, <3>2 DEF BaseEnv
    <2> HIDE DEF x, d
    <2>2. /\ r.ok <=> MayEmplace(T!Lookup(h, BaseEnv, x), d)
          /\ r.ok => NowStandsFor(h, r.heap, BaseEnv, x, d)
          /\ ~r.ok => r.heap = h
      BY <2>1, Emplacing
    <2> HIDE DEF r
    <2>3. r.heap \in Bases
      BY <2>1, <2>2 DEF NowStandsFor, Bases
    <2>4. ASSUME T!Lookup(h, BaseEnv, x) = T!Undefined
          PROVE  /\ T!Lookup(r.heap, BaseEnv, x) = d
                 /\ \A g \in Globals \ {x} : T!Lookup(r.heap, BaseEnv, g) = T!Lookup(h, BaseEnv, g)
      BY <2>1, <2>2, <2>4 DEF NowStandsFor, MayEmplace
    <2> QED BY <2>3, <2>4 DEF r, x, d
  <1> HIDE DEF us, N, base, Then
  <1>5. step \in [Bases \X U -> Bases] /\ \A h \in Bases, e \in U : step[<<h, e>>] = Then(h, e)
    BY <1>4, Zenon
  <1> HIDE DEF step, U
  <1>6. \E f : f = body(f)
    <2>1. PICK f \in [SUBSET (1..N) -> Bases] : L!FoldsBy(f, N, base, step, us)
      BY <1>2, <1>5, L!FoldExists DEF N
    <2>2. ASSUME NEW s \in SUBSET DOMAIN us
          PROVE  f[s] = IF s = {} THEN base ELSE Then(f[s \ {T!Max(s)}], us[T!Max(s)])
      <3>1. f[s] = IF s = {} THEN base ELSE step[<<f[s \ {T!Max(s)}], us[T!Max(s)]>>]
        BY <1>2, <2>1 DEF L!FoldsBy, T!Max, L!Max
      <3>2. CASE s # {}
        <4>1. s \in SUBSET (1..N) /\ s \ {T!Max(s)} \in SUBSET (1..N)
          BY <1>2
        <4>2. L!Max(s) \in s
          BY <1>2, <3>2, <4>1, L!GreatestOf
        <4>3. f[s \ {T!Max(s)}] \in Bases /\ us[T!Max(s)] \in U
          BY <1>2, <4>1, <4>2 DEF T!Max, L!Max
        <4> QED BY <1>5, <3>1, <3>2, <4>3
      <3> QED BY <3>1, <3>2
    <2>3. f = body(f)
      BY <1>2, <2>1, <2>2
    <2> QED BY <2>3
  <1>7. it = body(it)
    <2> HIDE DEF body
    <2> QED BY <1>6
  <1> HIDE DEF it
  <1>8. it[1..0] = base /\ \A i \in 1..N : it[1..i] = Then(it[1..(i - 1)], us[i])
    <2>1. it[1..0] = base
      <3>1. 1..0 = {} /\ {} \in SUBSET DOMAIN us
        OBVIOUS
      <3> QED BY <1>7, <3>1
    <2>2. ASSUME NEW i \in 1..N PROVE it[1..i] = Then(it[1..(i - 1)], us[i])
      <3>1. i \in Nat \ {0} /\ 1..i \in SUBSET DOMAIN us /\ 1..i # {}
        <4>1. i \in Nat \ {0} /\ 1..i \subseteq 1..N /\ 1 \in 1..i
          BY <1>2
        <4> QED BY <1>2, <4>1
      <3>2. T!Max(1..i) = i /\ (1..i) \ {i} = 1..(i - 1)
        BY <3>1, L!MaxUpTo DEF T!Max, L!Max
      <3> QED BY <1>7, <3>1, <3>2
    <2> QED BY <2>1, <2>2
  <1> DEFINE Read(h, i) ==
               /\ \A j \in 1..i : T!Lookup(h, BaseEnv, us[j].global) = us[j].def
               /\ \A g \in Globals : (\A j \in 1..i : us[j].global # g) =>
                    T!Lookup(h, BaseEnv, g) = T!Undefined
             Reached == {i \in 0..N : it[1..i] \in Bases /\ Read(it[1..i], i)}
  <1>9. 0 \in Reached
    BY <1>2, <1>8
  <1>10. ASSUME NEW i \in 0..(N - 1), i \in Reached PROVE i + 1 \in Reached
    <2> DEFINE h == it[1..i]
               k == i + 1
               f == it[1..k]
               e == us[k]
    <2>1. /\ i \in Nat /\ k \in 1..N /\ k - 1 = i /\ 1..k = (1..i) \union {k} /\ k \notin 1..i
          /\ k \in 0..N /\ 1..i \subseteq 1..N
      BY <1>2
    <2>2. h \in Bases /\ Read(h, i)
      BY <1>10
    <2>3. f = Then(h, e) /\ e \in U
      BY <1>2, <1>8, <2>1
    <2> HIDE DEF h, f, k, e, Read
    <2>4. \A j \in 1..i : us[j].global # e.global
      BY <1>2, <2>1 DEF e
    <2>5. T!Lookup(h, BaseEnv, e.global) = T!Undefined
      BY <1>3, <2>2, <2>3, <2>4 DEF Read
    <2>6. /\ f \in Bases /\ T!Lookup(f, BaseEnv, e.global) = e.def
          /\ \A g \in Globals \ {e.global} : T!Lookup(f, BaseEnv, g) = T!Lookup(h, BaseEnv, g)
      BY <1>4, <2>2, <2>3, <2>5
    <2>7. ASSUME NEW j \in 1..k PROVE T!Lookup(f, BaseEnv, us[j].global) = us[j].def
      <3>1. CASE j = k
        BY <2>6, <3>1 DEF e
      <3>2. CASE j \in 1..i
        <4>1. us[j].global \in Globals \ {e.global}
          BY <1>2, <1>3, <2>1, <2>4, <3>2
        <4> QED BY <2>2, <2>6, <3>2, <4>1 DEF Read
      <3> QED BY <2>1, <3>1, <3>2
    <2>8. ASSUME NEW g \in Globals, \A j \in 1..k : us[j].global # g
          PROVE  T!Lookup(f, BaseEnv, g) = T!Undefined
      <3>1. g \in Globals \ {e.global} /\ \A j \in 1..i : us[j].global # g
        BY <2>1, <2>8 DEF e
      <3> QED BY <2>2, <2>6, <3>1 DEF Read
    <2>9. Read(f, k)
      BY <2>7, <2>8 DEF Read
    <2> QED BY <2>1, <2>6, <2>9 DEF f, k
  <1>11. N \in Reached
    <2> HIDE DEF Reached
    <2>1. \A i \in 0..N : i \in Reached
      BY <1>2, <1>9, <1>10, L!UpTo
    <2>2. N \in 0..N
      BY <1>2
    <2> QED BY <2>1, <2>2
  <1>12. it[DOMAIN us] \in Bases /\ Read(it[DOMAIN us], N)
    BY <1>2, <1>11
  <1>13. HasPrelude(MakeBaseEnv, BaseEnv)
    <2>1. \A g \in Globals \ PreludeNames : \A j \in 1..N : us[j].global # g
      BY <1>2 DEF PreludeNames, us
    <2> QED BY <1>1, <1>2, <1>12, <2>1 DEF HasPrelude, us
  <1> QED BY <1>1, <1>12, <1>13

\* The base environment alone.
LEMMA OnlyBase ==
  ASSUME NEW h \in Heap, Len(h) >= 1, h[BaseEnv].outer = <<>>
  PROVE  /\ <<h[BaseEnv]>> \in Bases
         /\ \A g \in Globals : T!Lookup(<<h[BaseEnv]>>, BaseEnv, g) = T!Lookup(h, BaseEnv, g)
  <1> DEFINE x == h[1]
             f == <<x>>
  <1>1. L!WellFormed(h, Symbols) /\ h \in Seq(L!NodeOf(Symbols)) /\ 1 \in DOMAIN h
        /\ x \in L!NodeOf(Symbols) /\ L!Indexed(x) /\ x.outer = <<>> /\ L!HasNode(h, 1, x)
    BY DEF Heap, L!WellFormed, BaseEnv, L!HasNode
  <1> HIDE DEF x
  <1>2. f \in Seq(L!NodeOf(Symbols)) /\ DOMAIN f = {1} /\ f[1] = x /\ Len(f) = 1
    BY <1>1
  <1> HIDE DEF f
  <1>3. L!WellFormed(f, Symbols) /\ L!HasNode(f, 1, x)
    <2>1. L!Within(f, 1, <<>>)
      BY DEF L!Within
    <2> QED BY <1>1, <1>2, <2>1 DEF L!WellFormed, L!HasNode
  <1>4. ASSUME NEW g \in Globals
        PROVE  L!Value(f, 1, g, T!Undefined) = L!Value(h, 1, g, T!Undefined)
    <2>1. CASE x.index[g] # L!Absent
      BY <1>1, <1>3, <2>1, L!OwnOrOuter
    <2>2. CASE x.index[g] = L!Absent
      <3>1. /\ L!Value(f, 1, g, T!Undefined) = L!ValueIn(f, x.outer, g, T!Undefined)
            /\ L!Value(h, 1, g, T!Undefined) = L!ValueIn(h, x.outer, g, T!Undefined)
        BY <1>1, <1>3, <2>2, L!OwnOrOuter
      <3>2. L!FindIn(f, <<>>, g) = L!NoCell /\ L!FindIn(h, <<>>, g) = L!NoCell
        BY L!FindInNowhere
      <3> QED BY <1>1, <3>1, <3>2 DEF L!ValueIn
    <2> QED BY <2>1, <2>2
  <1> QED BY <1>1, <1>2, <1>3, <1>4, SameOperators DEF Bases, Heap, BaseEnv, f, x

\* A module starts with an environment that extends the base one.
LEMMA StartingModule ==
  ASSUME NEW b \in Bases, HasPrelude(b, BaseEnv)
  PROVE  /\ Environments(Extended(b, BaseEnv))
         /\ \A g \in Globals \ PreludeNames : T!Lookup(Extended(b, BaseEnv), Env, g) = T!Undefined
  <1> DEFINE f == Extended(b, BaseEnv)
  <1>1. b \in Heap /\ Len(b) = 1 /\ b[BaseEnv].outer = <<>> /\ BaseEnv \in DOMAIN b
    <2>1. b \in Heap /\ Len(b) = 1 /\ b[BaseEnv].outer = <<>>
      BY DEF Bases
    <2>2. DOMAIN b = 1..1
      BY <2>1 DEF Heap
    <2> QED BY <2>1, <2>2 DEF BaseEnv
  <1>2. /\ Keeps(b, f) /\ Len(f) = 2
        /\ \A g \in Globals : T!Lookup(f, 2, g) = T!Lookup(b, BaseEnv, g)
    <2>1. Len(b) + 1 = 2
      BY <1>1
    <2> QED BY <1>1, <2>1, Extending
  <1> HIDE DEF f
  <1>3. f \in Heap /\ f[BaseEnv].outer = <<>>
        /\ \A g \in Globals : T!Lookup(f, BaseEnv, g) = T!Lookup(b, BaseEnv, g)
    BY <1>1, <1>2 DEF Keeps
  <1>4. \A i \in DOMAIN Prelude : Prelude[i].global \in Globals
    BY PreludeFacts
  <1>5. HasPrelude(f, BaseEnv) /\ HasPrelude(f, Env)
    BY <1>2, <1>3, <1>4 DEF HasPrelude, Env, BaseEnv
  <1>6. \A g \in Globals \ PreludeNames : T!Lookup(f, Env, g) = T!Undefined
    BY <1>2, Zenon DEF HasPrelude, Env
  <1> QED BY <1>2, <1>3, <1>5, <1>6 DEF Environments, Env, f

LEMMA NothingKnown ==
  /\ entries = <<>> /\ decls = {}
  /\ \A g \in Globals \ PreludeNames : T!Lookup(heap, Env, g) = T!Undefined
  => Known(Len(entries))
  <1> SUFFICES ASSUME entries = <<>>, decls = {},
                      \A g \in Globals \ PreludeNames : T!Lookup(heap, Env, g) = T!Undefined
               PROVE  Known(Len(entries))
    OBVIOUS
  <1>1. Len(entries) = 0 /\ 1..0 = {}
    OBVIOUS
  <1>2. T!Undefined.kind = "undefined"
    BY DEF T!Undefined
  <1> QED BY <1>1, <1>2 DEF Known, Explained

-----------------------------------------------------------------------------
LEMMA InitSound == Init => Inv
  <1> SUFFICES ASSUME Init PROVE Inv
    OBVIOUS
  <1>1. heap = Extended(MakeBaseEnv, BaseEnv) /\ entries = <<>> /\ decls = {} /\ status = "open"
    BY DEF Init
  <1>2. Environments(heap) /\ \A g \in Globals \ PreludeNames : T!Lookup(heap, Env, g) = T!Undefined
    BY <1>1, ImportingPrelude, StartingModule
  <1>3. Known(Len(entries))
    BY <1>1, <1>2, NothingKnown
  <1>4. entries \in Seq(Entries)
    BY <1>1
  <1> QED BY <1>1, <1>2, <1>3, <1>4 DEF Inv, Judged

LEMMA NextModuleSound == Inv /\ NextModule => Inv'
  <1> SUFFICES ASSUME Inv, NextModule PROVE Inv'
    OBVIOUS
  <1>1. /\ heap' = Extended(<<heap[BaseEnv]>>, BaseEnv) /\ entries' = <<>> /\ decls' = {}
        /\ status' = "open"
    BY DEF NextModule
  <1>2. /\ heap \in Heap /\ Len(heap) >= 2 /\ heap[BaseEnv].outer = <<>>
        /\ HasPrelude(heap, BaseEnv)
    BY DEF Inv, Environments, Env
  <1>3. <<heap[BaseEnv]>> \in Bases /\ HasPrelude(<<heap[BaseEnv]>>, BaseEnv)
    <2>1. Len(heap) >= 1
      BY <1>2 DEF Heap
    <2>2. \A i \in DOMAIN Prelude : Prelude[i].global \in Globals
      BY PreludeFacts
    <2> QED BY <1>2, <2>1, <2>2, OnlyBase DEF HasPrelude
  <1>4. Environments(heap') /\ \A g \in Globals \ PreludeNames : T!Lookup(heap', Env, g) = T!Undefined
    BY <1>1, <1>3, StartingModule
  <1>5. Known(Len(entries))'
    <2>1. (/\ entries = <<>> /\ decls = {}
           /\ \A g \in Globals \ PreludeNames : T!Lookup(heap, Env, g) = T!Undefined
           => Known(Len(entries)))'
      BY NothingKnown, PTL
    <2> QED BY <1>1, <1>4, <2>1
  <1>6. entries' \in Seq(Entries)
    BY <1>1
  <1> QED BY <1>1, <1>4, <1>5, <1>6 DEF Inv, Judged

\* All that was declared is defined when the rules say so.
LEMMA EndModuleSound == Inv /\ EndModule => Inv'
  <1> SUFFICES ASSUME Inv, EndModule PROVE Inv'
    OBVIOUS
  <1>1. /\ status = "open" /\ UNCHANGED <<heap, entries, decls>>
        /\ status' = IF \A g \in decls : T!Lookup(heap, Env, g).kind = "def" THEN "accepted" ELSE "rejected"
    BY DEF EndModule
  <1>2. Known(Len(entries)) /\ entries \in Seq(Entries)
    BY <1>1 DEF Inv, Judged
  <1> DEFINE m == Len(entries)
             Forward(i) == entries[i].kind = "decl" /\ ~entries[i].builtin
  <1>3. m \in Nat /\ DOMAIN entries = 1..m
        /\ \A i \in 1..m : entries[i] \in Entries /\ entries[i].name \in Globals \ PreludeNames
    BY <1>2, EntriesAssumption
  <1>4. DeclaredIsDefined <=> \A g \in decls : T!Lookup(heap, Env, g).kind = "def"
    <2>1. ASSUME NEW i \in 1..m
          PROVE  LET s == T!Lookup(heap, Env, entries[i].name)
                 IN  s.kind = "def" <=> \E j \in 1..m : entries[j].name = entries[i].name /\ entries[j].kind = "def"
      <3> DEFINE g == entries[i].name
                 s == T!Lookup(heap, Env, g)
      <3>1. Explained(m, g, s)
        BY <1>2, <1>3 DEF Known
      <3> HIDE DEF g, s
      <3> QED BY <3>1 DEF Explained, Agree, g, s
    <2>2. decls = {entries[i].name : i \in {i \in 1..m : Forward(i)}}
      BY <1>2 DEF Known
    <2> HIDE DEF m
    <2> QED BY <1>3, <2>1, <2>2 DEF DeclaredIsDefined
  <1>5. Known(Len(entries))' /\ DeclaredIsDefined' = DeclaredIsDefined /\ (entries \in Seq(Entries))'
        /\ Environments(heap)'
    <2>1. Known(Len(entries))'
      BY <1>1, <1>2 DEF Known, Good, NameMayBeUsed, TypesAreKnown, NamesType, NamesTypeFunction,
         FieldsAreComplete, BodyIsKnown, CallableFromC, Prior, Explained, BodySees
    <2> QED BY <1>1, <1>2, <2>1 DEF DeclaredIsDefined, Inv
  <1> QED BY <1>1, <1>4, <1>5 DEF Inv, Judged

-----------------------------------------------------------------------------
(* What the environment says of a name is what the entries say of it.      *)

Named(m, g) == {j \in 1..m : entries[j].name = g}

LEMMA NameFacts ==
  ASSUME entries \in Seq(Entries), NEW m \in 0..Len(entries), Known(m), HasPrelude(heap, Env),
         NEW g \in Globals
  PROVE  LET s == T!Lookup(heap, Env, g)
         IN  /\ s # T!Undefined <=> Named(m, g) # {} \/ g \in PreludeNames
             /\ s.kind # "incomplete"
             /\ s.kind = "type" <=> \/ \E j \in Named(m, g) : entries[j].kind \in {"typedef", "struct"}
                                    \/ PreludeHas(g, {"type"})
             /\ s.kind = "axiom" <=> \/ \E j \in Named(m, g) : entries[j].kind = "axiom"
                                     \/ PreludeHas(g, {"axiom"})
             /\ s.kind \in Functions \union {"axiom"} /\ s.sig = TypeSig <=>
                  \/ \E j \in Named(m, g) :
                       entries[j].kind \in Functions \union {"axiom"} /\ entries[j].sig = TypeSig
                  \/ \E k \in DOMAIN Prelude :
                       /\ Prelude[k].global = g /\ Prelude[k].def.sig = TypeSig
                       /\ Prelude[k].def.kind \in Functions \union {"axiom"}
  <1> DEFINE s == T!Lookup(heap, Env, g)
             N == Named(m, g)
  <1>1. /\ N \subseteq 1..m
        /\ \A j \in 1..m : /\ entries[j].name \notin PreludeNames
                           /\ entries[j].kind \in {"typedef", "struct", "axiom", "extern", "decl", "def"}
    <2>1. \A j \in 1..m : entries[j] \in Entries
      OBVIOUS
    <2> QED BY <2>1, EntriesAssumption DEF Named
  <1>2. T!Undefined.kind = "undefined"
    BY DEF T!Undefined
  <1>3. CASE g \in PreludeNames
    <2>1. N = {}
      BY <1>1, <1>3 DEF Named
    <2>2. PICK k \in DOMAIN Prelude : Prelude[k].global = g
      BY <1>3 DEF PreludeNames
    <2>3. s = Prelude[k].def
      BY <2>2 DEF HasPrelude
    <2>4. \A l \in DOMAIN Prelude : Prelude[l].global = g => l = k
      BY <2>2, PreludeAssumption
    <2>5. s.kind \in {"type", "axiom", "decl", "def"}
      BY <2>3, PreludeAssumption
    <2> HIDE DEF N, s
    <2> QED BY <1>2, <1>3, <2>1, <2>2, <2>3, <2>4, <2>5 DEF PreludeHas, N, s, Functions
  <1>4. CASE g \notin PreludeNames
    <2>1. \A k \in DOMAIN Prelude : Prelude[k].global # g
      BY <1>4 DEF PreludeNames
    <2>2. Explained(m, g, s)
      BY <1>4 DEF Known
    <2> HIDE DEF s
    <2>3. /\ s # T!Undefined <=> N # {}
          /\ \A j \in N : Agree(entries[j], s)
      BY <2>2 DEF Explained, Named
    <2> HIDE DEF N
    <2>4. CASE s = T!Undefined
      BY <1>2, <1>4, <2>1, <2>3, <2>4 DEF PreludeHas, N, s, Functions
    <2>5. CASE s # T!Undefined
      <3>1. \A j \in N : /\ s.sig = entries[j].sig
                         /\ s.kind = "type" <=> entries[j].kind \in {"typedef", "struct"}
                         /\ s.kind = "axiom" <=> entries[j].kind = "axiom"
                         /\ s.kind \in Functions <=> entries[j].kind \in Functions
                         /\ s.kind # "incomplete"
        BY <1>1, <2>3 DEF Agree, Functions
      <3>2. N # {}
        BY <2>3, <2>5
      <3> QED BY <1>4, <2>1, <2>5, <3>1, <3>2 DEF PreludeHas, N, s
    <2> QED BY <2>4, <2>5
  <1> QED BY <1>3, <1>4

\* The symbol that an entry adds.
Adds(e, d) == d \in Symbols /\ Agree(e, d) /\ (e.kind = "decl" => d.kind = "decl")

\* The rules for the next entry e, as the environment sees them.
LEMMA RulesSeen ==
  ASSUME entries \in Seq(Entries), NEW m \in Nat, m = Len(entries), NEW i \in Nat, i = m + 1,
         NEW e \in Entries, entries' = Append(entries, e), Known(m), HasPrelude(heap, Env)
  PROVE  /\ \A g \in Globals : NamesType(i, g)' <=> IsType(heap, Env, g) \/ (g = e.name /\ e.kind = "struct")
         /\ \A g \in Globals : NamesTypeFunction(i, g)' <=> IsTypeFunction(heap, Env, g)
         /\ \A g \in Globals : T!Lookup(heap, Env, g) # T!Undefined <=> Prior(i, g)' # {} \/ g \in PreludeNames
         /\ \A g \in Globals : T!Lookup(heap, Env, g).kind = "axiom" <=>
              (\E j \in Prior(i, g)' : entries'[j].kind = "axiom") \/ PreludeHas(g, {"axiom"})
         /\ \A d : Adds(e, d) => (NameMayBeUsed(i)' <=> MayEmplace(T!Lookup(heap, Env, e.name), d))
  <1>1. /\ DOMAIN entries' = 1..i /\ entries'[i] = e /\ \A j \in 1..m : entries'[j] = entries[j]
        /\ 1..(i - 1) = 1..m /\ \A j \in 1..m : entries[j] \in Entries /\ m \in 0..Len(entries)
    OBVIOUS
  <1>2. \A g : Prior(i, g)' = Named(m, g)
    BY <1>1 DEF Prior, Named
  <1>3. \A g : Named(m, g) \subseteq 1..m
    BY DEF Named
  <1>4. ASSUME NEW g \in Globals
        PROVE  /\ NamesType(i, g)' <=> IsType(heap, Env, g) \/ (g = e.name /\ e.kind = "struct")
               /\ NamesTypeFunction(i, g)' <=> IsTypeFunction(heap, Env, g)
               /\ T!Lookup(heap, Env, g) # T!Undefined <=> Prior(i, g)' # {} \/ g \in PreludeNames
               /\ T!Lookup(heap, Env, g).kind = "axiom" <=>
                    (\E j \in Prior(i, g)' : entries'[j].kind = "axiom") \/ PreludeHas(g, {"axiom"})
    <2> DEFINE s == T!Lookup(heap, Env, g)
               N == Named(m, g)
    <2>1. /\ s # T!Undefined <=> N # {} \/ g \in PreludeNames
          /\ s.kind # "incomplete"
          /\ s.kind = "type" <=> \/ \E j \in N : entries[j].kind \in {"typedef", "struct"}
                                 \/ PreludeHas(g, {"type"})
          /\ s.kind = "axiom" <=> \/ \E j \in N : entries[j].kind = "axiom"
                                  \/ PreludeHas(g, {"axiom"})
          /\ s.kind \in Functions \union {"axiom"} /\ s.sig = TypeSig <=>
               \/ \E j \in N : entries[j].kind \in Functions \union {"axiom"} /\ entries[j].sig = TypeSig
               \/ \E k \in DOMAIN Prelude :
                    /\ Prelude[k].global = g /\ Prelude[k].def.sig = TypeSig
                    /\ Prelude[k].def.kind \in Functions \union {"axiom"}
      BY <1>1, NameFacts
    <2>2. N \subseteq 1..m /\ Prior(i, g)' = N /\ \A j \in N : entries'[j] = entries[j]
      BY <1>1, <1>2, <1>3
    <2> HIDE DEF s, N
    <2>3. NamesType(i, g)' <=> \/ \E j \in N : entries[j].kind \in {"typedef", "struct"}
                               \/ g = e.name /\ e.kind = "struct"
                               \/ PreludeHas(g, {"type"})
      BY <1>1, <2>2 DEF NamesType, PreludeHas
    <2>4. NamesTypeFunction(i, g)' <=>
               \/ \E j \in N : entries[j].kind \in Functions \union {"axiom"} /\ entries[j].sig = TypeSig
               \/ \E k \in DOMAIN Prelude :
                    /\ Prelude[k].global = g /\ Prelude[k].def.sig = TypeSig
                    /\ Prelude[k].def.kind \in Functions \union {"axiom"}
      BY <2>2 DEF NamesTypeFunction
    <2>5. IsType(heap, Env, g) <=> s.kind = "type"
      BY <2>1 DEF IsType, s
    <2>6. IsTypeFunction(heap, Env, g) <=> s.kind \in Functions \union {"axiom"} /\ s.sig = TypeSig
      BY DEF IsTypeFunction, s, Functions
    <2> QED BY <2>1, <2>2, <2>3, <2>4, <2>5, <2>6 DEF s
  <1>5. ASSUME NEW d, Adds(e, d)
        PROVE  NameMayBeUsed(i)' <=> MayEmplace(T!Lookup(heap, Env, e.name), d)
    <2> DEFINE p == T!Lookup(heap, Env, e.name)
               N == Named(m, e.name)
    <2>1. Explained(m, e.name, p)
      BY EntriesAssumption DEF Known
    <2>2. NameMayBeUsed(i)' <=>
            \A j \in N : /\ e.kind \in Functions /\ entries[j].kind \in Functions
                         /\ e.sig = entries[j].sig
                         /\ ~(e.kind = "def" /\ entries[j].kind = "def")
      BY <1>1, <1>2, <1>3 DEF NameMayBeUsed
    <2> HIDE DEF p
    <2>3. /\ p # T!Undefined <=> N # {}
          /\ \A j \in N : Agree(entries[j], p)
          /\ p.kind = "def" => \E j \in N : entries[j].kind = "def"
      BY <2>1 DEF Explained, Named
    <2>4. \A j \in N : entries[j].kind \in {"typedef", "struct", "axiom", "extern", "decl", "def"}
      BY <1>1, <1>3, EntriesAssumption
    <2>5. /\ d.sig = e.sig /\ (d.kind = "decl" <=> e.kind = "decl") /\ (d.kind = "def" <=> e.kind = "def")
      BY <1>5, EntriesAssumption DEF Adds, Agree
    <2> HIDE DEF N
    <2>6. CASE p = T!Undefined
      BY <2>2, <2>3, <2>6 DEF MayEmplace, p
    <2>7. CASE p # T!Undefined
      <3>1. PICK n \in N : TRUE
        BY <2>3, <2>7
      <3>2. \A j \in N : /\ p.sig = entries[j].sig
                         /\ p.kind \in Functions <=> entries[j].kind \in Functions
                         /\ entries[j].kind = "def" => p.kind = "def"
        BY <2>3, <2>4 DEF Agree, Functions
      <3>3. CASE e.kind = "def"
        BY <2>2, <2>3, <2>5, <2>7, <3>1, <3>2, <3>3 DEF MayEmplace, p, Functions
      <3>4. CASE e.kind = "decl"
        BY <2>2, <2>3, <2>5, <2>7, <3>1, <3>2, <3>4 DEF MayEmplace, p, Functions
      <3>5. CASE e.kind \notin Functions
        BY <2>2, <2>5, <2>7, <3>1, <3>5 DEF MayEmplace, p, Functions
      <3> QED BY <3>3, <3>4, <3>5 DEF Functions
    <2> QED BY <2>6, <2>7
  <1> QED BY <1>4, <1>5

-----------------------------------------------------------------------------
(* What is asked of an entry, besides its name, is what the rules say.      *)

OtherRules(i) == TypesAreKnown(i) /\ FieldsAreComplete(i) /\ BodyIsKnown(i) /\ CallableFromC(i)

\* A new entry, seen from the environment.
Reading(m, i, e) ==
  /\ entries \in Seq(Entries) /\ m = Len(entries) /\ i = m + 1 /\ m \in Nat /\ i \in Nat
  /\ entries' = Append(entries, e)
  /\ e \in Entries /\ Known(m) /\ Environments(heap)

LEMMA SignatureRule ==
  ASSUME NEW m, NEW i, NEW e, Reading(m, i, e), e.kind # "struct"
  PROVE  ValidSignature(e) <=> TypesAreKnown(i)'
  <1>1. /\ \A g \in Globals : NamesType(i, g)' <=> IsType(heap, Env, g)
        /\ \A g \in Globals : NamesTypeFunction(i, g)' <=> IsTypeFunction(heap, Env, g)
    BY RulesSeen DEF Reading, Environments
  <1>2. entries'[i] = e
    BY DEF Reading
  <1>3. \A t \in e.types : t.name \in Globals /\ (t.shape = "call" => t.arg \in Globals)
    BY EntriesAssumption DEF Reading
  <1> QED BY <1>1, <1>2, <1>3 DEF ValidSignature, ValidType, TypesAreKnown

LEMMA PlainRules ==
  ASSUME NEW m, NEW i, NEW e, Reading(m, i, e), e.kind \notin {"struct", "def"}
  PROVE  /\ FieldsAreComplete(i)' /\ BodyIsKnown(i)'
         /\ CallableFromC(i)' <=> (e.kind = "extern" => IsCFuncType(e))
  <1>1. entries'[i] = e /\ e.body = {}
    BY EntriesAssumption DEF Reading
  <1> QED BY <1>1 DEF FieldsAreComplete, BodyIsKnown, CallableFromC, IsCFuncType

LEMMA FieldRules ==
  ASSUME NEW m, NEW i, NEW e, Reading(m, i, e), e.kind = "struct",
         T!Lookup(heap, Env, e.name) = T!Undefined
  PROVE  ValidFields(e) <=> OtherRules(i)'
  <1> DEFINE s == T!TryEmplaced(Extended(heap, Env), Len(heap) + 1, e.name, IncompleteType)
             n == Len(heap) + 1
  <1>1. /\ \A g \in Globals : NamesType(i, g)' <=> IsType(heap, Env, g) \/ g = e.name
        /\ \A g \in Globals : NamesTypeFunction(i, g)' <=> IsTypeFunction(heap, Env, g)
    BY RulesSeen DEF Reading, Environments
  <1>2. entries'[i] = e /\ e.name \in Globals /\ e.body = {}
        /\ \A t \in e.types : t.name \in Globals /\ (t.shape = "call" => t.arg \in Globals)
    BY EntriesAssumption DEF Reading
  <1>3. OneMore(heap, s, Env, e.name, IncompleteType)
    <2>1. heap \in Heap /\ Env \in DOMAIN heap
      BY DEF Reading, Environments, Heap, Env
    <2>2. IncompleteType \in Symbols /\ IncompleteType.kind # "def"
      BY DEF Symbols, IncompleteType, Symbol
    <2> QED BY <1>2, <2>1, <2>2, ExtendingByOne
  <1> HIDE DEF s
  <1>4. /\ s.ok
        /\ \A g \in Globals \ {e.name} : T!Lookup(s.heap, n, g) = T!Lookup(heap, Env, g)
        /\ T!Lookup(s.heap, n, e.name).kind = "incomplete"
    BY <1>3 DEF OneMore, MayEmplace, IncompleteType, Symbol
  <1>5. \A g \in Globals : T!Lookup(heap, Env, g).kind # "incomplete"
    BY NameFacts DEF Reading, Environments
  <1> HIDE DEF n
  <1>6. \A g \in Globals : IsType(s.heap, n, g) <=> IsType(heap, Env, g) \/ g = e.name
    BY <1>4, Zenon DEF IsType
  <1>7. \A g \in Globals : IsTypeFunction(s.heap, n, g) <=> IsTypeFunction(heap, Env, g)
    <2>1. T!Lookup(heap, Env, e.name).kind = "undefined"
      BY DEF T!Undefined
    <2> TAKE g \in Globals
    <2>2. CASE g = e.name
      BY <1>4, <2>1, <2>2 DEF IsTypeFunction
    <2>3. CASE g # e.name
      BY <1>4, <2>3 DEF IsTypeFunction
    <2> QED BY <2>2, <2>3
  <1>8. \A g \in Globals : T!Lookup(s.heap, n, g).kind = "incomplete" <=> g = e.name
    BY <1>4, <1>5, Zenon
  <1>9. ValidFields(e) <=> \A t \in e.types : ValidType(s.heap, n, t) /\ IsCompleteType(s.heap, n, t)
    BY <1>4 DEF ValidFields, s, n
  <1>10. \A t \in e.types : /\ ValidType(s.heap, n, t) <=>
                               (IF t.shape = "call" THEN NamesTypeFunction(i, t.name)' /\ NamesType(i, t.arg)'
                                                    ELSE NamesType(i, t.name)')
                            /\ IsCompleteType(s.heap, n, t) <=>
                               (t.shape \in {"global", "tuple"} => t.name # e.name)
    BY <1>1, <1>2, <1>6, <1>7, <1>8 DEF ValidType, IsCompleteType
  <1> QED BY <1>2, <1>9, <1>10
          DEF OtherRules, TypesAreKnown, FieldsAreComplete, BodyIsKnown, CallableFromC

\* The environment of the body of e.
LEMMA BodyEnvFacts ==
  ASSUME NEW m, NEW i, NEW e, Reading(m, i, e)
  PROVE  LET p == T!Lookup(heap, Env, e.name)
             n == Len(heap) + 1
             b == BodyEnv(e)
         IN  /\ b.ok <=> MayEmplace(p, Symbol("decl", e.sig, FALSE))
             /\ Keeps(heap, b.heap) /\ Len(b.heap) = n /\ n \in DOMAIN b.heap
             /\ \A g \in Globals \ {e.name} : T!Lookup(b.heap, n, g) = T!Lookup(heap, Env, g)
             /\ T!Lookup(b.heap, n, e.name) = IF p = T!Undefined THEN Symbol("decl", e.sig, FALSE) ELSE p
  <1>1. heap \in Heap /\ Env \in DOMAIN heap /\ e.name \in Globals
    BY EntriesAssumption DEF Reading, Environments, Heap, Env
  <1>2. Symbol("decl", e.sig, FALSE) \in Symbols /\ Symbol("decl", e.sig, FALSE).kind # "def"
    BY DEF Reading, Symbols, Symbol
  <1>3. OneMore(heap, BodyEnv(e), Env, e.name, Symbol("decl", e.sig, FALSE))
    BY <1>1, <1>2, ExtendingByOne DEF BodyEnv
  <1> QED BY <1>3 DEF OneMore

LEMMA BodyRules ==
  ASSUME NEW m, NEW i, NEW e, Reading(m, i, e), e.kind = "def", NameMayBeUsed(i)',
         LET p == T!Lookup(heap, Env, e.name)
         IN  p = T!Undefined \/ (p.kind = "decl" /\ p.sig = e.sig)
  PROVE  ValidSignature(e) /\ ValidBody(e) <=> OtherRules(i)'
  <1> DEFINE n == Len(heap) + 1
             b == BodyEnv(e)
             p == T!Lookup(heap, Env, e.name)
  <1>1. entries'[i] = e /\ e.name \in Globals \ PreludeNames
        /\ \A u \in e.body : u.name \in Globals /\ u.erased \in BOOLEAN
    BY EntriesAssumption DEF Reading
  <1>2. /\ b.ok
        /\ \A g \in Globals \ {e.name} : T!Lookup(b.heap, n, g) = T!Lookup(heap, Env, g)
        /\ T!Lookup(b.heap, n, e.name) # T!Undefined /\ T!Lookup(b.heap, n, e.name).kind = "decl"
    <2> DEFINE d == Symbol("decl", e.sig, FALSE)
    <2>1. d.kind = "decl" /\ d.sig = e.sig /\ d # T!Undefined
      BY DEF Symbol, T!Undefined
    <2> HIDE DEF d
    <2>2. /\ b.ok <=> MayEmplace(p, d)
          /\ \A g \in Globals \ {e.name} : T!Lookup(b.heap, n, g) = T!Lookup(heap, Env, g)
          /\ T!Lookup(b.heap, n, e.name) = IF p = T!Undefined THEN d ELSE p
      BY BodyEnvFacts DEF d
    <2> QED BY <2>1, <2>2 DEF MayEmplace, Functions
  <1> HIDE DEF n, b, p
  <1>3. /\ \A g \in Globals : T!Lookup(heap, Env, g) # T!Undefined <=> Prior(i, g)' # {} \/ g \in PreludeNames
        /\ \A g \in Globals : T!Lookup(heap, Env, g).kind = "axiom" <=>
             (\E j \in Prior(i, g)' : entries'[j].kind = "axiom") \/ PreludeHas(g, {"axiom"})
    BY RulesSeen, ZenonT(60) DEF Reading, Environments
  <1>4. /\ \A j \in Prior(i, e.name)' : entries'[j].kind # "axiom"
        /\ ~PreludeHas(e.name, {"axiom"})
    BY <1>1 DEF NameMayBeUsed, Functions, PreludeHas, PreludeNames
  <1>5. ValidBody(e) <=> \A u \in e.body : ValidUse(b.heap, n, u)
    BY <1>2 DEF ValidBody, b, n
  <1>6. ASSUME NEW u \in e.body
        PROVE  ValidUse(b.heap, n, u) <=>
                 /\ Prior(i, u.name)' # {} \/ u.name = e.name \/ u.name \in PreludeNames
                 /\ ~u.erased => /\ \A j \in Prior(i, u.name)' : entries'[j].kind # "axiom"
                                 /\ ~PreludeHas(u.name, {"axiom"})
    <2>1. CASE u.name = e.name
      BY <1>2, <1>4, <2>1 DEF ValidUse
    <2>2. CASE u.name # e.name
      BY <1>1, <1>2, <1>3, <2>2 DEF ValidUse
    <2> QED BY <2>1, <2>2
  <1>7. BodyIsKnown(i)' <=> ValidBody(e)
    <2>1. PreludeHas(e.name, {"axiom"})' = PreludeHas(e.name, {"axiom"})
      BY DEF PreludeHas
    <2>2. BodyIsKnown(i)' <=>
            \A u \in e.body :
              /\ Prior(i, u.name)' # {} \/ u.name = e.name \/ u.name \in PreludeNames
              /\ ~u.erased => /\ \A j \in Prior(i, u.name)' : entries'[j].kind # "axiom"
                              /\ ~PreludeHas(u.name, {"axiom"})
      BY <1>1 DEF BodyIsKnown, PreludeNames, PreludeHas
    <2> QED BY <1>5, <1>6, <2>2
  <1>8. FieldsAreComplete(i)' /\ CallableFromC(i)'
    BY <1>1 DEF FieldsAreComplete, CallableFromC
  <1>9. ValidSignature(e) <=> TypesAreKnown(i)'
    BY SignatureRule
  <1> QED BY <1>7, <1>8, <1>9 DEF OtherRules

-----------------------------------------------------------------------------
(* Checking an entry.                                                      *)

\* The environment after an entry was added that stands for d.
Recorded(e, d) ==
  LET p == T!Lookup(heap, Env, e.name)
  IN  /\ heap' \in Heap /\ DOMAIN heap \subseteq DOMAIN heap'
      /\ \A n \in DOMAIN heap : heap'[n].outer = heap[n].outer
      /\ T!Lookup(heap', Env, e.name) = IF p = T!Undefined \/ d.kind = "def" THEN d ELSE p
      /\ \A n \in DOMAIN heap, g \in Globals :
           \/ T!Lookup(heap', n, g) = T!Lookup(heap, n, g)
           \/ n = Env /\ g = e.name /\ p = T!Undefined
           \/ /\ g = e.name /\ T!Lookup(heap, n, g) = p /\ T!Lookup(heap', n, g) = d
              /\ p.kind = "decl" /\ d.kind = "def" /\ p.sig = d.sig

LEMMA AddingTo ==
  ASSUME heap \in Heap, Env \in DOMAIN heap, NEW h, Keeps(heap, h),
         NEW e \in Entries, NEW d \in Symbols, NEW valid \in BOOLEAN, AddTo(h, e, d, valid)
  PROVE  LET p == T!Lookup(heap, Env, e.name)
         IN  /\ entries' = Append(entries, e)
             /\ valid /\ MayEmplace(p, d) =>
                  /\ Recorded(e, d) /\ UNCHANGED status
                  /\ NowStandsFor(h, heap', Env, e.name, d)
             /\ ~(valid /\ MayEmplace(p, d)) => status' = "rejected" /\ UNCHANGED heap
  <1> DEFINE x == e.name
             p == T!Lookup(heap, Env, x)
             r == T!TryEmplaced(h, Env, x, d)
  <1>1. /\ entries' = Append(entries, e)
        /\ IF valid /\ r.ok THEN heap' = r.heap /\ UNCHANGED status
                            ELSE status' = "rejected" /\ UNCHANGED heap
    BY DEF AddTo
  <1>2. x \in Globals
    BY EntriesAssumption
  <1>3. h \in Heap /\ Env \in DOMAIN h /\ T!Lookup(h, Env, x) = p
    BY <1>2 DEF Keeps
  <1> HIDE DEF x, p, r
  <1>4. /\ r.ok \in BOOLEAN /\ (r.ok <=> MayEmplace(p, d))
        /\ r.ok => NowStandsFor(h, r.heap, Env, x, d)
    BY <1>2, <1>3, Emplacing DEF r
  <1>5. ASSUME valid, MayEmplace(p, d)
        PROVE  Recorded(e, d) /\ UNCHANGED status /\ NowStandsFor(h, heap', Env, x, d)
    <2>1. heap' = r.heap /\ UNCHANGED status /\ NowStandsFor(h, heap', Env, x, d)
      BY <1>1, <1>4, <1>5
    <2>2. /\ heap' \in Heap /\ DOMAIN heap' = DOMAIN h
          /\ \A m \in DOMAIN h : heap'[m].outer = h[m].outer
          /\ T!Lookup(heap', Env, x) = IF p = T!Undefined \/ d.kind = "def" THEN d ELSE p
          /\ \A m \in DOMAIN h, y \in Globals :
               \/ T!Lookup(heap', m, y) = T!Lookup(h, m, y)
               \/ m = Env /\ y = x /\ p = T!Undefined
               \/ /\ y = x /\ T!Lookup(h, m, y) = p /\ T!Lookup(heap', m, y) = d
                  /\ p.kind = "decl" /\ d.kind = "def" /\ p.sig = d.sig
      BY <1>3, <2>1 DEF NowStandsFor
    <2>3. /\ DOMAIN heap \subseteq DOMAIN h
          /\ \A m \in DOMAIN heap : h[m].outer = heap[m].outer
          /\ \A m \in DOMAIN heap, y \in Globals : T!Lookup(h, m, y) = T!Lookup(heap, m, y)
      BY DEF Keeps
    <2>4. ASSUME NEW n \in DOMAIN heap, NEW g \in Globals
          PROVE  \/ T!Lookup(heap', n, g) = T!Lookup(heap, n, g)
                 \/ n = Env /\ g = x /\ p = T!Undefined
                 \/ /\ g = x /\ T!Lookup(heap, n, g) = p /\ T!Lookup(heap', n, g) = d
                    /\ p.kind = "decl" /\ d.kind = "def" /\ p.sig = d.sig
      BY <2>2, <2>3
    <2>5. Recorded(e, d)
      BY <2>2, <2>3, <2>4 DEF Recorded, p, x
    <2> QED BY <2>1, <2>5
  <1>6. ASSUME ~(valid /\ MayEmplace(p, d)) PROVE status' = "rejected" /\ UNCHANGED heap
    BY <1>1, <1>4, <1>6
  <1> QED BY <1>1, <1>5, <1>6 DEF p, x

\* The rules for the entries before do not look at a new one.
LEMMA RulesKept ==
  ASSUME NEW m, NEW i, NEW e, Reading(m, i, e), NEW j \in 1..m
  PROVE  /\ Good(j)' <=> Good(j)
         /\ \A g : Prior(j, g)' = Prior(j, g)
  <1>1. entries'[j] = entries[j] /\ \A k \in 1..(j - 1) : entries'[k] = entries[k]
        /\ m \in Nat /\ j \in Nat
    BY DEF Reading
  <1>2. \A g : Prior(j, g)' = Prior(j, g) /\ Prior(j, g) \subseteq 1..(j - 1)
    BY <1>1 DEF Prior
  <1>3. \A g : \A k \in Prior(j, g) : entries'[k] = entries[k]
    BY <1>1, <1>2
  <1>4. NameMayBeUsed(j)' <=> NameMayBeUsed(j)
    BY <1>1, <1>2, <1>3 DEF NameMayBeUsed
  <1>5. \A g : (NamesType(j, g)' <=> NamesType(j, g)) /\ (NamesTypeFunction(j, g)' <=> NamesTypeFunction(j, g))
    BY <1>1, <1>2, <1>3 DEF NamesType, NamesTypeFunction, PreludeHas
  <1>6. TypesAreKnown(j)' <=> TypesAreKnown(j)
    BY <1>1, <1>5 DEF TypesAreKnown
  <1>7. FieldsAreComplete(j)' <=> FieldsAreComplete(j)
    BY <1>1 DEF FieldsAreComplete
  <1>8. BodyIsKnown(j)' <=> BodyIsKnown(j)
    BY <1>1, <1>2, <1>3 DEF BodyIsKnown, PreludeHas, PreludeNames
  <1>9. CallableFromC(j)' <=> CallableFromC(j)
    BY <1>1 DEF CallableFromC
  <1> QED BY <1>2, <1>4, <1>6, <1>7, <1>8, <1>9 DEF Good

\* An entry that is rejected leaves all as it was.
LEMMA Refusing ==
  ASSUME NEW m, NEW i, NEW e, Reading(m, i, e), UNCHANGED <<heap, decls>>,
         status' = "rejected", ~Good(i)'
  PROVE  Inv'
  <1>1. /\ entries' \in Seq(Entries) /\ entries' # <<>> /\ Len(entries') = i /\ i - 1 = m
        /\ \A j \in 1..m : entries'[j] = entries[j]
    BY DEF Reading
  <1>2. Known(m) /\ Environments(heap)
    BY DEF Reading
  <1>3. \A j \in 1..m : (Good(j)' <=> Good(j)) /\ \A g : Prior(j, g)' = Prior(j, g)
    BY RulesKept
  <1>4. Known(m)'
    <2>1. ASSUME NEW g \in Globals \ PreludeNames, NEW s, Explained(m, g, s)
          PROVE  Explained(m, g, s)'
      <3>1. \A j \in 1..m : BodySees(j, s)' <=> BodySees(j, s)
        BY <1>1, <1>3 DEF BodySees
      <3> QED BY <1>1, <2>1, <3>1 DEF Explained
    <2>2. \A g \in Globals \ PreludeNames : Explained(m, g, T!Lookup(heap, Env, g))'
      BY <1>2, <2>1 DEF Known
    <2>3. (decls = {entries[j].name : j \in {j \in 1..m : entries[j].kind = "decl" /\ ~entries[j].builtin}})'
      BY <1>1, <1>2 DEF Known
    <2>4. \A j \in 1..m : Good(j)'
      BY <1>2, <1>3 DEF Known
    <2> QED BY <2>2, <2>3, <2>4 DEF Known
  <1>5. Environments(heap)'
    BY <1>2
  <1>6. (status = "rejected" /\ entries # <<>> /\ Known(Len(entries) - 1) /\ ~Good(Len(entries)))'
    BY <1>1, <1>4
  <1> QED BY <1>1, <1>5, <1>6 DEF Inv, Judged

\* An entry that is accepted is explained by the environment it leaves.
LEMMA Accepting ==
  ASSUME NEW m, NEW i, NEW e, Reading(m, i, e), NEW d, Adds(e, d), d.kind = "decl" => d.builtin = e.builtin,
         Recorded(e, d), MayEmplace(T!Lookup(heap, Env, e.name), d),
         status = "open", UNCHANGED status, Good(i)', d.kind = "def" => BodySees(i, d)',
         decls' = IF e.kind = "decl" /\ ~e.builtin THEN decls \union {e.name} ELSE decls
  PROVE  Inv'
  <1> DEFINE p == T!Lookup(heap, Env, e.name)
  <1>1. /\ entries' \in Seq(Entries) /\ Len(entries') = i /\ entries'[i] = e
        /\ 1..i = (1..m) \union {i} /\ i \notin 1..m
        /\ \A j \in 1..m : entries'[j] = entries[j]
    BY DEF Reading
  <1>2. e.name \in Globals \ PreludeNames /\ Known(m) /\ Environments(heap)
        /\ \A j \in 1..m : entries[j].kind \in {"typedef", "struct", "axiom", "extern", "decl", "def"}
    <2>1. \A j \in 1..m : entries[j] \in Entries
      BY DEF Reading
    <2> QED BY <2>1, EntriesAssumption DEF Reading
  <1>3. /\ heap' \in Heap /\ DOMAIN heap \subseteq DOMAIN heap'
        /\ \A n \in DOMAIN heap : heap'[n].outer = heap[n].outer
        /\ T!Lookup(heap', Env, e.name) = IF p = T!Undefined \/ d.kind = "def" THEN d ELSE p
        /\ \A n \in DOMAIN heap, g \in Globals :
             \/ T!Lookup(heap', n, g) = T!Lookup(heap, n, g)
             \/ n = Env /\ g = e.name /\ p = T!Undefined
             \/ /\ g = e.name /\ T!Lookup(heap, n, g) = p /\ T!Lookup(heap', n, g) = d
                /\ p.kind = "decl" /\ d.kind = "def" /\ p.sig = d.sig
    BY DEF Recorded
  <1>4. Env \in DOMAIN heap /\ BaseEnv \in DOMAIN heap /\ Env # BaseEnv
    BY <1>2 DEF Environments, Heap, Env, BaseEnv
  <1>5. T!Undefined.kind = "undefined" /\ d # T!Undefined
    BY SymbolKinds DEF T!Undefined, Adds
  <1>6. \A j \in 1..m : (Good(j)' <=> Good(j)) /\ \A g : Prior(j, g)' = Prior(j, g)
    BY RulesKept
  <1>7. Explained(m, e.name, p)
    BY <1>2 DEF Known
  <1> HIDE DEF p
  <1>8. Environments(heap)'
    <2>1. Len(heap') >= Env /\ heap'[BaseEnv].outer = <<>>
      <3>1. Env \in 1..Len(heap') /\ Len(heap') \in Nat
        BY <1>3, <1>4 DEF Heap
      <3> QED BY <1>2, <1>3, <1>4, <3>1 DEF Environments
    <2>2. \A k \in DOMAIN Prelude : Prelude[k].global \in Globals \ {e.name}
      BY <1>2, PreludeFacts
    <2>3. \A n \in {BaseEnv, Env} : \A k \in DOMAIN Prelude :
            T!Lookup(heap', n, Prelude[k].global) = Prelude[k].def
      BY <1>2, <1>3, <1>4, <2>2 DEF Environments, HasPrelude
    <2>4. \A g \in Globals \ PreludeNames : T!Lookup(heap', BaseEnv, g) = T!Undefined
      BY <1>2, <1>3, <1>4, <1>5 DEF Environments, HasPrelude
    <2> QED BY <1>3, <1>4, <2>1, <2>3, <2>4 DEF Environments, HasPrelude
  \* What a body sees has been there before, whatever becomes of it.
  <1>9. ASSUME NEW j \in 1..m, entries[j].kind = "def", NEW s, BodySees(j, s)
        PROVE  BodySees(j, s)'
    <2>1. s.env \in DOMAIN heap /\ s.env # Env /\ s.env # BaseEnv
      BY <1>9 DEF BodySees
    <2>2. entries[j].name = e.name => p.kind # "decl"
      BY <1>7, <1>9 DEF Explained, Agree
    <2>3. ASSUME NEW g \in Globals, T!Lookup(heap', s.env, g) # T!Undefined
          PROVE  \/ g \in PreludeNames
                 \/ Prior(j, g) # {}
                 \/ g = entries[j].name /\ T!Lookup(heap', s.env, g).kind = "decl"
      <3>1. CASE T!Lookup(heap', s.env, g) = T!Lookup(heap, s.env, g)
        BY <1>9, <2>3, <3>1 DEF BodySees
      <3>2. CASE g = e.name /\ T!Lookup(heap, s.env, g) = p /\ p.kind = "decl"
        BY <1>5, <1>9, <2>2, <3>2 DEF BodySees
      <3> QED BY <1>3, <2>1, <3>1, <3>2
    <2> QED BY <1>1, <1>3, <1>6, <2>1, <2>3 DEF BodySees
  <1>10. ASSUME NEW g \in Globals \ PreludeNames, NEW s, s = T!Lookup(heap, Env, g),
                NEW t, t = T!Lookup(heap', Env, g)
         PROVE  Explained(i, g, t)'
    <2>1. /\ s = T!Undefined => \A j \in 1..m : entries'[j].name # g
          /\ s # T!Undefined => \E j \in 1..m : entries'[j].name = g
          /\ \A j \in 1..m : entries'[j].name = g => Agree(entries'[j], s)
          /\ s.kind = "def" =>
               \E j \in 1..m : entries'[j].name = g /\ entries'[j].kind = "def" /\ BodySees(j, s)'
          /\ s.kind = "decl" /\ ~s.builtin =>
               \E j \in 1..m : entries'[j].name = g /\ entries'[j].kind = "decl" /\ ~entries'[j].builtin
      <3>1. Explained(m, g, s)
        BY <1>2, <1>10 DEF Known
      <3>2. s.kind = "def" =>
               \E j \in 1..m : entries'[j].name = g /\ entries'[j].kind = "def" /\ BodySees(j, s)'
        <4>1. s.kind = "def" =>
                \E j \in 1..m : entries[j].name = g /\ entries[j].kind = "def" /\ BodySees(j, s)
          BY <3>1 DEF Explained
        <4> QED BY <1>1, <1>9, <4>1
      <3> QED BY <1>1, <3>1, <3>2 DEF Explained
    <2>2. CASE g # e.name
      <3>1. t = s
        BY <1>3, <1>4, <1>10, <2>2
      <3> QED BY <1>1, <2>1, <2>2, <3>1 DEF Explained
    <2>3. CASE g = e.name
      <3>1. t = (IF s = T!Undefined \/ d.kind = "def" THEN d ELSE s) /\ MayEmplace(s, d) /\ Agree(e, d)
        BY <1>3, <1>10, <2>3 DEF p, Adds
      <3>2. e.kind \in {"typedef", "struct", "axiom", "extern", "decl", "def"} /\ (e.kind = "decl" => d.kind = "decl")
        BY EntriesAssumption DEF Reading, Adds
      <3>3. d.kind = "decl" => e.kind = "decl" /\ d.builtin = e.builtin
        BY <3>1, <3>2 DEF Agree
      <3>4. d.kind = "def" => e.kind = "def" /\ BodySees(i, d)'
        BY <3>1, <3>2 DEF Agree
      <3>5. \A j \in 1..m : entries'[j].kind \in {"typedef", "struct", "axiom", "extern", "decl", "def"}
        BY <1>1, <1>2
      <3>6. CASE s = T!Undefined
        <4>1. t = d /\ \A j \in 1..m : entries'[j].name # g
          BY <2>1, <3>1, <3>6
        <4> QED BY <1>1, <1>5, <2>3, <3>1, <3>3, <3>4, <4>1 DEF Explained
      <3>7. CASE s # T!Undefined /\ d.kind = "def"
        <4>1. t = d /\ s.kind = "decl" /\ s.sig = d.sig
          BY <3>1, <3>7 DEF MayEmplace
        <4>2. \A j \in 1..m : entries'[j].name = g => Agree(entries'[j], d)
          BY <2>1, <3>5, <3>7, <4>1 DEF Agree, Functions
        <4> QED BY <1>1, <1>5, <2>3, <3>1, <3>4, <3>7, <4>1, <4>2 DEF Explained
      <3>8. CASE s # T!Undefined /\ d.kind # "def"
        <4>1. t = s /\ s.kind \in Functions /\ d.kind = "decl" /\ s.sig = d.sig
          BY <3>1, <3>8 DEF MayEmplace
        <4>2. Agree(e, s)
          BY <3>1, <3>3, <4>1 DEF Agree
        <4> QED BY <1>1, <2>1, <2>3, <3>8, <4>1, <4>2 DEF Explained
      <3> QED BY <3>6, <3>7, <3>8
    <2> QED BY <2>2, <2>3
  <1>11. Known(i)'
    <2>1. \A j \in 1..i : Good(j)'
      BY <1>1, <1>2, <1>6 DEF Known
    <2>2. (decls = {entries[j].name : j \in {j \in 1..i : entries[j].kind = "decl" /\ ~entries[j].builtin}})'
      <3>1. decls = {entries[j].name : j \in {j \in 1..m : entries[j].kind = "decl" /\ ~entries[j].builtin}}
        BY <1>2 DEF Known
      <3>2. decls = {entries'[j].name : j \in {j \in 1..m : entries'[j].kind = "decl" /\ ~entries'[j].builtin}}
        BY <1>1, <3>1
      <3>3. CASE e.kind = "decl" /\ ~e.builtin
        <4>1. {j \in 1..i : entries'[j].kind = "decl" /\ ~entries'[j].builtin}
                = {j \in 1..m : entries'[j].kind = "decl" /\ ~entries'[j].builtin} \union {i}
          BY <1>1, <3>3
        <4> QED BY <1>1, <3>2, <3>3, <4>1
      <3>4. CASE ~(e.kind = "decl" /\ ~e.builtin)
        <4>1. {j \in 1..i : entries'[j].kind = "decl" /\ ~entries'[j].builtin}
                = {j \in 1..m : entries'[j].kind = "decl" /\ ~entries'[j].builtin}
          BY <1>1, <3>4
        <4> QED BY <3>2, <3>4, <4>1
      <3> QED BY <3>3, <3>4
    <2>3. \A g \in Globals \ PreludeNames : Explained(i, g, T!Lookup(heap, Env, g))'
      BY <1>10 DEF Explained
    <2> QED BY <2>1, <2>2, <2>3 DEF Known
  <1> QED BY <1>1, <1>8, <1>11 DEF Inv, Judged

\* An entry is accepted if it obeys the rules, and only then.
LEMMA Deciding ==
  ASSUME NEW m, NEW i, NEW e, Reading(m, i, e), NEW d, Adds(e, d), d.kind = "decl" => d.builtin = e.builtin,
         status = "open", NEW valid \in BOOLEAN, NEW h, Keeps(heap, h), AddTo(h, e, d, valid),
         decls' = IF status' = "open" /\ e.kind = "decl" /\ ~e.builtin THEN decls \union {e.name} ELSE decls,
         MayEmplace(T!Lookup(heap, Env, e.name), d) => (valid <=> OtherRules(i)'),
         d.kind = "def" /\ NowStandsFor(h, heap', Env, e.name, d) => BodySees(i, d)'
  PROVE  Inv'
  <1> DEFINE p == T!Lookup(heap, Env, e.name)
  <1>1. heap \in Heap /\ Env \in DOMAIN heap /\ e \in Entries /\ d \in Symbols
    BY DEF Reading, Environments, Heap, Env, Adds
  <1>2. /\ valid /\ MayEmplace(p, d) =>
             Recorded(e, d) /\ UNCHANGED status /\ NowStandsFor(h, heap', Env, e.name, d)
        /\ ~(valid /\ MayEmplace(p, d)) => status' = "rejected" /\ UNCHANGED heap
    BY <1>1, AddingTo
  <1>3. NameMayBeUsed(i)' <=> MayEmplace(p, d)
    BY RulesSeen DEF Reading, Environments
  <1>4. Good(i)' <=> valid /\ MayEmplace(p, d)
    BY <1>3 DEF Good, OtherRules
  <1>5. CASE valid /\ MayEmplace(p, d)
    BY <1>2, <1>4, <1>5, Accepting
  <1>6. CASE ~(valid /\ MayEmplace(p, d))
    BY <1>2, <1>4, <1>6, Refusing
  <1> QED BY <1>5, <1>6

\* What a body sees when it is checked.
LEMMA OwnBody ==
  ASSUME NEW m, NEW i, NEW e, Reading(m, i, e), NEW n, n = Len(heap) + 1, NEW d, d = Definition(e, n),
         NowStandsFor(BodyEnv(e).heap, heap', Env, e.name, d)
  PROVE  BodySees(i, d)'
  <1> DEFINE p == T!Lookup(heap, Env, e.name)
             h == BodyEnv(e).heap
  <1>1. /\ d.env = n /\ entries'[i] = e /\ e.name \in Globals \ PreludeNames
        /\ Len(heap) \in Nat /\ Len(heap) >= 2 /\ n \notin {BaseEnv, Env} /\ Env \in DOMAIN heap
    BY EntriesAssumption DEF Reading, Environments, Heap, Definition, BaseEnv, Env
  <1>2. /\ Keeps(heap, h) /\ n \in DOMAIN h
        /\ \A g \in Globals \ {e.name} : T!Lookup(h, n, g) = T!Lookup(heap, Env, g)
        /\ T!Lookup(h, n, e.name) = IF p = T!Undefined THEN Symbol("decl", e.sig, FALSE) ELSE p
    BY BodyEnvFacts
  <1> HIDE DEF h
  <1>3. T!Lookup(h, Env, e.name) = p
    BY <1>1, <1>2 DEF Keeps
  <1>4. /\ DOMAIN heap' = DOMAIN h
        /\ \A g \in Globals : \/ T!Lookup(heap', n, g) = T!Lookup(h, n, g)
                              \/ g = e.name /\ p.kind = "decl"
    BY <1>1, <1>2, <1>3 DEF NowStandsFor, h
  <1>5. \A g \in Globals : T!Lookup(heap, Env, g) # T!Undefined <=> Prior(i, g)' # {} \/ g \in PreludeNames
    BY RulesSeen DEF Reading, Environments
  <1>6. T!Undefined.kind = "undefined" /\ Symbol("decl", e.sig, FALSE).kind = "decl"
    BY DEF T!Undefined, Symbol
  <1> HIDE DEF p
  <1>7. ASSUME NEW g \in Globals, T!Lookup(heap', n, g) # T!Undefined
        PROVE  \/ g \in PreludeNames
               \/ Prior(i, g)' # {}
               \/ g = e.name /\ T!Lookup(heap', n, g).kind = "decl"
    <2>1. CASE g # e.name
      BY <1>2, <1>4, <1>5, <1>7, <2>1
    <2>2. CASE g = e.name /\ p # T!Undefined
      BY <1>5, <2>2 DEF p
    <2>3. CASE g = e.name /\ p = T!Undefined
      BY <1>2, <1>4, <1>6, <2>3
    <2> QED BY <2>1, <2>2, <2>3
  <1> QED BY <1>1, <1>2, <1>4, <1>7 DEF BodySees

LEMMA CheckEntrySound == Inv /\ CheckEntry => Inv'
  <1> SUFFICES ASSUME Inv, status = "open", NEW e \in Entries,
                      \/ CheckInteger(e) \/ CheckStruct(e) \/ CheckAxiom(e)
                      \/ CheckExternDecl(e) \/ CheckFuncDecl(e) \/ CheckFuncDef(e)
               PROVE  Inv'
    BY DEF CheckEntry
  <1>1. PICK m \in Nat, i \in Nat : m = Len(entries) /\ i = m + 1
    BY DEF Inv
  <1>2. entries' = Append(entries, e)
    BY DEF CheckInteger, CheckStruct, CheckAxiom, CheckExternDecl, CheckFuncDecl, CheckFuncDef, Add, AddTo
  <1>3. Reading(m, i, e)
    BY <1>1, <1>2 DEF Reading, Inv, Judged
  <1>4. heap \in Heap /\ Env \in DOMAIN heap /\ Keeps(heap, heap)
    BY DEF Inv, Environments, Heap, Env, Keeps
  <1> DEFINE p == T!Lookup(heap, Env, e.name)
             d == SymbolOf(e)
  <1>5. e.kind # "def" => Adds(e, d) /\ d.builtin = e.builtin /\ d.kind # "def"
    BY EntriesAssumption DEF Adds, Agree, Symbols, SymbolOf, Symbol, Functions
  <1>6. ASSUME e.kind \notin {"struct", "def"}
        PROVE  OtherRules(i)' <=> ValidSignature(e) /\ (e.kind = "extern" => IsCFuncType(e))
    BY <1>3, <1>6, SignatureRule, PlainRules DEF OtherRules
  <1>7. CASE CheckInteger(e)
    <2>1. e.kind = "typedef" /\ AddTo(heap, e, d, TRUE) /\ decls' = decls /\ e.types = {}
      BY <1>7, EntriesAssumption DEF CheckInteger, Add
    <2>2. OtherRules(i)'
      BY <1>6, <2>1 DEF ValidSignature
    <2> HIDE DEF d
    <2> QED BY <1>3, <1>4, <1>5, <2>1, <2>2, Deciding
  <1>8. CASE CheckStruct(e)
    <2>1. e.kind = "struct" /\ AddTo(heap, e, d, ValidFields(e)) /\ decls' = decls
      BY <1>8 DEF CheckStruct, Add
    <2>2. MayEmplace(p, d) => p = T!Undefined
      BY <2>1 DEF MayEmplace, SymbolOf, Symbol
    <2>3. MayEmplace(p, d) => (ValidFields(e) <=> OtherRules(i)')
      BY <1>3, <2>1, <2>2, FieldRules
    <2>4. ValidFields(e) \in BOOLEAN
      BY DEF ValidFields
    <2> HIDE DEF d
    <2> QED BY <1>3, <1>4, <1>5, <2>1, <2>3, <2>4, Deciding
  <1>9. CASE CheckAxiom(e)
    <2>1. e.kind = "axiom" /\ AddTo(heap, e, d, ValidSignature(e)) /\ decls' = decls
      BY <1>9 DEF CheckAxiom, Add
    <2>2. ValidSignature(e) <=> OtherRules(i)'
      BY <1>6, <2>1
    <2>3. ValidSignature(e) \in BOOLEAN
      BY DEF ValidSignature
    <2> HIDE DEF d
    <2> QED BY <1>3, <1>4, <1>5, <2>1, <2>2, <2>3, Deciding
  <1>10. CASE CheckExternDecl(e)
    <2> DEFINE valid == IsCFuncType(e) /\ ValidSignature(e)
    <2>1. e.kind = "extern" /\ AddTo(heap, e, d, valid) /\ decls' = decls
      BY <1>10 DEF CheckExternDecl, Add
    <2>2. (valid <=> OtherRules(i)') /\ valid \in BOOLEAN
      BY <1>6, <2>1
    <2> HIDE DEF d, valid
    <2> QED BY <1>3, <1>4, <1>5, <2>1, <2>2, Deciding
  <1>11. CASE CheckFuncDecl(e)
    <2>1. e.kind = "decl" /\ AddTo(heap, e, d, ValidSignature(e))
          /\ decls' = IF status' = "open" /\ e.kind = "decl" /\ ~e.builtin
                      THEN decls \union {e.name} ELSE decls
      BY <1>11 DEF CheckFuncDecl, Add
    <2>2. ValidSignature(e) <=> OtherRules(i)'
      BY <1>6, <2>1
    <2>3. ValidSignature(e) \in BOOLEAN
      BY DEF ValidSignature
    <2> HIDE DEF d
    <2> QED BY <1>3, <1>4, <1>5, <2>1, <2>2, <2>3, Deciding
  <1>12. CASE CheckFuncDef(e)
    <2>1. PICK n : n = Len(heap) + 1
      OBVIOUS
    <2>2. PICK f : f = Definition(e, n)
      OBVIOUS
    <2> DEFINE valid == ValidSignature(e) /\ ValidBody(e)
               h == BodyEnv(e).heap
    <2>3. e.kind = "def" /\ AddTo(h, e, f, valid) /\ decls' = decls
      BY <1>12, <2>1, <2>2 DEF CheckFuncDef
    <2>4. Adds(e, f) /\ f.kind = "def" /\ f.sig = e.sig
      <3>1. f.kind = "def" /\ f.sig = e.sig
        BY <2>2 DEF Definition
      <3>2. f \in Symbols
        <4>1. n \in Nat
          BY <1>4, <2>1 DEF Heap
        <4>2. f \in {Definition(e, k) : k \in Nat}
          BY <2>2, <4>1
        <4>3. f \in UNION {{Definition(g, k) : k \in Nat} : g \in Entries}
          BY <4>2
        <4> QED BY <4>3 DEF Symbols
      <3> QED BY <2>3, <3>1, <3>2 DEF Adds, Agree
    <2>5. Keeps(heap, h)
      BY <1>3, BodyEnvFacts
    <2>6. MayEmplace(p, f) => (valid <=> OtherRules(i)')
      <3> SUFFICES ASSUME MayEmplace(p, f) PROVE valid <=> OtherRules(i)'
        OBVIOUS
      <3>1. NameMayBeUsed(i)'
        BY <1>1, <1>3, <2>4, RulesSeen DEF Reading, Environments
      <3>2. p = T!Undefined \/ (p.kind = "decl" /\ p.sig = e.sig)
        BY <2>4 DEF MayEmplace
      <3> QED BY <1>3, <2>3, <3>1, <3>2, BodyRules
    <2>7. NowStandsFor(h, heap', Env, e.name, f) => BodySees(i, f)'
      BY <1>3, <2>1, <2>2, OwnBody
    <2>8. valid \in BOOLEAN
      OBVIOUS
    <2> HIDE DEF valid, h
    <2> QED BY <1>3, <2>3, <2>4, <2>5, <2>6, <2>7, <2>8, Deciding
  <1> QED BY <1>7, <1>8, <1>9, <1>10, <1>11, <1>12

\* The invariant: the environment explains every entry, and the verdict is the
\* rules' verdict.
THEOREM EnvironmentExplains == Spec => []Inv
  <1>1. Inv /\ [Next]_vars => Inv'
    <2> SUFFICES ASSUME Inv, [Next]_vars PROVE Inv'
      OBVIOUS
    <2>1. CASE Next
      BY <2>1, CheckEntrySound, EndModuleSound, NextModuleSound DEF Next
    <2>2. CASE UNCHANGED vars
      <3>1. UNCHANGED <<heap, entries, decls, status>>
        BY <2>2 DEF vars
      <3>2. \A k : Good(k)' <=> Good(k)
        BY <3>1 DEF Good, NameMayBeUsed, TypesAreKnown, NamesType, NamesTypeFunction, PreludeHas,
                    FieldsAreComplete, BodyIsKnown, CallableFromC, Prior
      <3>3. \A k : Known(k)' <=> Known(k)
        BY <3>1, <3>2 DEF Known, Explained, BodySees, Prior
      <3>4. DeclaredIsDefined' <=> DeclaredIsDefined
        BY <3>1 DEF DeclaredIsDefined
      <3> QED BY <3>1, <3>2, <3>3, <3>4 DEF Inv, Judged
    <2> QED BY <2>1, <2>2
  <1> QED BY <1>1, InitSound, PTL DEF Spec

-----------------------------------------------------------------------------
(* The properties.                                                         *)

\* A module is accepted if and only if it obeys the rules (RulesDecide):
\* check() decides as it reads, ModuleRules of the entries alone.
THEOREM VerdictFollowsRules == Spec => []RulesDecide
  <1>1. Inv => RulesDecide
    <2> SUFFICES ASSUME Inv, status # "open"
                 PROVE  status = "accepted" <=> EveryEntryIsGood /\ DeclaredIsDefined
      BY DEF RulesDecide
    <2>1. /\ DOMAIN entries = 1..Len(entries)
          /\ entries # <<>> => Len(entries) \in 1..Len(entries)
      BY DEF Inv
    <2>2. EveryEntryIsGood <=> \A i \in 1..Len(entries) : Good(i)
      BY <2>1 DEF EveryEntryIsGood, Good
    <2>3. Known(Len(entries)) => EveryEntryIsGood
      BY <2>2 DEF Known
    <2> QED BY <2>1, <2>2, <2>3 DEF Inv, Judged
  <1> QED BY <1>1, EnvironmentExplains, PTL

\* What an accepted module names at run-time is defined, extern, builtin or a
\* type (RuntimeIsDefined).
THEOREM RuntimeNamesAreDefined == Spec => []RuntimeIsDefined
  <1>1. Inv => RuntimeIsDefined
    <2> SUFFICES ASSUME Inv, status = "accepted", NEW i \in DOMAIN entries,
                        NEW u \in {u \in entries[i].body : ~u.erased}
                 PROVE  LET s == T!Lookup(heap, Env, u.name)
                        IN  s.kind \in {"def", "extern", "type"} \/ (s.kind = "decl" /\ s.builtin)
      BY DEF RuntimeIsDefined
    <2> DEFINE g == u.name
               s == T!Lookup(heap, Env, g)
    <2>1. PICK m \in Nat : m = Len(entries)
      BY DEF Inv
    <2>2. /\ Known(m) /\ DeclaredIsDefined /\ Environments(heap) /\ i \in 1..m /\ DOMAIN entries = 1..m
          /\ \A j \in 1..m : entries[j] \in Entries
      BY <2>1 DEF Inv, Judged
    <2>3. /\ g \in Globals /\ ~u.erased /\ entries[i].kind = "def" /\ entries[i].name \in Globals \ PreludeNames
      BY <2>2, EntriesAssumption
    <2>4. /\ Prior(i, g) # {} \/ g = entries[i].name \/ g \in PreludeNames
          /\ \A j \in Prior(i, g) : entries[j].kind # "axiom"
          /\ ~PreludeHas(g, {"axiom"})
      BY <2>2, <2>3 DEF Known, Good, BodyIsKnown
    <2>5. CASE g \in PreludeNames
      <3>1. PICK k \in DOMAIN Prelude : Prelude[k].global = g
        BY <2>5 DEF PreludeNames
      <3>2. s = Prelude[k].def
        BY <2>2, <3>1 DEF Environments, HasPrelude
      <3>3. s.kind \in {"type", "axiom", "decl", "def"} /\ (s.kind = "decl" => s.builtin)
        BY <3>2, PreludeAssumption
      <3>4. s.kind # "axiom"
        BY <2>4, <3>1, <3>2 DEF PreludeHas
      <3> QED BY <3>3, <3>4
    <2>6. CASE g \notin PreludeNames
      <3>1. Explained(m, g, s)
        BY <2>2, <2>3, <2>6 DEF Known
      <3>2. PICK j \in 1..m : entries[j].name = g /\ entries[j].kind # "axiom"
        BY <2>2, <2>3, <2>4, <2>6 DEF Prior
      <3> HIDE DEF g, s
      <3>3. Agree(entries[j], s)
        BY <3>1, <3>2 DEF Explained
      <3>4. s.kind \in {"type", "extern", "decl", "def"}
        BY <2>2, <3>2, <3>3, EntriesAssumption DEF Agree, Functions
      <3>5. ASSUME s.kind = "decl", ~s.builtin PROVE FALSE
        <4>1. PICK k \in 1..m : entries[k].name = g /\ entries[k].kind = "decl" /\ ~entries[k].builtin
          BY <3>1, <3>5 DEF Explained
        <4>2. PICK l \in 1..m : entries[l].name = g /\ entries[l].kind = "def"
          BY <2>2, <4>1 DEF DeclaredIsDefined
        <4>3. Agree(entries[l], s)
          BY <3>1, <4>2 DEF Explained
        <4> QED BY <3>5, <4>2, <4>3 DEF Agree
      <3>6. s.kind \in {"def", "extern", "type"} \/ (s.kind = "decl" /\ s.builtin)
        BY <3>4, <3>5
      <3> QED BY <3>6 DEF s, g
    <2> QED BY <2>5, <2>6
  <1> QED BY <1>1, EnvironmentExplains, PTL

\* No value of an accepted struct contains another of its own type
\* (WrittenStructsAreFinite): of structs that hold each other, the one written
\* first would have a field whose type is not known yet.
THEOREM StructsAreFinite == Spec => []WrittenStructsAreFinite
  <1>1. Inv => WrittenStructsAreFinite
    <2> SUFFICES ASSUME Inv, status = "accepted", NEW loop \in (SUBSET Globals) \ {{}}
                 PROVE  \E s \in loop : HeldBy(s) \intersect loop = {}
      BY DEF WrittenStructsAreFinite
    <2> DEFINE Structs == {i \in DOMAIN entries : entries[i].kind = "struct" /\ entries[i].name \in loop}
    <2>1. /\ DOMAIN entries = 1..Len(entries) /\ Len(entries) \in Nat
          /\ \A i \in DOMAIN entries : entries[i] \in Entries /\ Good(i)
      BY DEF Inv, Judged, Known
    <2>2. CASE \E s \in loop : \A i \in DOMAIN entries : ~(entries[i].kind = "struct" /\ entries[i].name = s)
      <3>1. PICK s \in loop : \A i \in DOMAIN entries : ~(entries[i].kind = "struct" /\ entries[i].name = s)
        BY <2>2
      <3>2. HeldBy(s) = {}
        BY <3>1 DEF HeldBy
      <3> QED BY <3>2
    <2>3. CASE \A s \in loop : \E i \in DOMAIN entries : entries[i].kind = "struct" /\ entries[i].name = s
      <3>1. PICK i \in Structs : \A j \in Structs : i <= j
        <4>1. PICK s \in loop : TRUE
          OBVIOUS
        <4>2. Structs \in SUBSET Nat /\ Structs # {}
          BY <2>1, <2>3, <4>1
        <4> HIDE DEF Structs
        <4> QED BY <4>2, L!LeastOf
      <3> DEFINE s == entries[i].name
      <3>2. i \in DOMAIN entries /\ i \in Nat /\ entries[i].kind = "struct" /\ s \in loop
        BY <2>1
      \* A name that stands for a struct stands for nothing else.
      <3>3. ASSUME NEW j \in DOMAIN entries, NEW k \in DOMAIN entries,
                   entries[j].kind = "struct", entries[j].name = entries[k].name
            PROVE  j = k
        <4>1. CASE j < k
          <5>1. j \in Prior(k, entries[k].name)
            BY <2>1, <3>3, <4>1 DEF Prior
          <5>2. entries[j].kind \in Functions
            BY <2>1, <5>1 DEF Good, NameMayBeUsed
          <5> QED BY <3>3, <5>2 DEF Functions
        <4>2. CASE k < j
          <5>1. k \in Prior(j, entries[j].name)
            BY <2>1, <3>3, <4>2 DEF Prior
          <5>2. entries[j].kind \in Functions
            BY <2>1, <5>1 DEF Good, NameMayBeUsed
          <5> QED BY <3>3, <5>2 DEF Functions
        <4> QED BY <2>1, <4>1, <4>2
      <3>4. ASSUME NEW x \in HeldBy(s), x \in loop PROVE FALSE
        <4>1. PICK k \in DOMAIN entries : /\ entries[k].kind = "struct" /\ entries[k].name = s
                                          /\ \E t \in entries[k].types : x \in HeldByValue(t)
          BY <3>4 DEF HeldBy
        <4>2. PICK t \in entries[i].types : x \in HeldByValue(t)
          BY <3>2, <3>3, <4>1
        <4>3. t.shape \in {"global", "tuple"} /\ t.name = x
          BY <4>2 DEF HeldByValue
        <4>4. x # s
          BY <2>1, <3>2, <4>3 DEF Good, FieldsAreComplete
        <4>5. NamesType(i, x)
          BY <2>1, <3>2, <4>3 DEF Good, TypesAreKnown
        <4>6. PICK l \in DOMAIN entries : entries[l].kind = "struct" /\ entries[l].name = x
          BY <2>3, <3>4
        <4>7. x \notin PreludeNames
          BY <2>1, <4>6, EntriesAssumption
        <4>8. Prior(i, x) # {}
          BY <4>4, <4>5, <4>7 DEF NamesType, PreludeHas, PreludeNames
        <4>9. PICK j \in 1..(i - 1) : entries[j].name = x
          BY <4>8 DEF Prior
        <4>10. j \in DOMAIN entries /\ j < i
          BY <2>1, <3>2, <4>9
        <4>11. l = j
          BY <3>3, <4>6, <4>9, <4>10
        <4>12. j \in Structs
          BY <3>4, <4>6, <4>10, <4>11
        <4> QED BY <2>1, <3>1, <3>2, <4>10, <4>12
      <3> QED BY <3>2, <3>4
    <2> QED BY <2>2, <2>3
  <1> QED BY <1>1, EnvironmentExplains, PTL

\* Unfolding calls ends but for functions that were declared before they were
\* defined (UnfoldingEnds): of functions that call each other, the body of the
\* one defined first was checked where the others were unknown.
THEOREM UnfoldingIsFinite == Spec => []UnfoldingEnds
  <1>1. Inv => UnfoldingEnds
    <2> SUFFICES ASSUME Inv, NEW loop \in (SUBSET {g \in Defined : ~DeclaredBefore(g)}) \ {{}}
                 PROVE  \E g \in loop : Unfolded(T!Lookup(heap, Env, g)) \intersect loop = {}
      BY DEF UnfoldingEnds
    <2>1. PICK m \in Nat : Known(m) /\ 1..m \subseteq DOMAIN entries
      <3>1. Len(entries) \in Nat /\ DOMAIN entries = 1..Len(entries)
            /\ (entries # <<>> => Len(entries) - 1 \in Nat)
        BY DEF Inv
      <3>2. CASE Known(Len(entries))
        BY <3>1, <3>2
      <3>3. CASE entries # <<>> /\ Known(Len(entries) - 1)
        <4>1. 1..(Len(entries) - 1) \subseteq DOMAIN entries
          BY <3>1
        <4> QED BY <3>1, <3>3, <4>1
      <3> QED BY <3>2, <3>3 DEF Inv, Judged
    <2>2. \A g \in loop : g \in Globals /\ T!Lookup(heap, Env, g).kind = "def" /\ ~DeclaredBefore(g)
      BY DEF Defined
    <2>3. Environments(heap) /\ \A j \in 1..m : entries[j] \in Entries /\ Good(j)
      BY <2>1 DEF Inv, Known
    <2>4. CASE \E g \in loop : g \in PreludeNames
      <3>1. PICK k \in DOMAIN Prelude : Prelude[k].global \in loop
        BY <2>4 DEF PreludeNames
      <3> DEFINE s == T!Lookup(heap, Env, Prelude[k].global)
      <3>2. s = Prelude[k].def /\ s.kind = "def"
        BY <2>2, <2>3, <3>1 DEF Environments, HasPrelude
      <3>3. s.calls = {}
        BY <3>2, PreludeAssumption
      <3>4. Unfolded(s) = {}
        BY <3>3 DEF Unfolded
      <3> QED BY <3>1, <3>4
    <2>5. CASE \A g \in loop : g \notin PreludeNames
      <3> DEFINE Defs == {j \in 1..m : /\ entries[j].name \in loop /\ entries[j].kind = "def"
                                       /\ BodySees(j, T!Lookup(heap, Env, entries[j].name))}
      <3>1. \A g \in loop : \E j \in Defs : entries[j].name = g
        <4> TAKE g \in loop
        <4>1. Explained(m, g, T!Lookup(heap, Env, g))
          BY <2>1, <2>2, <2>5 DEF Known
        <4>2. PICK j \in 1..m : /\ entries[j].name = g /\ entries[j].kind = "def"
                                /\ BodySees(j, T!Lookup(heap, Env, g))
          BY <2>2, <4>1 DEF Explained
        <4> QED BY <4>2
      \* The definition is the first that is read of a function in the loop.
      <3>2. \A j \in Defs : Prior(j, entries[j].name) = {}
        <4> SUFFICES ASSUME NEW j \in Defs, NEW k \in Prior(j, entries[j].name) PROVE FALSE
          OBVIOUS
        <4>1. j \in 1..m /\ k \in 1..(j - 1) /\ entries[k].name = entries[j].name
              /\ entries[j].kind = "def" /\ entries[j].name \in loop
          BY DEF Prior
        <4>2. entries[k].kind \in Functions /\ entries[k].kind # "def"
          BY <2>3, <4>1 DEF Good, NameMayBeUsed
        <4>3. entries[k].kind = "decl"
          BY <4>2 DEF Functions
        <4>4. DeclaredBefore(entries[j].name)
          BY <2>1, <4>1, <4>3 DEF DeclaredBefore
        <4> QED BY <2>2, <4>1, <4>4
      <3>3. PICK j \in Defs : \A k \in Defs : j <= k
        <4>1. PICK g \in loop : TRUE
          OBVIOUS
        <4>2. Defs \in SUBSET Nat /\ Defs # {}
          BY <3>1, <4>1
        <4> HIDE DEF Defs
        <4> QED BY <4>2, L!LeastOf
      <3> DEFINE g == entries[j].name
                 s == T!Lookup(heap, Env, g)
      <3>4. j \in 1..m /\ g \in loop /\ BodySees(j, s)
        OBVIOUS
      <3>5. ASSUME NEW x \in Unfolded(s), x \in loop PROVE FALSE
        <4>1. T!Lookup(heap, s.env, x).kind = "def" /\ x \in Globals
          BY <2>2, <3>5 DEF Unfolded
        <4>2. T!Lookup(heap, s.env, x) # T!Undefined
          BY <4>1 DEF T!Undefined
        <4>3. Prior(j, x) # {}
          BY <2>5, <3>4, <3>5, <4>1, <4>2 DEF BodySees
        <4>4. PICK k \in 1..(j - 1) : entries[k].name = x
          BY <4>3 DEF Prior
        <4>5. PICK l \in Defs : entries[l].name = x
          BY <3>1, <3>5
        <4>6. l \in 1..m /\ k < l /\ k \in 1..(l - 1)
          BY <3>3, <3>4, <4>4, <4>5
        <4>7. k \in Prior(l, entries[l].name)
          BY <4>4, <4>5, <4>6 DEF Prior
        <4> QED BY <3>2, <4>5, <4>7
      <3> QED BY <3>4, <3>5
    <2> QED BY <2>4, <2>5
  <1> QED BY <1>1, EnvironmentExplains, PTL

\* What a name stands for in any environment is final, but for a declared
\* function that becomes defined (MeaningIsFinal).
THEOREM MeaningNeverShifts == Spec => MeaningIsFinal
  <1> DEFINE Final == entries' # <<>> => \A n \in DOMAIN heap : \A g \in T!Visible(heap, n) :
                        LET old == T!Lookup(heap, n, g)
                            new == T!Lookup(heap', n, g)
                        IN  \/ new = old
                            \/ old.kind = "decl" /\ new.kind = "def" /\ new.sig = old.sig
  <1>1. Inv /\ [Next]_vars => [Final]_vars
    <2> SUFFICES ASSUME Inv, Next PROVE Final
      OBVIOUS
    <2>1. CASE EndModule \/ NextModule
      BY <2>1 DEF EndModule, NextModule
    <2>2. CASE CheckEntry
      <3>1. PICK e \in Entries : \/ CheckInteger(e) \/ CheckStruct(e) \/ CheckAxiom(e)
                                 \/ CheckExternDecl(e) \/ CheckFuncDecl(e) \/ CheckFuncDef(e)
        BY <2>2 DEF CheckEntry
      <3>2. heap' = heap \/ \E d : Recorded(e, d)
        <4>1. heap \in Heap /\ Env \in DOMAIN heap /\ Keeps(heap, heap) /\ Len(heap) + 1 \in Nat
          BY DEF Inv, Environments, Heap, Env, Keeps
        <4>2. \E h, d : \E valid \in BOOLEAN : d \in Symbols /\ Keeps(heap, h) /\ AddTo(h, e, d, valid)
          <5>1. CASE CheckFuncDef(e)
            <6> DEFINE d == Symbol("decl", e.sig, FALSE)
                       f == Definition(e, Len(heap) + 1)
                       h == BodyEnv(e).heap
                       valid == ValidSignature(e) /\ ValidBody(e)
            <6>1. d \in Symbols /\ d.kind # "def"
              BY DEF Symbols, Symbol
            <6>2. Keeps(heap, h)
              BY <4>1, <6>1, ExtendingByOne, EntriesAssumption DEF BodyEnv, OneMore
            <6>3. f \in Symbols
              <7>1. f \in {Definition(e, k) : k \in Nat}
                BY <4>1
              <7>2. f \in UNION {{Definition(g, k) : k \in Nat} : g \in Entries}
                BY <7>1
              <7> QED BY <7>2 DEF Symbols
            <6>4. AddTo(h, e, f, valid) /\ valid \in BOOLEAN
              BY <5>1 DEF CheckFuncDef
            <6> HIDE DEF f, h, valid
            <6> QED BY <6>2, <6>3, <6>4
          <5>2. CASE ~CheckFuncDef(e)
            <6> DEFINE d == SymbolOf(e)
            <6>1. d \in Symbols
              BY DEF Symbols
            <6>2. PICK valid \in BOOLEAN : AddTo(heap, e, d, valid)
              <7>1. /\ ValidFields(e) \in BOOLEAN /\ ValidSignature(e) \in BOOLEAN
                    /\ (IsCFuncType(e) /\ ValidSignature(e)) \in BOOLEAN /\ TRUE \in BOOLEAN
                BY DEF ValidFields, ValidSignature, IsCFuncType
              <7>2. \/ AddTo(heap, e, d, TRUE) \/ AddTo(heap, e, d, ValidFields(e))
                    \/ AddTo(heap, e, d, ValidSignature(e))
                    \/ AddTo(heap, e, d, IsCFuncType(e) /\ ValidSignature(e))
                BY <3>1, <5>2 DEF CheckInteger, CheckStruct, CheckAxiom, CheckExternDecl, CheckFuncDecl, Add
              <7> HIDE DEF d
              <7> QED BY <7>1, <7>2
            <6> HIDE DEF d
            <6> QED BY <4>1, <6>1, <6>2
          <5> QED BY <5>1, <5>2
        <4>3. PICK h, d : \E valid \in BOOLEAN : d \in Symbols /\ Keeps(heap, h) /\ AddTo(h, e, d, valid)
          BY <4>2
        <4>4. PICK valid \in BOOLEAN : d \in Symbols /\ Keeps(heap, h) /\ AddTo(h, e, d, valid)
          BY <4>3
        <4> QED BY <4>1, <4>4, AddingTo
      <3>3. CASE heap' = heap
        BY <3>3
      <3>4. ASSUME NEW d, Recorded(e, d) PROVE Final
        <4>1. e.name \in Globals
          BY EntriesAssumption
        <4>2. ASSUME NEW n \in DOMAIN heap, NEW g \in T!Visible(heap, n)
              PROVE  LET old == T!Lookup(heap, n, g)
                         new == T!Lookup(heap', n, g)
                     IN  \/ new = old
                         \/ old.kind = "decl" /\ new.kind = "def" /\ new.sig = old.sig
          <5>1. g \in Globals /\ T!Lookup(heap, n, g) # T!Undefined
            BY DEF T!Visible
          <5> QED BY <3>4, <5>1 DEF Recorded
        <4> QED BY <4>2
      <3> QED BY <3>2, <3>3, <3>4
    <2> QED BY <2>1, <2>2 DEF Next
  <1> QED BY <1>1, EnvironmentExplains, PTL DEF Spec, MeaningIsFinal
=============================================================================
