----------------------------- MODULE HeapLemmas -----------------------------
(***************************************************************************)
(* What the operations on a ScopeHeap do to its structure and to lookups,  *)
(* for any keys and any set V of values: the facts that proofs about       *)
(* contexts, environments and usage counts share.                          *)
(***************************************************************************)
EXTENDS ScopeHeap, Integers, Sequences, FiniteSetsExt, FiniteSetTheorems,
        WellFoundedInduction, TLAPS

Level == [node : Nat, limit : Nat]
EntryOf(V) == [key : Keys, val : V]
NodeOf(V) == [outer : Seq(Level), data : Seq(EntryOf(V)), index : [Keys -> Nat]]

\* Levels of nodes before n, with entries that are there.
Within(h, n, ls) ==
  \A i \in DOMAIN ls : ls[i].node \in 1..(n - 1) /\ ls[i].limit <= Len(h[ls[i].node].data)

\* `index` and `data` of a node agree.
Indexed(x) ==
  /\ \A i \in DOMAIN x.data : x.index[x.data[i].key] = i
  /\ \A k \in Keys : x.index[k] # Absent =>
       x.index[k] \in DOMAIN x.data /\ x.data[x.index[k]].key = k

WellFormed(h, V) ==
  /\ h \in Seq(NodeOf(V))
  /\ \A n \in DOMAIN h : Within(h, n, h[n].outer) /\ Indexed(h[n])

\* A lookup along any levels, nearest first.
HitsIn(h, ls, k) == {i \in DOMAIN ls : PlaceAt(h, ls[i], k) # Absent}
FindIn(h, ls, k) ==
  IF HitsIn(h, ls, k) = {} THEN NoCell
  ELSE LET i == CHOOSE i \in HitsIn(h, ls, k) : \A j \in HitsIn(h, ls, k) : i <= j
           l == ls[i]
       IN  <<l.node, PlaceAt(h, l, k)>>

-----------------------------------------------------------------------------
(* Induction: what does not hold of every natural fails for a first one.   *)

\* The sets 0..x, x in S, are finite; one that is minimal under strict
\* inclusion ends at the least element of S.
LEMMA LeastOf ==
  ASSUME NEW S \in SUBSET Nat, S # {}
  PROVE  \E x \in S : \A y \in S : x <= y
  <1> DEFINE T == {0..x : x \in S}
  <1>1. T \subseteq FiniteSubsetsOf(Nat) /\ T # {}
    <2>1. ASSUME NEW x \in S PROVE 0..x \in FiniteSubsetsOf(Nat)
      <3>1. x \in Int /\ 0 \in Int /\ 0..x \subseteq Nat
        OBVIOUS
      <3>2. IsFiniteSet(0..x)
        BY <3>1, FS_Interval
      <3> QED BY <3>1, <3>2 DEF FiniteSubsetsOf
    <2> QED BY <2>1
  <1>2. PICK t \in T : \A u \in T : <<u, t>> \notin StrictSubsetOrdering(Nat)
    BY <1>1, FS_StrictSubsetOrderingWellFounded, WFMin
  <1>3. PICK x \in S : t = 0..x
    BY <1>2
  <1>4. ASSUME NEW y \in S, y < x PROVE FALSE
    <2>1. 0..y \subseteq 0..x /\ x \in 0..x /\ x \notin 0..y
      BY <1>4
    <2>2. <<0..y, 0..x>> \in StrictSubsetOrdering(Nat)
      BY <2>1 DEF StrictSubsetOrdering
    <2> QED BY <1>2, <1>3, <2>2
  <1> QED BY <1>4

\* A set that has 0, and with a number the next one up to n, has all up to n.
LEMMA UpTo ==
  ASSUME NEW n \in Nat, NEW S, 0 \in S, \A i \in 0..(n - 1) : i \in S => i + 1 \in S
  PROVE  \A i \in 0..n : i \in S
  <1> SUFFICES ASSUME NEW i \in 0..n, i \notin S PROVE FALSE
    OBVIOUS
  <1> DEFINE T == {j \in 0..n : j \notin S}
  <1>1. PICK x \in T : \A y \in T : x <= y
    <2>1. T \in SUBSET Nat /\ T # {}
      OBVIOUS
    <2> HIDE DEF T
    <2> QED BY <2>1, LeastOf
  <1>2. x # 0 /\ x - 1 \in 0..(n - 1) /\ x - 1 \notin T
    BY <1>1
  <1>3. x - 1 \in S
    BY <1>2
  <1> QED BY <1>1, <1>2, <1>3

-----------------------------------------------------------------------------
(* Lookups.                                                                *)

LEMMA NodeParts ==
  ASSUME NEW V, NEW h \in Seq(NodeOf(V)), NEW n \in DOMAIN h
  PROVE  /\ h[n] \in NodeOf(V) /\ n \in 1..Len(h)
         /\ h[n].outer \in Seq(Level)
         /\ h[n].data \in Seq(EntryOf(V)) /\ Len(h[n].data) \in Nat
         /\ h[n].index \in [Keys -> Nat]
  <1>1. h[n] \in NodeOf(V) /\ n \in 1..Len(h)
    OBVIOUS
  <1>2. h[n].data \in Seq(EntryOf(V))
    BY <1>1 DEF NodeOf
  <1> QED BY <1>1, <1>2 DEF NodeOf

LEMMA FindAlongLevels ==
  ASSUME NEW h, NEW n, NEW k
  PROVE  Find(h, n, k) = FindIn(h, Levels(h, n), k)
  BY DEF Find, FindIn, HitLevels, HitsIn

\* A lookup stops at the nearest level with an entry.
LEMMA FindInStops ==
  ASSUME NEW h, NEW ls \in Seq(Level), NEW k, HitsIn(h, ls, k) # {}
  PROVE  \E i \in HitsIn(h, ls, k) :
           /\ \A j \in HitsIn(h, ls, k) : i <= j
           /\ FindIn(h, ls, k) = <<ls[i].node, PlaceAt(h, ls[i], k)>>
  <1> DEFINE Hit == HitsIn(h, ls, k)
             i == CHOOSE i \in Hit : \A j \in Hit : i <= j
  <1>1. i \in Hit /\ \A j \in Hit : i <= j
    <2>1. Hit \in SUBSET Nat
      BY DEF HitsIn
    <2> HIDE DEF Hit
    <2>2. \E x \in Hit : \A y \in Hit : x <= y
      BY <2>1, LeastOf DEF Hit
    <2> QED BY <2>2
  <1>2. FindIn(h, ls, k) = <<ls[i].node, PlaceAt(h, ls[i], k)>>
    BY DEF FindIn
  <1> QED BY <1>1, <1>2

\* A lookup reads the place of its key at each level and nothing else.
LEMMA FindInKept ==
  ASSUME NEW h, NEW g, NEW ls \in Seq(Level), NEW k,
         \A i \in DOMAIN ls : PlaceAt(g, ls[i], k) = PlaceAt(h, ls[i], k)
  PROVE  FindIn(g, ls, k) = FindIn(h, ls, k)
  <1>1. HitsIn(g, ls, k) = HitsIn(h, ls, k) /\ HitsIn(h, ls, k) \subseteq DOMAIN ls
    BY DEF HitsIn
  <1>2. CASE HitsIn(h, ls, k) = {}
    BY <1>1, <1>2 DEF FindIn
  <1>3. CASE HitsIn(h, ls, k) # {}
    <2>1. PICK i \in HitsIn(h, ls, k) : /\ \A j \in HitsIn(h, ls, k) : i <= j
                                      /\ FindIn(h, ls, k) = <<ls[i].node, PlaceAt(h, ls[i], k)>>
      BY <1>3, FindInStops
    <2>2. PICK j \in HitsIn(h, ls, k) : /\ \A x \in HitsIn(h, ls, k) : j <= x
                                      /\ FindIn(g, ls, k) = <<ls[j].node, PlaceAt(g, ls[j], k)>>
      BY <1>1, <1>3, FindInStops
    <2>3. i = j
      BY <1>1, <2>1, <2>2
    <2> QED BY <1>1, <2>1, <2>2, <2>3
  <1> QED BY <1>2, <1>3

\* Two rows of levels that have k at the same places.
Alike(h, ls, g, ms, k) ==
  /\ Len(ls) = Len(ms)
  /\ \A i \in DOMAIN ls : PlaceAt(g, ms[i], k) = PlaceAt(h, ls[i], k)

\* Lookups of k along both rows stop at the i-th level.
BothStop(h, ls, g, ms, k, i) ==
  /\ PlaceAt(h, ls[i], k) # Absent
  /\ FindIn(h, ls, k) = <<ls[i].node, PlaceAt(h, ls[i], k)>>
  /\ FindIn(g, ms, k) = <<ms[i].node, PlaceAt(h, ls[i], k)>>

\* Lookups along such rows stop at the same level of their row.
LEMMA FindInAlike ==
  ASSUME NEW h, NEW g, NEW ls \in Seq(Level), NEW ms \in Seq(Level), NEW k,
         Alike(h, ls, g, ms, k),
         FindIn(h, ls, k) # NoCell \/ FindIn(g, ms, k) # NoCell
  PROVE  \E i \in DOMAIN ls : BothStop(h, ls, g, ms, k, i)
  <1>1. DOMAIN ls = DOMAIN ms
    BY DEF Alike
  <1>2. HitsIn(g, ms, k) = HitsIn(h, ls, k) /\ HitsIn(h, ls, k) \subseteq DOMAIN ls
    BY <1>1 DEF HitsIn, Alike
  <1>3. HitsIn(h, ls, k) # {}
    BY <1>2 DEF FindIn
  <1>4. PICK i \in HitsIn(h, ls, k) : /\ \A j \in HitsIn(h, ls, k) : i <= j
                                    /\ FindIn(h, ls, k) = <<ls[i].node, PlaceAt(h, ls[i], k)>>
    BY <1>3, FindInStops
  <1>5. PICK j \in HitsIn(h, ls, k) : /\ \A x \in HitsIn(h, ls, k) : j <= x
                                    /\ FindIn(g, ms, k) = <<ms[j].node, PlaceAt(g, ms[j], k)>>
    BY <1>2, <1>3, FindInStops
  <1>6. i = j /\ i \in DOMAIN ls
    BY <1>2, <1>4, <1>5
  <1>7. PlaceAt(h, ls[i], k) # Absent
    BY DEF HitsIn
  <1> QED BY <1>4, <1>5, <1>6, <1>7 DEF Alike, BothStop

LEMMA FindInNowhere ==
  ASSUME NEW h, NEW k
  PROVE  FindIn(h, <<>>, k) = NoCell
  BY DEF FindIn, HitsIn

\* The first level and then the others.
LEMMA FindInFirst ==
  ASSUME NEW h, NEW l \in Level, NEW o \in Seq(Level), NEW k
  PROVE  FindIn(h, <<l>> \o o, k) =
           IF PlaceAt(h, l, k) # Absent THEN <<l.node, PlaceAt(h, l, k)>>
           ELSE FindIn(h, o, k)
  <1> DEFINE ls == <<l>> \o o
  <1>1. /\ ls \in Seq(Level) /\ ls[1] = l /\ DOMAIN ls = 1..(Len(o) + 1)
        /\ DOMAIN o = 1..Len(o) /\ Len(o) \in Nat
        /\ \A i \in 1..Len(o) : ls[i + 1] = o[i]
    OBVIOUS
  <1> HIDE DEF ls
  <1>2. CASE PlaceAt(h, l, k) # Absent
    <2>1. 1 \in HitsIn(h, ls, k)
      BY <1>1, <1>2 DEF HitsIn
    <2>2. PICK i \in HitsIn(h, ls, k) :
            /\ \A j \in HitsIn(h, ls, k) : i <= j
            /\ FindIn(h, ls, k) = <<ls[i].node, PlaceAt(h, ls[i], k)>>
      BY <1>1, <2>1, FindInStops
    <2>3. i = 1
      BY <1>1, <2>1, <2>2 DEF HitsIn
    <2> QED BY <1>1, <1>2, <2>2, <2>3 DEF ls
  <1>3. CASE PlaceAt(h, l, k) = Absent
    <2> DEFINE A == HitsIn(h, ls, k)
               B == HitsIn(h, o, k)
    <2>1. \A i \in A : i - 1 \in B /\ ls[i] = o[i - 1] /\ i \in Nat
      <3> TAKE i \in A
      <3>1. i \in 1..(Len(o) + 1) /\ PlaceAt(h, ls[i], k) # Absent
        BY <1>1 DEF HitsIn
      <3>2. i # 1
        BY <1>1, <1>3, <3>1
      <3>3. i - 1 \in 1..Len(o) /\ (i - 1) + 1 = i
        BY <1>1, <3>1, <3>2
      <3>4. ls[i] = o[i - 1]
        BY <1>1, <3>3
      <3> QED BY <1>1, <3>1, <3>3, <3>4 DEF HitsIn
    <2>2. \A i \in B : i + 1 \in A /\ ls[i + 1] = o[i] /\ i \in Nat
      <3> TAKE i \in B
      <3>1. i \in 1..Len(o) /\ PlaceAt(h, o[i], k) # Absent
        BY <1>1 DEF HitsIn
      <3>2. i + 1 \in 1..(Len(o) + 1) /\ ls[i + 1] = o[i]
        BY <1>1, <3>1
      <3> QED BY <1>1, <3>1, <3>2 DEF HitsIn
    <2>3. CASE B = {}
      <3>1. A = {}
        BY <2>1, <2>3
      <3> QED BY <1>3, <2>3, <3>1 DEF FindIn, ls
    <2>4. CASE B # {}
      <3>1. PICK i \in B : /\ \A j \in B : i <= j
                           /\ FindIn(h, o, k) = <<o[i].node, PlaceAt(h, o[i], k)>>
        BY <2>4, FindInStops
      <3>2. A # {}
        BY <2>2, <2>4
      <3>3. PICK j \in A : /\ \A x \in A : j <= x
                           /\ FindIn(h, ls, k) = <<ls[j].node, PlaceAt(h, ls[j], k)>>
        BY <1>1, <3>2, FindInStops
      <3>4. i \in Nat /\ j \in Nat /\ j <= i + 1 /\ i <= j - 1
        <4> HIDE DEF A, B
        <4> QED BY <2>1, <2>2, <3>1, <3>3
      <3>5. j = i + 1
        BY <3>4
      <3> HIDE DEF A, B
      <3>6. ls[j] = o[i]
        BY <2>2, <3>1, <3>5
      <3> QED BY <1>3, <3>1, <3>3, <3>6 DEF ls
    <2> QED BY <2>3, <2>4
  <1> QED BY <1>2, <1>3

\* Its own entry is what a node finds, if it has one; if not, what the levels
\* around it have.
LEMMA FindFrom ==
  ASSUME NEW V, NEW h, WellFormed(h, V), NEW n \in DOMAIN h, NEW k \in Keys
  PROVE  Find(h, n, k) = IF h[n].index[k] # Absent THEN <<n, h[n].index[k]>>
                         ELSE FindIn(h, h[n].outer, k)
  <1> DEFINE l == [node |-> n, limit |-> Len(h[n].data)]
             o == h[n].outer
  <1>1. /\ o \in Seq(Level) /\ n \in Nat /\ Len(h[n].data) \in Nat
        /\ h[n].data \in Seq(EntryOf(V)) /\ h[n].index[k] \in Nat
    BY NodeParts DEF WellFormed
  <1>2. l \in Level
    BY <1>1 DEF Level
  <1>3. Find(h, n, k) = FindIn(h, <<l>> \o o, k)
    BY FindAlongLevels DEF Levels
  <1>4. PlaceAt(h, l, k) = h[n].index[k] /\ l.node = n
    <2>1. h[n].index[k] # Absent => h[n].index[k] <= Len(h[n].data)
      BY <1>1 DEF WellFormed, Indexed
    <2> QED BY <1>1, <2>1 DEF PlaceAt, Absent
  <1> HIDE DEF l, o
  <1>5. FindIn(h, <<l>> \o o, k) = IF h[n].index[k] # Absent THEN <<n, h[n].index[k]>>
                                   ELSE FindIn(h, o, k)
    BY <1>1, <1>2, <1>4, FindInFirst
  <1> QED BY <1>3, <1>5 DEF o

\* What a lookup along the levels around a node finds is an entry for its key
\* in one of them.
LEMMA FindInCell ==
  ASSUME NEW V, NEW h, WellFormed(h, V), NEW ls \in Seq(Level), NEW k \in Keys,
         \A i \in DOMAIN ls : ls[i].node \in DOMAIN h, FindIn(h, ls, k) # NoCell
  PROVE  LET c == FindIn(h, ls, k)
         IN  /\ c = <<c[1], c[2]>> /\ \E i \in DOMAIN ls : c[1] = ls[i].node
             /\ c[1] \in DOMAIN h /\ c[2] \in DOMAIN h[c[1]].data
             /\ h[c[1]].index[k] = c[2] /\ h[c[1]].data[c[2]].key = k
  <1>1. HitsIn(h, ls, k) # {}
    BY DEF FindIn
  <1>2. PICK i \in HitsIn(h, ls, k) : FindIn(h, ls, k) = <<ls[i].node, PlaceAt(h, ls[i], k)>>
    BY <1>1, FindInStops
  <1> DEFINE n == ls[i].node
             p == PlaceAt(h, ls[i], k)
  <1>3. i \in DOMAIN ls /\ p # Absent /\ n \in DOMAIN h
    BY <1>2 DEF HitsIn
  <1>4. p = h[n].index[k] /\ p \in DOMAIN h[n].data /\ h[n].data[p].key = k
    BY <1>3 DEF PlaceAt, WellFormed, Indexed
  <1> HIDE DEF p, n
  <1>5. FindIn(h, ls, k) = <<n, p>>
    BY <1>2 DEF p, n
  <1> QED BY <1>3, <1>4, <1>5 DEF n

\* The levels around a node.
LEMMA OuterNodes ==
  ASSUME NEW V, NEW h, WellFormed(h, V), NEW n \in DOMAIN h
  PROVE  /\ h[n].outer \in Seq(Level)
         /\ \A i \in DOMAIN h[n].outer :
              /\ h[n].outer[i] \in Level
              /\ h[n].outer[i].node \in DOMAIN h /\ h[n].outer[i].node \in 1..(n - 1)
              /\ h[n].outer[i].limit <= Len(h[h[n].outer[i].node].data)
  <1>1. h[n].outer \in Seq(Level) /\ n \in 1..Len(h) /\ DOMAIN h = 1..Len(h) /\ Len(h) \in Nat
    BY NodeParts DEF WellFormed
  <1> DEFINE o == h[n].outer
  <1>2. \A i \in DOMAIN o : o[i] \in Level /\ o[i].node \in 1..(n - 1)
                            /\ o[i].limit <= Len(h[o[i].node].data)
    BY <1>1 DEF WellFormed, Within
  <1> HIDE DEF o
  <1> QED BY <1>1, <1>2 DEF o

LEMMA LevelNodes ==
  ASSUME NEW V, NEW h, WellFormed(h, V), NEW n \in DOMAIN h
  PROVE  /\ Levels(h, n) \in Seq(Level)
         /\ \A i \in DOMAIN Levels(h, n) :
              /\ Levels(h, n)[i] \in Level
              /\ Levels(h, n)[i].node \in DOMAIN h /\ Levels(h, n)[i].node \in 1..n
              /\ Levels(h, n)[i].limit <= Len(h[Levels(h, n)[i].node].data)
  <1> DEFINE l == [node |-> n, limit |-> Len(h[n].data)]
             o == h[n].outer
             ls == <<l>> \o o
  <1>1. /\ o \in Seq(Level)
        /\ \A i \in DOMAIN o : /\ o[i].node \in DOMAIN h /\ o[i].node \in 1..(n - 1)
                               /\ o[i].limit <= Len(h[o[i].node].data)
    BY OuterNodes
  <1>2. Len(h[n].data) \in Nat /\ n \in 1..Len(h) /\ n \in Nat /\ n \in 1..n
    BY NodeParts DEF WellFormed
  <1>3. l \in Level /\ l.node = n /\ l.limit = Len(h[n].data)
    BY <1>2 DEF Level
  <1> HIDE DEF l, o
  <1>4. /\ ls \in Seq(Level) /\ ls[1] = l /\ DOMAIN ls = 1..(Len(o) + 1)
        /\ \A i \in 1..Len(o) : ls[i + 1] = o[i]
    BY <1>1, <1>3
  <1>5. Levels(h, n) = ls
    BY DEF Levels, l, o
  <1> HIDE DEF ls
  <1>6. ASSUME NEW i \in DOMAIN ls
        PROVE  ls[i] \in Level /\ ls[i].node \in DOMAIN h /\ ls[i].node \in 1..n
               /\ ls[i].limit <= Len(h[ls[i].node].data)
    <2>1. ls[i] \in Level
      BY <1>4
    <2>2. CASE i = 1
      BY <1>2, <1>3, <1>4, <2>1, <2>2
    <2>3. CASE i # 1
      <3>1. i - 1 \in 1..Len(o) /\ (i - 1) + 1 = i /\ i - 1 \in DOMAIN o
        BY <1>1, <1>4, <2>3
      <3>2. ls[i] = o[i - 1]
        BY <1>4, <3>1
      <3>3. o[i - 1].node \in 1..n
        BY <1>1, <1>2, <3>1
      <3> QED BY <1>1, <2>1, <3>1, <3>2, <3>3
    <2> QED BY <2>2, <2>3
  <1> QED BY <1>4, <1>5, <1>6

\* What a lookup finds is an entry for its key, at its node or further out.
LEMMA FindCell ==
  ASSUME NEW V, NEW h, WellFormed(h, V), NEW n \in DOMAIN h, NEW k \in Keys,
         Find(h, n, k) # NoCell
  PROVE  LET c == Find(h, n, k)
         IN  /\ c = <<c[1], c[2]>> /\ \E i \in DOMAIN Levels(h, n) : c[1] = Levels(h, n)[i].node
             /\ c[1] \in DOMAIN h /\ c[2] \in DOMAIN h[c[1]].data
             /\ h[c[1]].index[k] = c[2] /\ h[c[1]].data[c[2]].key = k
  BY FindAlongLevels, LevelNodes, FindInCell

-----------------------------------------------------------------------------
(* What a lookup gives: the value found, or `none`.                        *)

At(h, c) == h[c[1]].data[c[2]].val
ValueIn(h, ls, k, none) ==
  IF FindIn(h, ls, k) = NoCell THEN none ELSE At(h, FindIn(h, ls, k))
Value(h, n, k, none) == IF Find(h, n, k) = NoCell THEN none ELSE At(h, Find(h, n, k))

LEMMA ValueAlongLevels ==
  ASSUME NEW h, NEW n, NEW k, NEW none
  PROVE  Value(h, n, k, none) = ValueIn(h, Levels(h, n), k, none)
  BY FindAlongLevels DEF Value, ValueIn

LEMMA ValueFrom ==
  ASSUME NEW V, NEW h, WellFormed(h, V), NEW n \in DOMAIN h, NEW k \in Keys, NEW none
  PROVE  Value(h, n, k, none) =
           IF h[n].index[k] # Absent THEN h[n].data[h[n].index[k]].val
           ELSE ValueIn(h, h[n].outer, k, none)
  <1>1. CASE h[n].index[k] # Absent
    <2>1. Find(h, n, k) = <<n, h[n].index[k]>>
      BY <1>1, FindFrom
    <2>2. <<n, h[n].index[k]>> # NoCell
      BY <1>1 DEF NoCell, Absent
    <2> QED BY <1>1, <2>1, <2>2 DEF Value, At
  <1>2. CASE h[n].index[k] = Absent
    BY <1>2, FindFrom DEF Value, ValueIn
  <1> QED BY <1>1, <1>2

HasNode(h, n, x) == n \in DOMAIN h /\ h[n] = x

LEMMA OwnOrOuter ==
  ASSUME NEW V, NEW h, WellFormed(h, V), NEW n, NEW x, HasNode(h, n, x)
  PROVE  /\ \A k \in Keys : x.index[k] # Absent =>
              /\ Find(h, n, k) = <<n, x.index[k]>>
              /\ \A none : Value(h, n, k, none) = x.data[x.index[k]].val
         /\ \A k \in Keys : x.index[k] = Absent =>
              /\ Find(h, n, k) = FindIn(h, x.outer, k)
              /\ \A none : Value(h, n, k, none) = ValueIn(h, x.outer, k, none)
  BY FindFrom, ValueFrom DEF HasNode

LEMMA ValueType ==
  ASSUME NEW V, NEW h, WellFormed(h, V), NEW n \in DOMAIN h, NEW k \in Keys, NEW none
  PROVE  Value(h, n, k, none) \in V \union {none}
  <1>1. CASE Find(h, n, k) = NoCell
    BY <1>1 DEF Value
  <1>2. CASE Find(h, n, k) # NoCell
    <2> DEFINE c == Find(h, n, k)
    <2>1. c[1] \in DOMAIN h /\ c[2] \in DOMAIN h[c[1]].data
      BY <1>2, FindCell
    <2> HIDE DEF c
    <2>2. h[c[1]].data \in Seq(EntryOf(V))
      BY <2>1, NodeParts DEF WellFormed
    <2>3. h[c[1]].data[c[2]] \in EntryOf(V)
      BY <2>1, <2>2
    <2> QED BY <1>2, <2>3 DEF Value, At, EntryOf, c
  <1> QED BY <1>1, <1>2

-----------------------------------------------------------------------------
(* What changes and what does not.                                         *)

\* Lookups along ls, or from node n, give in heap g what they gave in h.
KeepsLevels(h, g, ls) ==
  \A k \in Keys : /\ FindIn(g, ls, k) = FindIn(h, ls, k)
                  /\ \A none : ValueIn(g, ls, k, none) = ValueIn(h, ls, k, none)
KeepsLookups(h, g, n) ==
  \A k \in Keys : /\ Find(g, n, k) = Find(h, n, k)
                  /\ \A none : Value(g, n, k, none) = Value(h, n, k, none)
KeepsNode(h, g, n) ==
  n \in DOMAIN g /\ g[n] = h[n] /\ Levels(g, n) = Levels(h, n) /\ KeepsLookups(h, g, n)

\* Levels of nodes in the heap, with entries that are there.
InHeap(h, ls) ==
  \A i \in DOMAIN ls : ls[i].node \in DOMAIN h /\ ls[i].limit <= Len(h[ls[i].node].data)

\* A lookup along levels of old nodes reads the place of k at each of them; an
\* entry that k got meanwhile is beyond what is visible.
LEMMA FindInSame ==
  ASSUME NEW V, NEW h, WellFormed(h, V), NEW g, NEW k \in Keys, NEW ls \in Seq(Level),
         InHeap(h, ls),
         \A i \in DOMAIN ls :
           LET q == ls[i].node
           IN  /\ g[q].index[k] \in Nat
               /\ \/ g[q].index[k] = h[q].index[k]
                  \/ h[q].index[k] = Absent /\ g[q].index[k] > Len(h[q].data)
  PROVE  FindIn(g, ls, k) = FindIn(h, ls, k)
  <1>1. ASSUME NEW i \in DOMAIN ls PROVE PlaceAt(g, ls[i], k) = PlaceAt(h, ls[i], k)
    <2> DEFINE q == ls[i].node
               m == ls[i].limit
    <2>1. /\ q \in DOMAIN h /\ m <= Len(h[q].data) /\ g[q].index[k] \in Nat
          /\ \/ g[q].index[k] = h[q].index[k]
             \/ h[q].index[k] = Absent /\ g[q].index[k] > Len(h[q].data)
      BY DEF InHeap
    <2>2. m \in Nat
      <3>1. ls[i] \in Level
        OBVIOUS
      <3> QED BY <3>1 DEF Level
    <2> HIDE DEF q
    <2>3. Len(h[q].data) \in Nat
      BY <2>1, NodeParts DEF WellFormed
    <2> HIDE DEF m
    <2>4. (IF g[q].index[k] <= m THEN g[q].index[k] ELSE Absent)
            = (IF h[q].index[k] <= m THEN h[q].index[k] ELSE Absent)
      BY <2>1, <2>2, <2>3 DEF Absent
    <2> QED BY <2>4 DEF PlaceAt, q, m
  <1> QED BY <1>1, FindInKept

LEMMA LevelsInHeap ==
  ASSUME NEW V, NEW h, WellFormed(h, V), NEW n \in DOMAIN h
  PROVE  InHeap(h, Levels(h, n)) /\ InHeap(h, h[n].outer)
  BY LevelNodes, OuterNodes DEF InHeap

\* Old nodes that are the same are read in the same way.
LEMMA SameNodesSameLookups ==
  ASSUME NEW V, NEW h, WellFormed(h, V), NEW g, NEW ls \in Seq(Level), InHeap(h, ls),
         \A i \in DOMAIN ls : g[ls[i].node] = h[ls[i].node]
  PROVE  KeepsLevels(h, g, ls)
  <1> SUFFICES ASSUME NEW k \in Keys
               PROVE  /\ FindIn(g, ls, k) = FindIn(h, ls, k)
                      /\ \A none : ValueIn(g, ls, k, none) = ValueIn(h, ls, k, none)
    BY Zenon DEF KeepsLevels
  <1>1. \A i \in DOMAIN ls : PlaceAt(g, ls[i], k) = PlaceAt(h, ls[i], k)
    BY DEF PlaceAt
  <1>2. FindIn(g, ls, k) = FindIn(h, ls, k)
    BY <1>1, FindInKept
  <1>3. ASSUME FindIn(h, ls, k) # NoCell PROVE At(g, FindIn(h, ls, k)) = At(h, FindIn(h, ls, k))
    <2>1. \A i \in DOMAIN ls : ls[i].node \in DOMAIN h
      BY DEF InHeap
    <2>2. PICK i \in DOMAIN ls : FindIn(h, ls, k)[1] = ls[i].node
      BY <1>3, <2>1, FindInCell
    <2> QED BY <2>2 DEF At
  <1> QED BY <1>2, <1>3 DEF ValueIn

LEMMA SameNodesSameNode ==
  ASSUME NEW V, NEW h, WellFormed(h, V), NEW g, NEW n \in DOMAIN h, n \in DOMAIN g,
         g[n] = h[n],
         \A i \in DOMAIN h[n].outer : g[h[n].outer[i].node] = h[h[n].outer[i].node]
  PROVE  KeepsNode(h, g, n)
  <1>1. Levels(g, n) = Levels(h, n)
    BY DEF Levels
  <1>2. \A i \in DOMAIN Levels(h, n) : g[Levels(h, n)[i].node] = h[Levels(h, n)[i].node]
    <2> DEFINE l == [node |-> n, limit |-> Len(h[n].data)]
               o == h[n].outer
               ls == <<l>> \o o
    <2>1. o \in Seq(Level) /\ l \in Level /\ l.node = n
      <3>1. o \in Seq(Level) /\ n \in 1..Len(h) /\ Len(h[n].data) \in Nat
        BY NodeParts DEF WellFormed
      <3> QED BY <3>1 DEF Level
    <2> HIDE DEF l, o
    <2>2. /\ ls[1] = l /\ DOMAIN ls = 1..(Len(o) + 1) /\ DOMAIN o = 1..Len(o)
          /\ \A i \in 1..Len(o) : ls[i + 1] = o[i]
      BY <2>1
    <2>3. Levels(h, n) = ls
      BY DEF Levels, l, o
    <2> HIDE DEF ls
    <2>4. ASSUME NEW i \in DOMAIN ls PROVE g[ls[i].node] = h[ls[i].node]
      <3>1. CASE i = 1
        BY <2>1, <2>2, <3>1
      <3>2. CASE i # 1
        <4>1. i - 1 \in 1..Len(o) /\ (i - 1) + 1 = i
          BY <2>1, <2>2, <3>2
        <4>2. ls[i] = o[i - 1]
          BY <2>2, <4>1
        <4> QED BY <2>2, <4>1, <4>2 DEF o
      <3> QED BY <3>1, <3>2
    <2> QED BY <2>3, <2>4
  <1>3. Levels(h, n) \in Seq(Level) /\ InHeap(h, Levels(h, n))
    BY LevelNodes, LevelsInHeap
  <1>4. KeepsLevels(h, g, Levels(h, n))
    BY <1>2, <1>3, SameNodesSameLookups
  <1>5. KeepsLookups(h, g, n)
    BY <1>1, <1>4, FindAlongLevels, ValueAlongLevels, Zenon DEF KeepsLevels, KeepsLookups
  <1> QED BY <1>1, <1>5 DEF KeepsNode

\* The nodes that are left when the last ones are gone are what they were.
LEMMA PrefixSees ==
  ASSUME NEW V, NEW h, WellFormed(h, V), NEW b \in 0..Len(h), NEW g, g = SubSeq(h, 1, b)
  PROVE  /\ WellFormed(g, V) /\ Len(g) = b /\ DOMAIN g = 1..b
         /\ \A n \in DOMAIN g : n \in DOMAIN h /\ KeepsNode(h, g, n)
  <1>1. h \in Seq(NodeOf(V)) /\ \A n \in DOMAIN h : Within(h, n, h[n].outer) /\ Indexed(h[n])
    BY DEF WellFormed
  <1>2. /\ g \in Seq(NodeOf(V)) /\ Len(g) = b /\ DOMAIN g = 1..b /\ b \in Nat
        /\ \A n \in 1..b : n \in DOMAIN h /\ g[n] = h[n]
    BY <1>1
  <1>3. ASSUME NEW n \in 1..b
        PROVE  Within(g, n, g[n].outer) /\ Indexed(g[n]) /\ KeepsNode(h, g, n)
    <2> DEFINE o == h[n].outer
    <2>1. n \in DOMAIN h /\ g[n].outer = o /\ Within(h, n, o) /\ Indexed(g[n])
      BY <1>1, <1>2
    <2>2. \A i \in DOMAIN o : o[i].node \in 1..(n - 1)
      BY <2>1 DEF Within
    <2>3. \A i \in DOMAIN o : o[i].node \in 1..b /\ g[o[i].node] = h[o[i].node]
      BY <1>2, <2>2
    <2>4. KeepsNode(h, g, n)
      BY <1>2, <2>1, <2>3, SameNodesSameNode
    <2> HIDE DEF o
    <2>5. Within(g, n, o)
      BY <1>2, <2>1, <2>3 DEF Within
    <2> QED BY <2>1, <2>4, <2>5
  <1>4. WellFormed(g, V)
    BY <1>2, <1>3 DEF WellFormed
  <1> QED BY <1>2, <1>3, <1>4

\* A new node at the end of the heap changes nothing for the old ones.
LEMMA Appending ==
  ASSUME NEW V, NEW h, WellFormed(h, V), NEW x \in NodeOf(V), InHeap(h, x.outer), Indexed(x),
         NEW g, g = Append(h, x)
  PROVE  /\ WellFormed(g, V) /\ Len(g) = Len(h) + 1 /\ g[Len(h) + 1] = x
         /\ Len(h) + 1 \in DOMAIN g
         /\ \A n \in DOMAIN h : KeepsNode(h, g, n)
         /\ KeepsLevels(h, g, x.outer)
  <1>1. h \in Seq(NodeOf(V)) /\ \A n \in DOMAIN h : Within(h, n, h[n].outer) /\ Indexed(h[n])
    BY DEF WellFormed
  <1>2. /\ g \in Seq(NodeOf(V)) /\ Len(g) = Len(h) + 1 /\ g[Len(h) + 1] = x
        /\ DOMAIN g = 1..(Len(h) + 1) /\ DOMAIN h = 1..Len(h) /\ Len(h) \in Nat
        /\ \A n \in DOMAIN h : g[n] = h[n] /\ n \in DOMAIN g
    BY <1>1
  <1>o. x.outer \in Seq(Level)
    BY DEF NodeOf
  <1>3. WellFormed(g, V)
    <2>1. ASSUME NEW n \in DOMAIN g PROVE Within(g, n, g[n].outer) /\ Indexed(g[n])
      <3>1. CASE n \in DOMAIN h
        <4> DEFINE o == h[n].outer
        <4>1. g[n].outer = o /\ Within(h, n, o) /\ Indexed(g[n])
          BY <1>1, <1>2, <3>1
        <4>2. \A i \in DOMAIN o : o[i].node \in DOMAIN h
          BY <3>1, OuterNodes
        <4> HIDE DEF o
        <4>3. Within(g, n, o)
          BY <1>2, <4>1, <4>2 DEF Within
        <4> QED BY <4>1, <4>3
      <3>2. CASE n \notin DOMAIN h
        <4>1. n = Len(h) + 1 /\ n - 1 = Len(h)
          BY <1>2, <3>2
        <4>2. g[n] = x /\ \A i \in DOMAIN x.outer : x.outer[i].node \in DOMAIN h
          BY <1>2, <4>1 DEF InHeap
        <4> QED BY <1>2, <4>1, <4>2 DEF Within, InHeap
      <3> QED BY <3>1, <3>2
    <2> QED BY <1>2, <2>1 DEF WellFormed
  <1>4. ASSUME NEW n \in DOMAIN h PROVE KeepsNode(h, g, n)
    <2>1. \A i \in DOMAIN h[n].outer : h[n].outer[i].node \in DOMAIN h
      BY OuterNodes
    <2> QED BY <1>2, <2>1, SameNodesSameNode
  <1>5. KeepsLevels(h, g, x.outer)
    <2>1. \A i \in DOMAIN x.outer : g[x.outer[i].node] = h[x.outer[i].node]
      BY <1>2 DEF InHeap
    <2> QED BY <1>o, <2>1, SameNodesSameLookups
  <1>6. Len(h) + 1 \in DOMAIN g
    BY <1>2
  <1> HIDE DEF WellFormed
  <1> QED BY <1>2, <1>3, <1>4, <1>5, <1>6

\* A heap with nothing in it.
LEMMA RootAlone ==
  ASSUME NEW V, NEW h, h = <<RootNode>>
  PROVE  /\ WellFormed(h, V) /\ Len(h) = 1 /\ DOMAIN h = {1}
         /\ \A k \in Keys : h[1].index[k] = Absent /\ \A none : Value(h, 1, k, none) = none
  <1>1. h[1] = RootNode /\ Len(h) = 1 /\ DOMAIN h = {1}
    OBVIOUS
  <1>2. RootNode = [outer |-> <<>>, data |-> <<>>, index |-> [k \in Keys |-> 0]] /\ Absent = 0
    BY DEF RootNode, EmptyNode, Absent
  <1>3. WellFormed(h, V)
    <2>1. RootNode \in NodeOf(V)
      BY <1>2 DEF NodeOf
    <2>2. Within(h, 1, h[1].outer) /\ Indexed(h[1])
      BY <1>1, <1>2 DEF Within, Indexed
    <2>3. h \in Seq(NodeOf(V))
      BY <2>1
    <2> QED BY <1>1, <2>2, <2>3 DEF WellFormed
  <1>4. ASSUME NEW k \in Keys PROVE h[1].index[k] = Absent /\ \A none : Value(h, 1, k, none) = none
    <2>1. h[1].index[k] = Absent
      BY <1>1, <1>2
    <2>2. Find(h, 1, k) = NoCell
      <3>1. SUFFICES ASSUME Find(h, 1, k) # NoCell PROVE FALSE
        OBVIOUS
      <3>2. PICK c : c = Find(h, 1, k)
        OBVIOUS
      <3>3. c[1] \in DOMAIN h /\ c[2] \in DOMAIN h[c[1]].data
        BY <1>1, <1>3, <3>1, <3>2, FindCell
      <3> QED BY <1>1, <1>2, <3>3
    <2> QED BY <2>1, <2>2 DEF Value
  <1> QED BY <1>1, <1>3, <1>4

\* A node with no entry of its own sees what the levels around it have.
LEMMA EmptySees ==
  ASSUME NEW V, NEW h, WellFormed(h, V), NEW n \in DOMAIN h,
         NEW g, WellFormed(g, V), NEW e, NEW x, HasNode(g, e, x),
         x.outer = Levels(h, n), KeepsLevels(h, g, x.outer),
         NEW k \in Keys, x.index[k] = Absent
  PROVE  /\ Find(g, e, k) = Find(h, n, k)
         /\ \A none : Value(g, e, k, none) = Value(h, n, k, none)
  <1>1. /\ Find(g, e, k) = FindIn(g, x.outer, k)
        /\ \A none : Value(g, e, k, none) = ValueIn(g, x.outer, k, none)
    BY OwnOrOuter
  <1>2. /\ FindIn(g, x.outer, k) = FindIn(h, x.outer, k)
        /\ \A none : ValueIn(g, x.outer, k, none) = ValueIn(h, x.outer, k, none)
    BY DEF KeepsLevels
  <1> QED BY <1>1, <1>2, FindAlongLevels, ValueAlongLevels

\* g is h with a node that extends n.
ChildAdded(h, g, n, V) ==
  LET e == Len(h) + 1
  IN  /\ WellFormed(g, V) /\ Len(g) = e /\ e \in DOMAIN g
      /\ g[e].outer = Levels(h, n) /\ g[e].data = <<>>
      /\ \A k \in Keys : g[e].index[k] = Absent
      /\ \A m \in DOMAIN h : KeepsNode(h, g, m)
      /\ \A k \in Keys : /\ Find(g, e, k) = Find(h, n, k)
                         /\ \A none : Value(g, e, k, none) = Value(h, n, k, none)

\* extend(): the child has no entry and sees what its parent sees.
LEMMA ChildSees ==
  ASSUME NEW V, NEW h, WellFormed(h, V), NEW n \in DOMAIN h
  PROVE  ChildAdded(h, Append(h, ChildNode(h, n)), n, V)
  <1> SUFFICES ASSUME NEW g, g = Append(h, ChildNode(h, n)) PROVE ChildAdded(h, g, n, V)
    OBVIOUS
  <1> DEFINE x == ChildNode(h, n)
  <1>1. Levels(h, n) \in Seq(Level) /\ InHeap(h, Levels(h, n))
    BY LevelNodes, LevelsInHeap
  <1>2. /\ x \in NodeOf(V) /\ x.outer = Levels(h, n) /\ x.data = <<>>
        /\ \A k \in Keys : x.index[k] = Absent
    BY <1>1 DEF ChildNode, EmptyNode, NodeOf, Absent
  <1>3. g = Append(h, x)
    OBVIOUS
  <1> HIDE DEF x
  <1>4. Indexed(x)
    BY <1>2 DEF Indexed
  <1>5. InHeap(h, x.outer)
    BY <1>1, <1>2
  <1>6. /\ WellFormed(g, V) /\ Len(g) = Len(h) + 1 /\ g[Len(h) + 1] = x
        /\ Len(h) + 1 \in DOMAIN g
        /\ \A m \in DOMAIN h : KeepsNode(h, g, m)
        /\ KeepsLevels(h, g, x.outer)
    BY <1>2, <1>3, <1>4, <1>5, Appending
  <1>7. \A k \in Keys : /\ Find(g, Len(h) + 1, k) = Find(h, n, k)
                        /\ \A none : Value(g, Len(h) + 1, k, none) = Value(h, n, k, none)
    <2>1. HasNode(g, Len(h) + 1, x)
      BY <1>6 DEF HasNode
    <2>2. x.outer = Levels(h, n) /\ KeepsLevels(h, g, x.outer) /\ WellFormed(g, V)
      BY <1>2, <1>6
    <2> TAKE k \in Keys
    <2>3. x.index[k] = Absent
      BY <1>2
    <2> DEFINE e == Len(h) + 1
    <2> HIDE DEF e
    <2>4. HasNode(g, e, x)
      BY <2>1 DEF e
    <2>5. /\ Find(g, e, k) = Find(h, n, k)
          /\ \A none : Value(g, e, k, none) = Value(h, n, k, none)
      BY <2>2, <2>3, <2>4, EmptySees
    <2> QED BY <2>5 DEF e
  <1>8. g[Len(h) + 1].outer = Levels(h, n) /\ g[Len(h) + 1].data = <<>>
        /\ \A k \in Keys : g[Len(h) + 1].index[k] = Absent
    BY <1>2, <1>6
  <1> QED BY <1>6, <1>7, <1>8 DEF ChildAdded

LEMMA SameSees ==
  ASSUME NEW V, NEW h, WellFormed(h, V), NEW n \in DOMAIN h,
         NEW g, WellFormed(g, V), NEW e, NEW x, HasNode(g, e, x), h[n] = x,
         KeepsLevels(h, g, x.outer), NEW k \in Keys
  PROVE  /\ x.index[k] # Absent => Find(g, e, k) = <<e, x.index[k]>>
         /\ x.index[k] = Absent => Find(g, e, k) = Find(h, n, k)
         /\ \A none : Value(g, e, k, none) = Value(h, n, k, none)
  <1>1. CASE x.index[k] # Absent
    <2>1. /\ Find(g, e, k) = <<e, x.index[k]>>
          /\ \A none : Value(g, e, k, none) = x.data[x.index[k]].val
      BY <1>1, OwnOrOuter
    <2>2. \A none : Value(h, n, k, none) = x.data[x.index[k]].val
      BY <1>1, OwnOrOuter DEF HasNode
    <2> QED BY <1>1, <2>1, <2>2
  <1>2. CASE x.index[k] = Absent
    <2>1. /\ Find(g, e, k) = FindIn(g, x.outer, k)
          /\ \A none : Value(g, e, k, none) = ValueIn(g, x.outer, k, none)
      BY <1>2, OwnOrOuter
    <2>2. /\ Find(h, n, k) = FindIn(h, x.outer, k)
          /\ \A none : Value(h, n, k, none) = ValueIn(h, x.outer, k, none)
      BY <1>2, OwnOrOuter DEF HasNode
    <2> QED BY <1>2, <2>1, <2>2 DEF KeepsLevels
  <1> QED BY <1>1, <1>2

\* innermost_copy(): the same node again.
LEMMA CopySees ==
  ASSUME NEW V, NEW h, WellFormed(h, V), NEW n \in DOMAIN h, NEW g, g = Append(h, h[n]),
         NEW k \in Keys
  PROVE  /\ h[n].index[k] # Absent => Find(g, Len(h) + 1, k) = <<Len(h) + 1, h[n].index[k]>>
         /\ h[n].index[k] = Absent => Find(g, Len(h) + 1, k) = Find(h, n, k)
  <1> DEFINE x == h[n]
  <1>1. x \in NodeOf(V) /\ Indexed(x) /\ InHeap(h, x.outer) /\ g = Append(h, x)
    BY NodeParts, LevelsInHeap DEF WellFormed
  <1>2. h[n] = x
    OBVIOUS
  <1> HIDE DEF x
  <1>3. /\ WellFormed(g, V) /\ g[Len(h) + 1] = x /\ Len(h) + 1 \in DOMAIN g
        /\ KeepsLevels(h, g, x.outer)
    BY <1>1, Appending
  <1>4. HasNode(g, Len(h) + 1, x)
    BY <1>3 DEF HasNode
  <1> QED BY <1>2, <1>3, <1>4, SameSees

-----------------------------------------------------------------------------
(* An entry added, and an entry overwritten.                               *)

\* g is h but for an entry of k at the end of node n.
EntryAdded(h, g, n, k, v) ==
  /\ DOMAIN g = DOMAIN h /\ Len(g) = Len(h)
  /\ \A m \in DOMAIN h \ {n} : g[m] = h[m]
  /\ g[n].outer = h[n].outer
  /\ Len(g[n].data) = Len(h[n].data) + 1
  /\ \A i \in DOMAIN h[n].data : g[n].data[i] = h[n].data[i]
  /\ g[n].data[Len(h[n].data) + 1] = [key |-> k, val |-> v]
  /\ g[n].index = [h[n].index EXCEPT ![k] = Len(h[n].data) + 1]

\* g is h but for the value of the i-th entry of node n.
EntryWritten(h, g, n, i, v) ==
  /\ DOMAIN g = DOMAIN h /\ Len(g) = Len(h)
  /\ \A m \in DOMAIN h \ {n} : g[m] = h[m]
  /\ g[n].outer = h[n].outer /\ g[n].index = h[n].index
  /\ DOMAIN g[n].data = DOMAIN h[n].data /\ Len(g[n].data) = Len(h[n].data)
  /\ \A j \in DOMAIN h[n].data \ {i} : g[n].data[j] = h[n].data[j]
  /\ g[n].data[i] = [key |-> h[n].data[i].key, val |-> v]

LEMMA EmplacedAdds ==
  ASSUME NEW V, NEW h, WellFormed(h, V), NEW n \in DOMAIN h, NEW k \in Keys, NEW v \in V,
         h[n].index[k] = Absent
  PROVE  LET g == Emplaced(h, n, k, v)
         IN  EntryAdded(h, g, n, k, v) /\ g \in Seq(NodeOf(V))
  <1> DEFINE o == h[n].outer
             d == Append(h[n].data, [key |-> k, val |-> v])
             x == [h[n].index EXCEPT ![k] = Len(h[n].data) + 1]
             new == [outer |-> o, data |-> d, index |-> x]
             g == Emplaced(h, n, k, v)
  <1>1. g = [h EXCEPT ![n] = new]
    BY DEF Emplaced
  <1>2. /\ h \in Seq(NodeOf(V)) /\ o \in Seq(Level) /\ h[n].data \in Seq(EntryOf(V))
        /\ h[n].index \in [Keys -> Nat] /\ Len(h[n].data) \in Nat
    BY NodeParts DEF WellFormed
  <1>3. /\ d \in Seq(EntryOf(V)) /\ Len(d) = Len(h[n].data) + 1
        /\ \A i \in DOMAIN h[n].data : d[i] = h[n].data[i]
        /\ d[Len(h[n].data) + 1] = [key |-> k, val |-> v]
        /\ x \in [Keys -> Nat]
    <2>1. [key |-> k, val |-> v] \in EntryOf(V)
      BY DEF EntryOf
    <2> QED BY <1>2, <2>1
  <1>4. new \in NodeOf(V) /\ new.outer = o /\ new.data = d /\ new.index = x
    <2> HIDE DEF o, d, x
    <2> QED BY <1>2, <1>3 DEF NodeOf, o
  <1>5. /\ g \in Seq(NodeOf(V)) /\ DOMAIN g = DOMAIN h /\ Len(g) = Len(h)
        /\ g[n] = new /\ \A m \in DOMAIN h \ {n} : g[m] = h[m]
    <2> HIDE DEF new, g
    <2> QED BY <1>1, <1>2, <1>4
  <1> HIDE DEF new, g
  <1> QED BY <1>3, <1>4, <1>5 DEF EntryAdded, g

LEMMA WrittenWrites ==
  ASSUME NEW V, NEW h, WellFormed(h, V), NEW n \in DOMAIN h, NEW i \in DOMAIN h[n].data,
         NEW v \in V
  PROVE  LET g == Written(h, <<n, i>>, v)
         IN  EntryWritten(h, g, n, i, v) /\ g \in Seq(NodeOf(V))
  <1> DEFINE o == h[n].outer
             e == [key |-> h[n].data[i].key, val |-> v]
             d == [h[n].data EXCEPT ![i] = e]
             x == h[n].index
             new == [outer |-> o, data |-> d, index |-> x]
             g == Written(h, <<n, i>>, v)
  <1>1. g = [h EXCEPT ![n] = new]
    BY DEF Written
  <1>2. /\ h \in Seq(NodeOf(V)) /\ o \in Seq(Level) /\ h[n].data \in Seq(EntryOf(V))
        /\ x \in [Keys -> Nat]
    BY NodeParts DEF WellFormed
  <1>3. /\ d \in Seq(EntryOf(V)) /\ DOMAIN d = DOMAIN h[n].data /\ Len(d) = Len(h[n].data)
        /\ d[i] = e /\ \A j \in DOMAIN h[n].data \ {i} : d[j] = h[n].data[j]
    <2>1. h[n].data[i] \in EntryOf(V)
      BY <1>2
    <2>2. e \in EntryOf(V)
      BY <2>1 DEF EntryOf
    <2> HIDE DEF e
    <2> QED BY <1>2, <2>2
  <1>4. new \in NodeOf(V) /\ new.outer = o /\ new.data = d /\ new.index = x
    <2> HIDE DEF o, d, x
    <2> QED BY <1>2, <1>3 DEF NodeOf
  <1>5. /\ g \in Seq(NodeOf(V)) /\ DOMAIN g = DOMAIN h /\ Len(g) = Len(h)
        /\ g[n] = new /\ \A m \in DOMAIN h \ {n} : g[m] = h[m]
    <2> HIDE DEF new, g
    <2> QED BY <1>1, <1>2, <1>4
  <1> HIDE DEF new, g, d
  <1> QED BY <1>3, <1>4, <1>5 DEF EntryWritten, g

\* In either case lookups along levels of the heap find what they found, for
\* a key other than the new one, or at a limit set before.
LEMMA AddedKeepsLevels ==
  ASSUME NEW V, NEW h, WellFormed(h, V), NEW n \in DOMAIN h, NEW k \in Keys, NEW v \in V,
         h[n].index[k] = Absent, NEW g, EntryAdded(h, g, n, k, v),
         NEW ls \in Seq(Level), InHeap(h, ls)
  PROVE  KeepsLevels(h, g, ls)
  <1> SUFFICES ASSUME NEW j \in Keys
               PROVE  /\ FindIn(g, ls, j) = FindIn(h, ls, j)
                      /\ \A none : ValueIn(g, ls, j, none) = ValueIn(h, ls, j, none)
    BY DEF KeepsLevels
  <1>1. /\ \A m \in DOMAIN h \ {n} : g[m] = h[m]
        /\ \A i \in DOMAIN h[n].data : g[n].data[i] = h[n].data[i]
        /\ g[n].index = [h[n].index EXCEPT ![k] = Len(h[n].data) + 1]
    BY DEF EntryAdded
  <1>2. h[n].index \in [Keys -> Nat] /\ Len(h[n].data) \in Nat
    BY NodeParts DEF WellFormed
  <1>3. ASSUME NEW q \in DOMAIN h
        PROVE  /\ g[q].index[j] \in Nat
               /\ \/ g[q].index[j] = h[q].index[j]
                  \/ h[q].index[j] = Absent /\ g[q].index[j] > Len(h[q].data)
    <2>1. CASE q = n /\ j = k
      <3>1. g[q].index[j] = Len(h[q].data) + 1
        BY <1>1, <1>2, <2>1
      <3> QED BY <1>2, <2>1, <3>1
    <2>2. CASE ~(q = n /\ j = k)
      <3>1. g[q].index[j] = h[q].index[j]
        BY <1>1, <1>2, <2>2
      <3>2. h[q].index \in [Keys -> Nat]
        BY NodeParts DEF WellFormed
      <3> QED BY <3>1, <3>2
    <2> QED BY <2>1, <2>2
  <1>4. FindIn(g, ls, j) = FindIn(h, ls, j)
    <2>1. \A i \in DOMAIN ls : ls[i].node \in DOMAIN h
      BY DEF InHeap
    <2> QED BY <1>3, <2>1, FindInSame
  <1>5. ASSUME FindIn(h, ls, j) # NoCell PROVE At(g, FindIn(h, ls, j)) = At(h, FindIn(h, ls, j))
    <2> DEFINE c == FindIn(h, ls, j)
    <2>1. \A i \in DOMAIN ls : ls[i].node \in DOMAIN h
      BY DEF InHeap
    <2>2. c[1] \in DOMAIN h /\ c[2] \in DOMAIN h[c[1]].data
      BY <1>5, <2>1, FindInCell
    <2> HIDE DEF c
    <2>3. g[c[1]].data[c[2]] = h[c[1]].data[c[2]]
      BY <1>1, <2>2
    <2> QED BY <2>3 DEF At, c
  <1> QED BY <1>4, <1>5 DEF ValueIn

LEMMA AddedWellFormed ==
  ASSUME NEW V, NEW h, WellFormed(h, V), NEW n \in DOMAIN h, NEW k \in Keys, NEW v \in V,
         h[n].index[k] = Absent, NEW g \in Seq(NodeOf(V)), EntryAdded(h, g, n, k, v)
  PROVE  WellFormed(g, V)
  <1>1. h \in Seq(NodeOf(V)) /\ \A m \in DOMAIN h : Within(h, m, h[m].outer) /\ Indexed(h[m])
    BY DEF WellFormed
  <1>2. /\ DOMAIN g = DOMAIN h
        /\ \A m \in DOMAIN h \ {n} : g[m] = h[m]
        /\ g[n].outer = h[n].outer
        /\ Len(g[n].data) = Len(h[n].data) + 1
        /\ \A i \in DOMAIN h[n].data : g[n].data[i] = h[n].data[i]
        /\ g[n].data[Len(h[n].data) + 1] = [key |-> k, val |-> v]
        /\ g[n].index = [h[n].index EXCEPT ![k] = Len(h[n].data) + 1]
    BY DEF EntryAdded
  <1>3. \A m \in DOMAIN h : Len(h[m].data) \in Nat /\ Len(h[m].data) <= Len(g[m].data)
                            /\ Len(g[m].data) \in Nat
    <2> TAKE m \in DOMAIN h
    <2>1. Len(h[m].data) \in Nat
      BY <1>1, NodeParts
    <2> QED BY <1>2, <2>1
  <1>4. ASSUME NEW m \in DOMAIN g PROVE Within(g, m, g[m].outer)
    <2> DEFINE o == h[m].outer
    <2>1. g[m].outer = o
      BY <1>2
    <2>2. ASSUME NEW i \in DOMAIN o PROVE o[i].node \in 1..(m - 1) /\ o[i].limit <= Len(g[o[i].node].data)
      <3>1. /\ o[i] \in Level /\ o[i].node \in DOMAIN h /\ o[i].node \in 1..(m - 1)
            /\ o[i].limit <= Len(h[o[i].node].data)
        BY <1>2, OuterNodes
      <3>2. o[i].limit \in Nat
        BY <3>1 DEF Level
      <3> QED BY <1>3, <3>1, <3>2
    <2> QED BY <2>1, <2>2 DEF Within
  <1>5. ASSUME NEW m \in DOMAIN g PROVE Indexed(g[m])
    <2>1. CASE m # n
      BY <1>1, <1>2, <2>1
    <2>2. CASE m = n
      <3> DEFINE d == h[n].data
                 b == Len(h[n].data)
                 x == h[n].index
                 dd == g[n].data
                 xx == g[n].index
      <3>1. /\ \A i \in DOMAIN d : x[d[i].key] = i
            /\ \A j \in Keys : x[j] # 0 => x[j] \in DOMAIN d /\ d[x[j]].key = j
        BY <1>1 DEF Indexed, Absent
      <3>2. d \in Seq(EntryOf(V)) /\ b \in Nat /\ x \in [Keys -> Nat] /\ x[k] = 0
        BY <1>1, NodeParts DEF Absent
      <3>3. dd \in Seq(EntryOf(V)) /\ DOMAIN dd = 1..Len(dd)
        <4>1. n \in DOMAIN g
          BY <1>2
        <4>2. dd \in Seq(EntryOf(V))
          BY <4>1, NodeParts
        <4> HIDE DEF dd
        <4> QED BY <4>2
      <3>4. /\ DOMAIN d = 1..b
            /\ \A i \in 1..b : d[i] \in EntryOf(V)
        <4> DEFINE dat == d
        <4>1. dat \in Seq(EntryOf(V))
          BY <3>2
        <4> HIDE DEF dat
        <4>2. DOMAIN dat = 1..Len(dat) /\ \A i \in 1..Len(dat) : dat[i] \in EntryOf(V)
          BY <4>1
        <4> QED BY <4>2 DEF dat
      <3>5. /\ DOMAIN dd = 1..(b + 1) /\ \A i \in 1..b : dd[i] = d[i]
            /\ dd[b + 1].key = k /\ xx = [x EXCEPT ![k] = b + 1]
        <4>1. dd[b + 1].key = k
          BY <1>2
        <4>2. Len(dd) = b + 1
          BY <1>2
        <4> QED BY <1>2, <3>3, <3>4, <4>1, <4>2
      <3> HIDE DEF d, b, x, dd, xx
      <3>6. \A i \in 1..b : d[i].key \in Keys
        BY <3>4 DEF EntryOf
      <3>7. /\ \A i \in 1..(b + 1) : xx[dd[i].key] = i
            /\ \A j \in Keys : xx[j] # 0 => xx[j] \in 1..(b + 1) /\ dd[xx[j]].key = j
        <4>1. ASSUME NEW i \in 1..(b + 1) PROVE xx[dd[i].key] = i
          <5>1. CASE i = b + 1
            BY <3>2, <3>5, <5>1
          <5>2. CASE i # b + 1
            <6>1. i \in 1..b /\ i # 0
              BY <3>2, <5>2
            <6>2. d[i].key # k
              BY <3>1, <3>2, <3>4, <6>1
            <6>3. dd[i] = d[i] /\ x[d[i].key] = i /\ d[i].key \in Keys
              BY <3>1, <3>4, <3>5, <3>6, <6>1
            <6>4. xx[d[i].key] = x[d[i].key]
              BY <3>2, <3>5, <6>2, <6>3
            <6> QED BY <6>3, <6>4
          <5> QED BY <5>1, <5>2
        <4>2. ASSUME NEW j \in Keys, xx[j] # 0 PROVE xx[j] \in 1..(b + 1) /\ dd[xx[j]].key = j
          <5>1. CASE j = k
            BY <3>2, <3>5, <5>1
          <5>2. CASE j # k
            <6>1. xx[j] = x[j]
              BY <3>2, <3>5, <5>2
            <6>2. x[j] \in 1..b /\ d[x[j]].key = j
              BY <3>1, <3>2, <3>4, <4>2, <6>1
            <6> QED BY <3>2, <3>5, <6>1, <6>2
          <5> QED BY <5>1, <5>2
        <4> QED BY <4>1, <4>2
      <3> QED BY <2>2, <3>5, <3>7 DEF Indexed, Absent, dd, xx
    <2> QED BY <2>1, <2>2
  <1> QED BY <1>4, <1>5 DEF WellFormed

\* try_emplace of a key that the node does not have: the node finds it from
\* then on, and nothing else is found that was not before.
LEMMA AddedSees ==
  ASSUME NEW V, NEW h, WellFormed(h, V), NEW n \in DOMAIN h, NEW k \in Keys, NEW v \in V,
         h[n].index[k] = Absent, NEW g, WellFormed(g, V), EntryAdded(h, g, n, k, v)
  PROVE  /\ Find(g, n, k) = <<n, Len(h[n].data) + 1>>
         /\ \A none : Value(g, n, k, none) = v
         /\ \A m \in DOMAIN h, j \in Keys : ~(m = n /\ j = k) =>
              /\ Find(g, m, j) = Find(h, m, j)
              /\ \A none : Value(g, m, j, none) = Value(h, m, j, none)
  <1>1. /\ DOMAIN g = DOMAIN h
        /\ \A m \in DOMAIN h \ {n} : g[m] = h[m]
        /\ g[n].outer = h[n].outer
        /\ \A i \in DOMAIN h[n].data : g[n].data[i] = h[n].data[i]
        /\ g[n].data[Len(h[n].data) + 1] = [key |-> k, val |-> v]
        /\ g[n].index = [h[n].index EXCEPT ![k] = Len(h[n].data) + 1]
    BY DEF EntryAdded
  <1>2. h[n].index \in [Keys -> Nat] /\ Len(h[n].data) \in Nat
    BY NodeParts DEF WellFormed
  <1>3. Find(g, n, k) = <<n, Len(h[n].data) + 1>> /\ \A none : Value(g, n, k, none) = v
    <2> DEFINE x == g[n]
    <2>1. HasNode(g, n, x) /\ x.index[k] = Len(h[n].data) + 1
          /\ x.data[Len(h[n].data) + 1].val = v
      BY <1>1, <1>2 DEF HasNode
    <2>2. x.index[k] # Absent
      BY <1>2, <2>1 DEF Absent
    <2> HIDE DEF x
    <2>3. /\ Find(g, n, k) = <<n, x.index[k]>>
          /\ \A none : Value(g, n, k, none) = x.data[x.index[k]].val
      BY <2>1, <2>2, OwnOrOuter
    <2> QED BY <2>1, <2>3
  <1>4. ASSUME NEW m \in DOMAIN h, NEW j \in Keys, ~(m = n /\ j = k)
        PROVE  /\ Find(g, m, j) = Find(h, m, j)
               /\ \A none : Value(g, m, j, none) = Value(h, m, j, none)
    <2> DEFINE x == h[m]
               y == g[m]
    <2>1. HasNode(h, m, x) /\ HasNode(g, m, y) /\ x.outer = y.outer /\ y.index[j] = x.index[j]
      BY <1>1, <1>2, <1>4 DEF HasNode
    <2>2. x.index[j] # Absent => x.index[j] \in DOMAIN x.data
      BY DEF WellFormed, Indexed
    <2>3. x.outer \in Seq(Level) /\ InHeap(h, x.outer)
      BY OuterNodes, LevelsInHeap
    <2>4. \A i \in DOMAIN x.data : y.data[i] = x.data[i]
      BY <1>1
    <2> HIDE DEF x, y
    <2>5. CASE x.index[j] # Absent
      <3>1. /\ Find(g, m, j) = <<m, x.index[j]>> /\ Find(h, m, j) = <<m, x.index[j]>>
            /\ \A none : /\ Value(g, m, j, none) = y.data[x.index[j]].val
                         /\ Value(h, m, j, none) = x.data[x.index[j]].val
        BY <2>1, <2>5, OwnOrOuter
      <3> QED BY <2>2, <2>4, <2>5, <3>1
    <2>6. CASE x.index[j] = Absent
      <3>1. /\ Find(g, m, j) = FindIn(g, x.outer, j)
            /\ \A none : Value(g, m, j, none) = ValueIn(g, x.outer, j, none)
        BY <2>1, <2>6, OwnOrOuter
      <3>2. /\ Find(h, m, j) = FindIn(h, x.outer, j)
            /\ \A none : Value(h, m, j, none) = ValueIn(h, x.outer, j, none)
        BY <2>1, <2>6, OwnOrOuter
      <3>3. KeepsLevels(h, g, x.outer)
        BY <2>3, AddedKeepsLevels
      <3> QED BY <3>1, <3>2, <3>3 DEF KeepsLevels
    <2> QED BY <2>5, <2>6
  <1> QED BY <1>3, <1>4

\* *p = v: every node that found the entry finds the new value, and the others
\* what they found before.
LEMMA WrittenSees ==
  ASSUME NEW V, NEW h, WellFormed(h, V), NEW n \in DOMAIN h, NEW i \in DOMAIN h[n].data,
         NEW v \in V, NEW g \in Seq(NodeOf(V)), EntryWritten(h, g, n, i, v)
  PROVE  /\ WellFormed(g, V)
         /\ \A m \in DOMAIN h : Levels(g, m) = Levels(h, m)
         /\ \A m \in DOMAIN h, j \in Keys :
              /\ Find(g, m, j) = Find(h, m, j)
              /\ \A none : Value(g, m, j, none) =
                   IF Find(h, m, j) = <<n, i>> THEN v ELSE Value(h, m, j, none)
         /\ \A ls \in Seq(Level) : InHeap(h, ls) =>
              \A j \in Keys :
                /\ FindIn(g, ls, j) = FindIn(h, ls, j)
                /\ \A none : ValueIn(g, ls, j, none) =
                     IF FindIn(h, ls, j) = <<n, i>> THEN v ELSE ValueIn(h, ls, j, none)
  <1>1. /\ DOMAIN g = DOMAIN h
        /\ \A m \in DOMAIN h \ {n} : g[m] = h[m]
        /\ g[n].outer = h[n].outer /\ g[n].index = h[n].index
        /\ DOMAIN g[n].data = DOMAIN h[n].data /\ Len(g[n].data) = Len(h[n].data)
        /\ \A j \in DOMAIN h[n].data \ {i} : g[n].data[j] = h[n].data[j]
        /\ g[n].data[i] = [key |-> h[n].data[i].key, val |-> v]
    BY DEF EntryWritten
  <1>2. \A m \in DOMAIN h : /\ g[m].outer = h[m].outer /\ g[m].index = h[m].index
                            /\ Len(g[m].data) = Len(h[m].data) /\ DOMAIN g[m].data = DOMAIN h[m].data
                            /\ \A j \in DOMAIN h[m].data : g[m].data[j].key = h[m].data[j].key
    BY <1>1
  <1>3. WellFormed(g, V)
    <2>1. ASSUME NEW m \in DOMAIN g PROVE Within(g, m, g[m].outer)
      <3> DEFINE o == h[m].outer
      <3>1. m \in DOMAIN h /\ g[m].outer = o
        BY <1>1, <1>2
      <3>2. \A j \in DOMAIN o : o[j].node \in DOMAIN h
        BY <3>1, OuterNodes
      <3>3. Within(h, m, o)
        BY <3>1 DEF WellFormed
      <3> HIDE DEF o
      <3>4. Within(g, m, o)
        BY <1>2, <3>2, <3>3 DEF Within
      <3> QED BY <3>1, <3>4
    <2>2. ASSUME NEW m \in DOMAIN g PROVE Indexed(g[m])
      <3> DEFINE x == h[m]
                 y == g[m]
      <3>1. m \in DOMAIN h /\ Indexed(x)
        BY <1>1 DEF WellFormed
      <3>2. /\ y.index = x.index /\ DOMAIN y.data = DOMAIN x.data
            /\ \A j \in DOMAIN x.data : y.data[j].key = x.data[j].key
        BY <1>2, <3>1
      <3> HIDE DEF x, y
      <3>3. Indexed(y)
        BY <3>1, <3>2 DEF Indexed
      <3> QED BY <3>3 DEF y
    <2> QED BY <2>1, <2>2 DEF WellFormed
  <1>4. \A m \in DOMAIN h : Levels(g, m) = Levels(h, m)
    BY <1>2 DEF Levels
  <1>5. ASSUME NEW ls \in Seq(Level), InHeap(h, ls), NEW j \in Keys
        PROVE  /\ FindIn(g, ls, j) = FindIn(h, ls, j)
               /\ \A none : ValueIn(g, ls, j, none) =
                    IF FindIn(h, ls, j) = <<n, i>> THEN v ELSE ValueIn(h, ls, j, none)
    <2> DEFINE c == FindIn(h, ls, j)
    <2>1. \A l \in DOMAIN ls : ls[l].node \in DOMAIN h
      BY <1>5 DEF InHeap
    <2>2. FindIn(g, ls, j) = c
      <3>1. \A l \in DOMAIN ls : PlaceAt(g, ls[l], j) = PlaceAt(h, ls[l], j)
        BY <1>2, <2>1 DEF PlaceAt
      <3> QED BY <3>1, FindInKept
    <2>3. CASE c = NoCell
      <3>1. <<n, i>> # NoCell
        <4>1. n \in 1..Len(h) /\ Len(h) \in Nat
          BY NodeParts DEF WellFormed
        <4> QED BY <4>1 DEF NoCell
      <3> QED BY <2>2, <2>3, <3>1 DEF ValueIn
    <2>4. CASE c # NoCell
      <3>1. c = <<c[1], c[2]>> /\ c[1] \in DOMAIN h /\ c[2] \in DOMAIN h[c[1]].data
        BY <2>1, <2>4, FindInCell
      <3> HIDE DEF c
      <3>2. g[c[1]].data[c[2]].val = IF c = <<n, i>> THEN v ELSE h[c[1]].data[c[2]].val
        <4>1. CASE c = <<n, i>>
          <5>1. c[1] = n /\ c[2] = i
            BY <4>1
          <5> QED BY <1>1, <4>1, <5>1
        <4>2. CASE c # <<n, i>>
          <5>1. ~(c[1] = n /\ c[2] = i)
            BY <3>1, <4>2
          <5>2. g[c[1]].data[c[2]] = h[c[1]].data[c[2]]
            BY <1>1, <3>1, <5>1
          <5> QED BY <4>2, <5>2
        <4> QED BY <4>1, <4>2
      <3> QED BY <2>2, <2>4, <3>2 DEF ValueIn, At, c
    <2> QED BY <2>2, <2>3, <2>4
  <1>6. ASSUME NEW m \in DOMAIN h, NEW j \in Keys
        PROVE  /\ Find(g, m, j) = Find(h, m, j)
               /\ \A none : Value(g, m, j, none) =
                    IF Find(h, m, j) = <<n, i>> THEN v ELSE Value(h, m, j, none)
    <2>1. Levels(h, m) \in Seq(Level) /\ InHeap(h, Levels(h, m))
      BY LevelNodes, LevelsInHeap
    <2>2. /\ FindIn(g, Levels(h, m), j) = FindIn(h, Levels(h, m), j)
          /\ \A none : ValueIn(g, Levels(h, m), j, none) =
               IF FindIn(h, Levels(h, m), j) = <<n, i>> THEN v ELSE ValueIn(h, Levels(h, m), j, none)
      BY <1>5, <2>1
    <2> QED BY <1>4, <2>2, FindAlongLevels, ValueAlongLevels
  <1> QED BY <1>3, <1>4, <1>5, <1>6
-----------------------------------------------------------------------------
(* FoldLeft, step by step.                                                 *)

\* A set of some of the numbers up to n has a greatest element.
LEMMA GreatestUpTo ==
  ASSUME NEW n \in Nat, NEW s \in SUBSET (0..n), s # {}
  PROVE  Max(s) \in s /\ \A y \in s : y <= Max(s)
  <1> DEFINE T == {z \in Nat : \A y \in s : y <= z}
  <1>1. n \in T /\ T \in SUBSET Nat
    OBVIOUS
  <1>2. PICK z \in T : \A u \in T : z <= u
    <2> HIDE DEF T
    <2> QED BY <1>1, LeastOf
  <1>3. z \in s
    <2>1. CASE z = 0
      <3>1. PICK y \in s : TRUE
        OBVIOUS
      <3>2. y \in 0..n /\ y <= 0
        BY <1>2, <2>1, <3>1
      <3> QED BY <2>1, <3>1, <3>2
    <2>2. CASE z # 0
      <3>1. z - 1 \in Nat /\ z - 1 \notin T
        BY <1>2, <2>2
      <3>2. PICK y \in s : ~(y <= z - 1)
        BY <3>1
      <3> QED BY <1>2, <3>1, <3>2
    <2> QED BY <2>1, <2>2
  <1>4. \E x \in s : \A y \in s : x >= y
    BY <1>2, <1>3
  <1> QED BY <1>4 DEF Max

LEMMA GreatestOf ==
  ASSUME NEW n \in Nat, NEW s \in SUBSET (1..n), s # {}
  PROVE  Max(s) \in s /\ \A y \in s : y <= Max(s)
  <1>1. s \in SUBSET (0..n)
    OBVIOUS
  <1> QED BY <1>1, GreatestUpTo

LEMMA MaxUpTo ==
  ASSUME NEW i \in Nat \ {0}
  PROVE  Max(1..i) = i /\ (1..i) \ {i} = 1..(i - 1)
  <1>1. Max(1..i) \in 1..i /\ \A y \in 1..i : y <= Max(1..i)
    <2>1. 1..i \in SUBSET (1..i) /\ 1..i # {} /\ i \in Nat
      OBVIOUS
    <2> QED BY <2>1, GreatestOf
  <1>2. i \in 1..i /\ i <= Max(1..i)
    BY <1>1
  <1> QED BY <1>1, <1>2

\* The function by which FoldLeft is defined, for a step that stays in S.
FoldsBy(f, n, base, step, us) ==
  \A s \in SUBSET (1..n) :
    f[s] = IF s = {} THEN base ELSE step[<<f[s \ {Max(s)}], us[Max(s)]>>]

LEMMA FoldExists ==
  ASSUME NEW S, NEW U, NEW us \in Seq(U), NEW base \in S, NEW step \in [S \X U -> S]
  PROVE  \E f \in [SUBSET (1..Len(us)) -> S] : FoldsBy(f, Len(us), base, step, us)
  <1> DEFINE N == Len(us)
             Good == {m \in 0..N : \E f \in [SUBSET (1..m) -> S] : FoldsBy(f, m, base, step, us)}
  <1>1. N \in Nat /\ \A i \in 1..N : us[i] \in U
    OBVIOUS
  <1> HIDE DEF N
  <1>2. 0 \in Good
    <2> DEFINE f == [s \in SUBSET (1..0) |-> base]
    <2>1. 1..0 = {} /\ \A s \in SUBSET (1..0) : s = {}
      OBVIOUS
    <2>2. f \in [SUBSET (1..0) -> S] /\ FoldsBy(f, 0, base, step, us)
      BY <2>1 DEF FoldsBy
    <2> QED BY <1>1, <2>2
  <1>3. ASSUME NEW m \in 0..(N - 1), m \in Good PROVE m + 1 \in Good
    <2> DEFINE e == m + 1
    <2>1. PICK f \in [SUBSET (1..m) -> S] : FoldsBy(f, m, base, step, us)
      BY <1>3
    <2>2. e \in 1..N /\ m \in Nat /\ e \in Nat /\ m = e - 1 /\ us[e] \in U /\ e \in 0..N
      BY <1>1
    <2> HIDE DEF e
    <2>3. \A s \in SUBSET (1..e) : s \ {e} \in SUBSET (1..m) /\ (e \notin s => s \in SUBSET (1..m))
      <3> TAKE s \in SUBSET (1..e)
      <3>1. \A x \in 1..e : x # e => x \in 1..m
        BY <2>2
      <3> QED BY <3>1
    <2> DEFINE g == [s \in SUBSET (1..e) |->
                       IF e \in s THEN step[<<f[s \ {e}], us[e]>>] ELSE f[s]]
    <2>4. g \in [SUBSET (1..e) -> S]
      <3> SUFFICES ASSUME NEW s \in SUBSET (1..e)
                   PROVE (IF e \in s THEN step[<<f[s \ {e}], us[e]>>] ELSE f[s]) \in S
        OBVIOUS
      <3>1. CASE e \in s
        <4>1. f[s \ {e}] \in S
          BY <2>3
        <4> QED BY <2>2, <3>1, <4>1
      <3>2. CASE e \notin s
        BY <2>3, <3>2
      <3> QED BY <3>1, <3>2
    <2>5. ASSUME NEW s \in SUBSET (1..e)
          PROVE  g[s] = IF s = {} THEN base ELSE step[<<g[s \ {Max(s)}], us[Max(s)]>>]
      <3>1. CASE e \in s
        <4>1. Max(s) \in s /\ \A y \in s : y <= Max(s)
          BY <2>2, <3>1, GreatestOf
        <4>2. Max(s) = e
          <5>1. Max(s) \in 1..e /\ e <= Max(s)
            BY <3>1, <4>1
          <5> QED BY <2>2, <5>1
        <4>3. s \ {e} \in SUBSET (1..e) /\ e \notin s \ {e}
          OBVIOUS
        <4>4. g[s \ {e}] = f[s \ {e}]
          BY <4>3
        <4>5. g[s] = step[<<f[s \ {e}], us[e]>>]
          BY <3>1
        <4> QED BY <3>1, <4>2, <4>4, <4>5
      <3>2. CASE e \notin s
        <4>1. s \in SUBSET (1..m) /\ g[s] = f[s]
          BY <2>3, <3>2
        <4>2. f[s] = IF s = {} THEN base ELSE step[<<f[s \ {Max(s)}], us[Max(s)]>>]
          BY <2>1, <4>1 DEF FoldsBy
        <4>3. g[s \ {Max(s)}] = f[s \ {Max(s)}]
          BY <3>2
        <4> QED BY <4>1, <4>2, <4>3
      <3> QED BY <3>1, <3>2
    <2>6. FoldsBy(g, e, base, step, us)
      BY <2>5 DEF FoldsBy
    <2> QED BY <2>2, <2>4, <2>6 DEF e
  <1>4. \A i \in 0..N : i \in Good
    <2> HIDE DEF Good
    <2> QED BY <1>1, <1>2, <1>3, UpTo
  <1>5. N \in Good
    <2> HIDE DEF Good
    <2>1. N \in 0..N
      BY <1>1
    <2> QED BY <1>4, <2>1
  <1> QED BY <1>5 DEF N
=============================================================================
