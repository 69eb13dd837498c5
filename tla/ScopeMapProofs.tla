--------------------------- MODULE ScopeMapProofs ---------------------------
(***************************************************************************)
(* That the heap of ScopeMap is well formed, that what a map finds cannot  *)
(* change under it, and that scope maps implement the promise of           *)
(* ScopeSnapshot, for any number of maps, keys, values, nodes and entries. *)
(*                                                                         *)
(* TypeOK is not inductive on its own: a copy of a chain of levels is a    *)
(* chain of nodes only because the chain is one (OuterFollowsParent).      *)
(***************************************************************************)
EXTENDS ScopeMap, FiniteSetTheorems, TLAPS

L == INSTANCE HeapLemmas

Inv == TypeOK /\ HeapSound

-----------------------------------------------------------------------------
(* Types of what the operations build.                                     *)

LEMMA NodeType ==
  ASSUME TypeOK, NEW n \in Nodes
  PROVE  /\ heap[n] \in Node
         /\ heap[n].outer \in Seq(Level)
         /\ heap[n].data \in Seq(Entry)
         /\ heap[n].index \in [Keys -> Nat]
  <1>1. heap[n] \in Node
    BY DEF TypeOK, Nodes
  <1> QED BY <1>1 DEF Node

\* The levels visible from a node are its own and then those around it.
LEMMA LevelsType ==
  ASSUME TypeOK, NEW n \in Nodes
  PROVE  /\ H!Levels(heap, n) \in Seq(Level)
         /\ Len(H!Levels(heap, n)) = Len(heap[n].outer) + 1
         /\ H!Levels(heap, n)[1] = [node |-> n, limit |-> Len(heap[n].data)]
         /\ \A i \in 1..Len(heap[n].outer) :
              H!Levels(heap, n)[i + 1] = heap[n].outer[i]
  <1> DEFINE l == [node |-> n, limit |-> Len(heap[n].data)]
             o == heap[n].outer
  <1>1. heap[n] \in Node
    BY DEF TypeOK, Nodes
  <1>2. l \in Level /\ o \in Seq(Level)
    BY <1>1 DEF Node, Level, Nodes
  <1>3. H!Levels(heap, n) = <<l>> \o o
    BY DEF H!Levels
  <1> HIDE DEF l, o
  <1>4. /\ <<l>> \o o \in Seq(Level) /\ Len(<<l>> \o o) = Len(o) + 1
        /\ (<<l>> \o o)[1] = l /\ \A i \in 1..Len(o) : (<<l>> \o o)[i + 1] = o[i]
    BY <1>2
  <1> QED BY <1>3, <1>4 DEF l, o

\* A new node in the heap, after which an object owns it.
LEMMA BuildType ==
  ASSUME TypeOK, NEW m \in Maps, NEW n \in Node, Build(m, n)
  PROVE  TypeOK'
  BY DEF TypeOK, Build

LEMMA EmptyNodeType ==
  ASSUME NEW ls \in Seq(Level)
  PROVE  H!EmptyNode(ls) \in Node
  BY DEF H!EmptyNode, H!Absent, Node

LEMMA FunctionIsSeq ==
  ASSUME NEW S, NEW n \in Nat, NEW f, f = [i \in 1..n |-> f[i]],
         \A i \in 1..n : f[i] \in S
  PROVE  f \in Seq(S) /\ Len(f) = n
  <1>1. f \in [1..n -> S]
    OBVIOUS
  <1> QED BY <1>1

LEMMA SeqDomain ==
  ASSUME NEW S, NEW s \in Seq(S)
  PROVE  DOMAIN s = 1..Len(s) /\ Len(s) \in Nat
  OBVIOUS

LEMMA Replaced ==
  ASSUME NEW S, NEW s \in Seq(S), NEW i \in 1..Len(s), NEW x \in S, NEW t,
         t = [s EXCEPT ![i] = x]
  PROVE  t \in Seq(S) /\ Len(t) = Len(s) /\ t[i] = x /\ \A j \in 1..Len(s) \ {i} : t[j] = s[j]
  OBVIOUS

LEMMA LenOfFunction ==
  ASSUME NEW n \in Nat, NEW f, f = [i \in 1..n |-> f[i]]
  PROVE  DOMAIN f = 1..n /\ Len(f) = n
  <1> DEFINE S == {f[i] : i \in 1..n}
  <1>1. \A i \in 1..n : f[i] \in S
    OBVIOUS
  <1> HIDE DEF S
  <1>2. Len(f) = n
    BY <1>1, FunctionIsSeq
  <1>3. DOMAIN f = 1..n
    OBVIOUS
  <1> QED BY <1>2, <1>3

\* What deep_copy builds: node j of it copies the j-th level from outside.
LEMMA CopiesType ==
  ASSUME TypeOK, NEW n \in Nodes,
         \A i \in 1..Len(H!Levels(heap, n)) : H!Levels(heap, n)[i].node \in Nodes
  PROVE  /\ H!DeepCopied(heap, n) \in Seq(Node)
         /\ Len(H!DeepCopied(heap, n)) = Len(H!Levels(heap, n))
  <1> DEFINE ls == H!Levels(heap, n)
             nb == Len(ls)
             cs == H!DeepCopied(heap, n)
  <1> HIDE DEF ls, nb, cs
  <1>1. ls \in Seq(Level) /\ nb \in Nat /\ nb = Len(ls)
        /\ \A i \in 1..nb : ls[i].node \in Nodes /\ ls[i] \in Level
    <2>1. ls \in Seq(Level)
      BY LevelsType DEF ls
    <2>2. \A i \in 1..nb : ls[i].node \in Nodes
      BY DEF ls, nb
    <2> QED BY <2>1, <2>2 DEF nb
  <1>2. cs = [j \in 1..nb |-> cs[j]]
    BY DEF cs, H!DeepCopied, ls, nb
  <1>3. ASSUME NEW j \in 1..nb PROVE cs[j] \in Node
    <2> DEFINE o == [i \in 1..(j - 1) |-> [node  |-> Len(heap) + j - i,
                                           limit |-> ls[nb + 1 - j + i].limit]]
               s == ls[nb + 1 - j].node
    <2>1. cs[j] = [outer |-> o, data |-> heap[s].data, index |-> heap[s].index]
      BY DEF H!DeepCopied, cs, ls, nb
    <2>2. s \in Nodes
      BY <1>1
    <2>3. o \in Seq(Level)
      <3>1. ASSUME NEW i \in 1..(j - 1) PROVE o[i] \in Level
        <4>1. nb + 1 - j + i \in 1..nb
          BY <1>1
        <4>2. ls[nb + 1 - j + i] \in Level
          BY <1>1, <4>1
        <4>3. Len(heap) + j - i \in Nat /\ ls[nb + 1 - j + i].limit \in Nat
          BY <1>1, <4>2 DEF Level, TypeOK
        <4> QED BY <4>3 DEF Level
      <3>2. o = [i \in 1..(j - 1) |-> o[i]] /\ j - 1 \in Nat
        BY <1>1
      <3> HIDE DEF o
      <3> QED BY <3>1, <3>2, FunctionIsSeq
    <2> HIDE DEF o, s
    <2>4. heap[s] \in Node
      BY <2>2 DEF TypeOK, Nodes
    <2> QED BY <2>1, <2>3, <2>4 DEF Node
  <1>4. cs \in Seq(Node) /\ Len(cs) = nb
    BY <1>1, <1>2, <1>3, FunctionIsSeq
  <1> QED BY <1>4 DEF cs, ls, nb

-----------------------------------------------------------------------------
(* What the operations do to the structure of the heap.                    *)

\* Nodes put at the end of the heap change nothing for those before them.
LEMMA OldNodesKept ==
  ASSUME Inv, NEW ns \in Seq(Node), heap' = heap \o ns
  PROVE  /\ heap' \in Seq(Node) /\ Len(heap') = Len(heap) + Len(ns)
         /\ \A n \in Nodes : /\ heap'[n] = heap[n]
                              /\ Follows(heap', n) /\ Indexed(heap', n)
         /\ \A j \in 1..Len(ns) : heap'[Len(heap) + j] = ns[j]
  <1>1. /\ heap' \in Seq(Node) /\ Len(heap') = Len(heap) + Len(ns)
        /\ \A n \in Nodes : heap'[n] = heap[n]
        /\ \A j \in 1..Len(ns) : heap'[Len(heap) + j] = ns[j]
    BY DEF Inv, TypeOK, Nodes
  <1>2. ASSUME NEW n \in Nodes PROVE Follows(heap', n)
    <2>1. Follows(heap, n) /\ heap'[n] = heap[n]
      BY <1>1 DEF Inv, HeapSound, OuterFollowsParent
    <2> SUFFICES ASSUME NEW i \in DOMAIN heap[n].outer
                 PROVE  SoundLevel(heap', n, heap[n].outer, i)
      BY <2>1 DEF Follows
    <2>2. SoundLevel(heap, n, heap[n].outer, i)
      BY <2>1 DEF Follows
    <2>3. heap[n].outer[i].node \in Nodes
      BY <2>2 DEF SoundLevel, Nodes, Inv, TypeOK
    <2> QED BY <1>1, <2>2, <2>3, Zenon DEF SoundLevel
  <1>3. ASSUME NEW n \in Nodes PROVE Indexed(heap', n)
    <2>1. Indexed(heap, n) /\ heap'[n] = heap[n]
      BY <1>1 DEF Inv, HeapSound, IndexAgrees
    <2> QED BY <2>1 DEF Indexed
  <1> QED BY <1>1, <1>2, <1>3, Zenon

\* The levels visible from a node are sound, its own included.
LEMMA LevelsSound ==
  ASSUME Inv, NEW n \in Nodes
  PROVE  LET ls == H!Levels(heap, n)
         IN  \A i \in 1..Len(ls) :
               /\ ls[i] \in Level
               /\ ls[i].node \in 1..n /\ ls[i].node \in Nodes
               /\ ls[i].limit <= Len(heap[ls[i].node].data)
               /\ i # 1 => ls[i].node # n
               /\ Len(heap[ls[i].node].outer) = Len(ls) - i
               /\ \A j \in 1..(Len(ls) - i) : heap[ls[i].node].outer[j] = ls[i + j]
  <1> DEFINE ls == H!Levels(heap, n)
             o  == heap[n].outer
  <1>1. Follows(heap, n) /\ TypeOK /\ heap[n] \in Node
    BY DEF Inv, HeapSound, OuterFollowsParent, TypeOK, Nodes
  <1>2. /\ ls \in Seq(Level) /\ Len(ls) = Len(o) + 1 /\ o \in Seq(Level)
        /\ ls[1] = [node |-> n, limit |-> Len(heap[n].data)]
        /\ \A j \in 1..Len(o) : ls[j + 1] = o[j]
    BY <1>1, LevelsType DEF Node
  <1> HIDE DEF ls
  <1> SUFFICES ASSUME NEW i \in 1..Len(ls)
               PROVE  /\ ls[i] \in Level
                      /\ ls[i].node \in 1..n /\ ls[i].node \in Nodes
                      /\ ls[i].limit <= Len(heap[ls[i].node].data)
                      /\ i # 1 => ls[i].node # n
                      /\ Len(heap[ls[i].node].outer) = Len(ls) - i
                      /\ \A j \in 1..(Len(ls) - i) : heap[ls[i].node].outer[j] = ls[i + j]
    BY DEF ls
  <1>3. CASE i = 1
    <2>1. ls[i].node = n /\ ls[i].limit = Len(heap[n].data) /\ ls[i] \in Level
      BY <1>2, <1>3
    <2>2. \A j \in 1..Len(o) : o[j] = ls[i + j]
      BY <1>2, <1>3
    <2>3. heap[n].data \in Seq(Entry)
      BY <1>1 DEF Node
    <2> QED BY <1>2, <1>3, <2>1, <2>2, <2>3 DEF Nodes, TypeOK
  <1>4. CASE i # 1
    <2>1. i - 1 \in DOMAIN o /\ i - 1 \in 1..Len(o) /\ ls[i] = o[i - 1]
      BY <1>2, <1>4, SMTT(30)
    <2> DEFINE p == o[i - 1].node
    <2>2. /\ p \in 1..(n - 1) /\ o[i - 1].limit <= Len(heap[p].data)
          /\ Len(heap[p].outer) = Len(o) - (i - 1)
          /\ \A j \in DOMAIN heap[p].outer : heap[p].outer[j] = o[i - 1 + j]
      BY <1>1, <2>1 DEF Follows, SoundLevel
    <2>0. Len(heap) \in Nat /\ n \in 1..Len(heap)
      BY DEF Inv, TypeOK, Nodes
    <2> HIDE DEF p
    <2>3. p \in Nodes /\ p \in 1..n /\ p # n
      <3> SUFFICES ASSUME p \in 1..(n - 1) PROVE p \in 1..Len(heap) /\ p \in 1..n /\ p # n
        BY <2>2 DEF Nodes
      <3> QED BY <2>0
    <2>4. heap[p].outer \in Seq(Level)
      BY <1>1, <2>3, NodeType
    <2> HIDE DEF o
    <2>5. ASSUME NEW j \in 1..(Len(ls) - i) PROVE heap[p].outer[j] = ls[i + j]
      <3> DEFINE t == i - 1 + j
      <3>0. j \in 1..Len(heap[p].outer) /\ t \in 1..Len(o) /\ t + 1 = i + j
        <4>1. \A l, m, d \in Nat : l = m + 1 /\ i \in 1..l /\ i # 1 /\ j \in 1..(l - i)
                                  /\ d = m - (i - 1)
                => j \in 1..d /\ i - 1 + j \in 1..m /\ i - 1 + j + 1 = i + j
          BY <1>4
        <4>2. Len(ls) \in Nat /\ Len(o) \in Nat /\ Len(heap[p].outer) \in Nat
          BY <1>2, <2>4
        <4>3. Len(ls) = Len(o) + 1 /\ Len(heap[p].outer) = Len(o) - (i - 1)
          BY <1>2, <2>2
        <4> QED BY <1>4, <4>1, <4>2, <4>3
      <3>1. j \in DOMAIN heap[p].outer /\ t \in 1..Len(o) /\ t + 1 = i + j
        <4>1. DOMAIN heap[p].outer = 1..Len(heap[p].outer)
          BY <2>4
        <4> QED BY <3>0, <4>1
      <3>2. heap[p].outer[j] = o[t]
        BY <2>2, <3>1
      <3> HIDE DEF t
      <3>3. ls[t + 1] = o[t]
        BY <1>2, <3>1
      <3> QED BY <3>1, <3>2, <3>3
    <2>6. ls[i].node = p /\ ls[i].limit <= Len(heap[p].data) /\ ls[i] \in Level
      BY <1>2, <2>1, <2>2 DEF p
    <2>7. Len(heap[p].outer) = Len(ls) - i
      BY <1>2, <2>2
    <2> QED BY <1>4, <2>3, <2>5, <2>6, <2>7
  <1> QED BY <1>3, <1>4

\* A lookup that succeeds returns a cell of the heap.
LEMMA FindType ==
  ASSUME Inv, NEW n \in Nodes, NEW k \in Keys, H!Find(heap, n, k) # H!NoCell
  PROVE  LET c == H!Find(heap, n, k)
         IN  c = <<c[1], c[2]>> /\ c[1] \in Nodes /\ c[2] \in DOMAIN heap[c[1]].data
  <1> DEFINE ls == H!Levels(heap, n)
             Hit == H!HitLevels(heap, n, k)
             i == CHOOSE i \in Hit : \A j \in Hit : i <= j
             q == ls[i].node
             w == H!PlaceAt(heap, ls[i], k)
  <1>1. TypeOK /\ ls \in Seq(Level)
    BY LevelsType DEF Inv
  <1>2. Hit # {} /\ H!Find(heap, n, k) = <<q, w>>
    BY DEF H!Find
  <1>3. \A j \in Hit : j \in 1..Len(ls) /\ H!PlaceAt(heap, ls[j], k) # 0
    BY <1>1 DEF H!HitLevels, H!Absent
  <1>4. i \in Hit
    <2>1. Hit \subseteq Nat
      BY <1>1, <1>3
    <2>2. \E j \in Hit : \A l \in Hit : j <= l
      BY <1>2, <2>1, L!LeastOf
    <2> QED BY <2>2
  <1> HIDE DEF i, Hit
  <1>5. i \in 1..Len(ls) /\ w # 0 /\ ls[i].node \in Nodes
    BY <1>3, <1>4, LevelsSound, Zenon
  <1>6. w = heap[q].index[k] /\ w \in DOMAIN heap[q].data
    <2>1. Indexed(heap, q)
      BY <1>5 DEF Inv, HeapSound, IndexAgrees
    <2> QED BY <1>5, <2>1, Zenon DEF H!PlaceAt, Indexed, H!Absent
  <1> HIDE DEF q, w
  <1> QED BY <1>2, <1>5, <1>6 DEF q

\* What extend() builds.
LEMMA ChildSound ==
  ASSUME Inv, NEW n \in Nodes, heap' = Append(heap, H!ChildNode(heap, n))
  PROVE  /\ H!ChildNode(heap, n) \in Node
         /\ Follows(heap', Len(heap) + 1) /\ Indexed(heap', Len(heap) + 1)
  <1> DEFINE ls == H!Levels(heap, n)
             c  == H!ChildNode(heap, n)
             e  == Len(heap) + 1
  <1>1. ls \in Seq(Level) /\ TypeOK
    BY LevelsType DEF Inv
  <1>2. c = [outer |-> ls, data |-> <<>>, index |-> [k \in Keys |-> 0]] /\ c \in Node
    BY <1>1, EmptyNodeType DEF H!ChildNode, H!EmptyNode, H!Absent
  <1> HIDE DEF c
  <1>3. heap'[e] = c /\ \A p \in Nodes : heap'[p] = heap[p] /\ p \in 1..(e - 1)
    BY <1>1, <1>2 DEF TypeOK, Nodes, c
  <1>4. \A i \in 1..Len(ls) :
             /\ ls[i].node \in Nodes
             /\ ls[i].limit <= Len(heap[ls[i].node].data)
             /\ Len(heap[ls[i].node].outer) = Len(ls) - i
             /\ \A j \in 1..(Len(ls) - i) : heap[ls[i].node].outer[j] = ls[i + j]
    BY LevelsSound
  <1> HIDE DEF ls, e
  <1>5. Indexed(heap', e)
    BY <1>2, <1>3 DEF Indexed, H!Absent
  <1>6. Follows(heap', e)
    <2>1. heap'[e].outer = ls /\ DOMAIN ls = 1..Len(ls)
      BY <1>1, <1>2, <1>3
    <2>2. ASSUME NEW i \in 1..Len(ls) PROVE SoundLevel(heap', e, ls, i)
      <3> DEFINE q == ls[i].node
      <3>1. /\ q \in Nodes
            /\ ls[i].limit <= Len(heap[q].data)
            /\ Len(heap[q].outer) = Len(ls) - i
            /\ \A j \in 1..(Len(ls) - i) : heap[q].outer[j] = ls[i + j]
        BY <1>4
      <3> HIDE DEF q
      <3>2. heap[q].outer \in Seq(Level)
        BY <1>1, <3>1, NodeType
      <3>3. DOMAIN heap[q].outer = 1..(Len(ls) - i)
        BY <3>1, <3>2
      <3>4. heap'[q] = heap[q] /\ q \in 1..(e - 1)
        BY <1>3, <3>1
      <3> QED BY <3>1, <3>3, <3>4 DEF q, SoundLevel
    <2> QED BY <2>1, <2>2 DEF Follows
  <1> QED BY <1>2, <1>5, <1>6 DEF c, e
\* What innermost_copy() builds: the same node again.
LEMMA SameNodeSound ==
  ASSUME Inv, NEW n \in Nodes, heap' = Append(heap, heap[n])
  PROVE  Follows(heap', Len(heap) + 1) /\ Indexed(heap', Len(heap) + 1)
  <1> DEFINE e == Len(heap) + 1
             o == heap[n].outer
  <1>1. TypeOK /\ o \in Seq(Level) /\ Follows(heap, n) /\ Indexed(heap, n) /\ n \in 1..(e - 1)
    BY NodeType DEF Inv, HeapSound, OuterFollowsParent, IndexAgrees, Nodes
  <1>2. heap'[e] = heap[n] /\ \A p \in Nodes : heap'[p] = heap[p] /\ p \in 1..(e - 1)
    BY <1>1 DEF TypeOK, Nodes
  <1> HIDE DEF e, o
  <1>3. Indexed(heap', e)
    BY <1>1, <1>2 DEF Indexed
  <1>4. ASSUME NEW i \in DOMAIN o PROVE SoundLevel(heap', e, o, i)
    <2>1. SoundLevel(heap, n, o, i)
      BY <1>1 DEF Follows, o
    <2>2. o[i].node \in Nodes
      BY <1>1, <2>1 DEF SoundLevel, Nodes, TypeOK
    <2> QED BY <1>2, <2>1, <2>2 DEF SoundLevel
  <1>5. Follows(heap', e)
    BY <1>2, <1>4 DEF Follows, o
  <1> QED BY <1>3, <1>5 DEF e

\* What deep_copy() builds.
LEMMA CopiesParts ==
  ASSUME Inv, NEW n \in Nodes, heap' = heap \o H!DeepCopied(heap, n)
  PROVE  LET ls == H!Levels(heap, n)
             nb == Len(ls)
             src(j) == ls[nb + 1 - j].node
         IN  /\ H!DeepCopied(heap, n) \in Seq(Node) /\ Len(H!DeepCopied(heap, n)) = nb
             /\ \A i \in 1..nb : /\ ls[i].node \in Nodes
                                 /\ ls[i].limit <= Len(heap[ls[i].node].data)
             /\ \A j \in 1..nb :
                  LET p == heap'[Len(heap) + j]
                  IN  /\ p.data = heap[src(j)].data /\ p.index = heap[src(j)].index
                      /\ DOMAIN p.outer = 1..(j - 1) /\ Len(p.outer) = j - 1
                      /\ \A i \in 1..(j - 1) :
                           p.outer[i] = [node  |-> Len(heap) + j - i,
                                         limit |-> ls[nb + 1 - j + i].limit]
  <1> DEFINE ls == H!Levels(heap, n)
             nb == Len(ls)
             cs == H!DeepCopied(heap, n)
             src(j) == ls[nb + 1 - j].node
  <1>1. TypeOK /\ nb \in Nat
    BY LevelsType DEF Inv
  <1>2. \A i \in 1..nb : /\ ls[i].node \in Nodes
                        /\ ls[i].limit <= Len(heap[ls[i].node].data)
    BY LevelsSound
  <1>3. cs \in Seq(Node) /\ Len(cs) = nb
    BY <1>1, <1>2, CopiesType
  <1>4. \A j \in 1..nb :
          cs[j] = [outer |-> [i \in 1..(j - 1) |-> [node  |-> Len(heap) + j - i,
                                                   limit |-> ls[nb + 1 - j + i].limit]],
                   data |-> heap[src(j)].data, index |-> heap[src(j)].index]
    BY DEF H!DeepCopied
  <1>5. \A j \in 1..nb : heap'[Len(heap) + j] = cs[j]
    BY <1>1, <1>3, OldNodesKept
  <1> HIDE DEF ls, nb, cs
  <1>6. \A j \in 1..nb : nb + 1 - j \in 1..nb /\ src(j) \in Nodes
    BY <1>1, <1>2
  <1>7. ASSUME NEW j \in 1..nb
        PROVE  LET p == heap'[Len(heap) + j]
               IN  /\ p.data = heap[src(j)].data /\ p.index = heap[src(j)].index
                   /\ DOMAIN p.outer = 1..(j - 1) /\ Len(p.outer) = j - 1
                   /\ \A i \in 1..(j - 1) :
                        p.outer[i] = [node  |-> Len(heap) + j - i,
                                      limit |-> ls[nb + 1 - j + i].limit]
    <2> DEFINE p == heap'[Len(heap) + j]
               f == [i \in 1..(j - 1) |-> [node  |-> Len(heap) + j - i,
                                           limit |-> ls[nb + 1 - j + i].limit]]
    <2>1. p.outer = f /\ p.data = heap[src(j)].data /\ p.index = heap[src(j)].index
      <3>1. p = cs[j]
        BY <1>5
      <3>2. cs[j] = [outer |-> f, data |-> heap[src(j)].data, index |-> heap[src(j)].index]
        BY <1>4
      <3> HIDE DEF p, f, src
      <3> QED BY <3>1, <3>2
    <2>2. f = [i \in 1..(j - 1) |-> f[i]] /\ j - 1 \in Nat
      BY <1>1
    <2>3. \A i \in 1..(j - 1) : f[i] = [node  |-> Len(heap) + j - i,
                                       limit |-> ls[nb + 1 - j + i].limit]
      OBVIOUS
    <2> HIDE DEF f
    <2>4. DOMAIN f = 1..(j - 1) /\ Len(f) = j - 1
      BY <2>2, LenOfFunction
    <2> QED BY <2>1, <2>3, <2>4
  <1> QED BY <1>2, <1>3, <1>7 DEF ls, nb, cs

LEMMA CopiesSound ==
  ASSUME Inv, NEW n \in Nodes, heap' = heap \o H!DeepCopied(heap, n)
  PROVE  /\ H!DeepCopied(heap, n) \in Seq(Node)
         /\ \A j \in 1..Len(H!DeepCopied(heap, n)) :
              Follows(heap', Len(heap) + j) /\ Indexed(heap', Len(heap) + j)
  <1> DEFINE ls == H!Levels(heap, n)
             nb == Len(ls)
             cs == H!DeepCopied(heap, n)
             src(j) == ls[nb + 1 - j].node
  <1>1. TypeOK /\ nb \in Nat
    BY LevelsType DEF Inv
  <1>2. /\ cs \in Seq(Node) /\ Len(cs) = nb
        /\ \A i \in 1..nb : /\ ls[i].node \in Nodes
                            /\ ls[i].limit <= Len(heap[ls[i].node].data)
    BY CopiesParts
  <1>3. \A j \in 1..nb :
          LET p == heap'[Len(heap) + j]
          IN  /\ p.data = heap[src(j)].data /\ p.index = heap[src(j)].index
              /\ DOMAIN p.outer = 1..(j - 1) /\ Len(p.outer) = j - 1
              /\ \A i \in 1..(j - 1) :
                   p.outer[i] = [node  |-> Len(heap) + j - i,
                                 limit |-> ls[nb + 1 - j + i].limit]
    BY CopiesParts
  <1> HIDE DEF ls, nb, cs
  <1>4. \A j \in 1..nb : nb + 1 - j \in 1..nb /\ src(j) \in Nodes
    BY <1>1, <1>2
  <1>5. ASSUME NEW j \in 1..nb PROVE Indexed(heap', Len(heap) + j)
    <2>1. Indexed(heap, src(j))
      BY <1>4 DEF Inv, HeapSound, IndexAgrees
    <2>2. /\ heap'[Len(heap) + j].data = heap[src(j)].data
          /\ heap'[Len(heap) + j].index = heap[src(j)].index
      BY <1>3
    <2> HIDE DEF src
    <2> QED BY <2>1, <2>2 DEF Indexed
  <1>6. ASSUME NEW j \in 1..nb PROVE Follows(heap', Len(heap) + j)
    <2> DEFINE o == heap'[Len(heap) + j].outer
    <2>1. /\ DOMAIN o = 1..(j - 1) /\ Len(o) = j - 1
          /\ \A i \in 1..(j - 1) : o[i] = [node  |-> Len(heap) + j - i,
                                         limit |-> ls[nb + 1 - j + i].limit]
      BY <1>3
    <2> HIDE DEF o
    <2>2. ASSUME NEW i \in 1..(j - 1) PROVE SoundLevel(heap', Len(heap) + j, o, i)
      <3> DEFINE k == j - i
                 p == heap'[Len(heap) + k]
      <3>1. k \in 1..nb /\ nb + 1 - j + i = nb + 1 - k /\ Len(heap) + j - i = Len(heap) + k
        BY <1>1 DEF TypeOK
      <3>2. o[i].node = Len(heap) + k /\ o[i].limit = ls[nb + 1 - k].limit
        BY <2>1, <3>1
      <3> HIDE DEF k
      <3>3. p.data = heap[src(k)].data /\ Len(p.outer) = k - 1 /\ DOMAIN p.outer = 1..(k - 1)
            /\ \A l \in 1..(k - 1) : p.outer[l] = [node  |-> Len(heap) + k - l,
                                                 limit |-> ls[nb + 1 - k + l].limit]
        BY <1>3, <3>1
      <3> HIDE DEF p
      <3>4. o[i].limit <= Len(p.data)
        BY <1>2, <1>4, <3>1, <3>2, <3>3
      <3>5. \A l \in DOMAIN p.outer : p.outer[l] = o[i + l]
        <4> TAKE l \in DOMAIN p.outer
        <4> DEFINE t == i + l
        <4>0. l \in 1..(k - 1) /\ Len(heap) \in Nat
          BY <1>1, <3>3 DEF TypeOK
        <4>1. /\ t \in 1..(j - 1) /\ Len(heap) + j - t = Len(heap) + k - l
              /\ nb + 1 - j + t = nb + 1 - k + l
          BY <1>1, <3>1, <4>0 DEF k
        <4> HIDE DEF t
        <4> QED BY <2>1, <3>3, <4>0, <4>1 DEF t
      <3>6. Len(p.outer) = Len(o) - i /\ Len(heap) + k \in 1..(Len(heap) + j - 1)
        BY <1>1, <2>1, <3>1, <3>3 DEF k, TypeOK
      <3>7. heap'[o[i].node] = p
        BY <3>2 DEF p
      <3> QED BY <3>2, <3>4, <3>5, <3>6, <3>7 DEF SoundLevel
    <2> QED BY <2>1, <2>2 DEF Follows, o
  <1> QED BY <1>2, <1>5, <1>6 DEF cs

\* try_emplace: one more entry at the end of one node, and its index.
LEMMA EmplacedSound ==
  ASSUME Inv, NEW n \in Nodes, NEW k \in Keys, NEW v \in Vals,
         heap[n].index[k] = H!Absent, heap' = H!Emplaced(heap, n, k, v)
  PROVE  /\ heap' \in Seq(Node) /\ Len(heap') = Len(heap)
         /\ \A p \in Nodes \ {n} : heap'[p] = heap[p]
         /\ heap'[n].outer = heap[n].outer
         /\ heap'[n].data = Append(heap[n].data, [key |-> k, val |-> v])
         /\ heap'[n].index = [heap[n].index EXCEPT ![k] = Len(heap[n].data) + 1]
  <1> DEFINE o == heap[n].outer
             d == Append(heap[n].data, [key |-> k, val |-> v])
             x == [heap[n].index EXCEPT ![k] = Len(heap[n].data) + 1]
             new == [outer |-> o, data |-> d, index |-> x]
  <1>1. heap' = [heap EXCEPT ![n] = new]
    BY DEF H!Emplaced
  <1>2. /\ heap \in Seq(Node) /\ heap[n].outer \in Seq(Level)
        /\ heap[n].data \in Seq(Entry) /\ heap[n].index \in [Keys -> Nat]
    BY NodeType DEF Inv, TypeOK
  <1>3. o \in Seq(Level) /\ d \in Seq(Entry) /\ x \in [Keys -> Nat]
    <2>1. [key |-> k, val |-> v] \in Entry
      BY DEF Entry
    <2> QED BY <1>2, <2>1
  <1>4. new \in Node /\ new.outer = o /\ new.data = d /\ new.index = x
    <2> HIDE DEF o, d, x
    <2> QED BY <1>3 DEF Node
  <1> HIDE DEF new
  <1>5. /\ heap' \in Seq(Node) /\ Len(heap') = Len(heap)
        /\ heap'[n] = new /\ \A p \in Nodes \ {n} : heap'[p] = heap[p]
    BY <1>1, <1>2, <1>4 DEF Nodes
  <1> QED BY <1>4, <1>5

\* *p = v: the value of one entry and nothing else.
LEMMA WrittenSound ==
  ASSUME Inv, NEW n \in Nodes, NEW i \in DOMAIN heap[n].data, NEW v \in Vals,
         heap' = H!Written(heap, <<n, i>>, v)
  PROVE  /\ heap' \in Seq(Node) /\ Len(heap') = Len(heap)
         /\ \A p \in Nodes \ {n} : heap'[p] = heap[p]
         /\ heap'[n].outer = heap[n].outer
         /\ Len(heap'[n].data) = Len(heap[n].data)
         /\ \A j \in DOMAIN heap[n].data : heap'[n].data[j].key = heap[n].data[j].key
         /\ heap'[n].index = heap[n].index
  <1> DEFINE o == heap[n].outer
             e == [key |-> heap[n].data[i].key, val |-> v]
             d == [heap[n].data EXCEPT ![i] = e]
             x == heap[n].index
             new == [outer |-> o, data |-> d, index |-> x]
  <1>1. heap' = [heap EXCEPT ![n] = new]
    BY DEF H!Written
  <1>2. /\ heap \in Seq(Node) /\ heap[n].outer \in Seq(Level)
        /\ heap[n].data \in Seq(Entry) /\ heap[n].index \in [Keys -> Nat]
    BY NodeType DEF Inv, TypeOK
  <1>3. o \in Seq(Level) /\ d \in Seq(Entry) /\ x \in [Keys -> Nat]
    <2>1. heap[n].data[i] \in Entry
      BY <1>2
    <2>2. e \in Entry
      BY <2>1 DEF Entry
    <2> HIDE DEF e
    <2> QED BY <1>2, <2>2
  <1>4. new \in Node /\ new.outer = o /\ new.data = d /\ new.index = x
    <2> HIDE DEF o, d, x
    <2> QED BY <1>3 DEF Node
  <1>5. Len(d) = Len(heap[n].data) /\ \A j \in DOMAIN heap[n].data : d[j].key = heap[n].data[j].key
    BY <1>2
  <1> HIDE DEF new, o, d, x, e
  <1>6. /\ heap' \in Seq(Node) /\ Len(heap') = Len(heap)
        /\ heap'[n] = new /\ \A p \in Nodes \ {n} : heap'[p] = heap[p]
    <2>1. n \in 1..Len(heap) /\ new \in Node
      BY <1>4 DEF Nodes
    <2> DEFINE t == heap'
    <2>2. t = [heap EXCEPT ![n] = new] /\ heap \in Seq(Node)
      BY <1>1, <1>2
    <2> HIDE DEF t
    <2>3. t \in Seq(Node) /\ Len(t) = Len(heap) /\ t[n] = new
          /\ \A j \in 1..Len(heap) \ {n} : t[j] = heap[j]
      BY <2>1, <2>2, Replaced
    <2> QED BY <2>3 DEF t, Nodes
  <1> QED BY <1>4, <1>5, <1>6 DEF o, x
\* Levels remain sound while nodes only get entries.
LEMMA FollowsKept ==
  ASSUME Inv, heap' \in Seq(Node), Len(heap') = Len(heap),
         \A p \in Nodes : /\ heap'[p].outer = heap[p].outer
                          /\ Len(heap[p].data) <= Len(heap'[p].data)
  PROVE  OuterFollowsParent'
  <1>1. TypeOK /\ Nodes' = Nodes
    BY DEF Inv, Nodes
  <1> SUFFICES ASSUME NEW p \in Nodes, NEW i \in DOMAIN heap[p].outer
               PROVE  SoundLevel(heap', p, heap[p].outer, i)
    BY <1>1 DEF OuterFollowsParent, Follows
  <1> DEFINE o == heap[p].outer
             q == o[i].node
  <1>2. SoundLevel(heap, p, o, i)
    BY DEF Inv, HeapSound, OuterFollowsParent, Follows
  <1>3. o \in Seq(Level)
    BY <1>1, NodeType
  <1> HIDE DEF o
  <1>4. o[i] \in Level /\ i \in DOMAIN o
    BY <1>3 DEF o
  <1>5. q \in Nodes /\ o[i].limit \in Nat
    BY <1>1, <1>2, <1>4 DEF SoundLevel, Nodes, TypeOK, Level
  <1> HIDE DEF q
  <1>6. heap'[q].outer = heap[q].outer /\ Len(heap[q].data) <= Len(heap'[q].data)
    BY <1>5
  <1>7. Len(heap[q].data) \in Nat /\ Len(heap'[q].data) \in Nat
    <2>1. heap[q].data \in Seq(Entry)
      BY <1>1, <1>5, NodeType
    <2>2. heap'[q] \in Node
      BY <1>1, <1>5 DEF TypeOK, Nodes
    <2>3. heap'[q].data \in Seq(Entry)
      BY <2>2 DEF Node
    <2> QED BY <2>1, <2>3
  <1>8. o[i].limit <= Len(heap[q].data)
    BY <1>2 DEF SoundLevel, q
  <1>9. o[i].limit <= Len(heap'[q].data)
    BY <1>5, <1>6, <1>7, <1>8
  <1> QED BY <1>2, <1>6, <1>9, Zenon DEF SoundLevel, q, o

\* New nodes that are sound keep the heap sound, if a new object owns one.
LEMMA NewNodesInv ==
  ASSUME Inv, NEW ns \in Seq(Node), heap' = heap \o ns, Len(ns) > 0,
         NEW m \in Maps, state[m] = Dead,
         state' = [state EXCEPT ![m] = Len(heap) + Len(ns)],
         \A j \in 1..Len(ns) : Follows(heap', Len(heap) + j) /\ Indexed(heap', Len(heap) + j)
  PROVE  Inv'
  <1>1. TypeOK
    BY DEF Inv
  <1>2. /\ heap' \in Seq(Node) /\ Len(heap') = Len(heap) + Len(ns)
        /\ \A n \in Nodes : Follows(heap', n) /\ Indexed(heap', n)
    BY OldNodesKept
  <1>3. TypeOK'
    BY <1>1, <1>2 DEF TypeOK
  <1>4. \A n \in Nodes' : Follows(heap', n) /\ Indexed(heap', n)
    <2> TAKE n \in Nodes'
    <2>1. CASE n \in Nodes
      BY <1>2, <2>1
    <2>2. CASE n \notin Nodes
      <3> DEFINE j == n - Len(heap)
      <3>1. j \in 1..Len(ns) /\ n = Len(heap) + j
        BY <1>1, <1>2, <2>2 DEF Nodes, TypeOK
      <3> HIDE DEF j
      <3> QED BY <3>1
    <2> QED BY <2>1, <2>2
  <1>5. OwnersDistinct'
    BY <1>1 DEF Inv, HeapSound, OwnersDistinct, Live, TypeOK, Dead
  <1> QED BY <1>3, <1>4, <1>5 DEF Inv, HeapSound, OuterFollowsParent, IndexAgrees

LEMMA AppendIsConcat ==
  ASSUME TypeOK, NEW n \in Node
  PROVE  Append(heap, n) = heap \o <<n>> /\ <<n>> \in Seq(Node) /\ Len(<<n>>) = 1
  BY DEF TypeOK

LEMMA OneNodeInv ==
  ASSUME Inv, NEW m \in Maps, NEW n \in Node, Build(m, n),
         Follows(heap', Len(heap) + 1), Indexed(heap', Len(heap) + 1)
  PROVE  Inv'
  <1>1. TypeOK
    BY DEF Inv
  <1> DEFINE ns == <<n>>
  <1>2. heap' = heap \o ns /\ ns \in Seq(Node) /\ Len(ns) = 1
    BY <1>1, AppendIsConcat DEF Build
  <1> HIDE DEF ns
  <1>3. state[m] = Dead /\ state' = [state EXCEPT ![m] = Len(heap) + Len(ns)]
    BY <1>2 DEF Build
  <1>4. \A j \in 1..Len(ns) : Follows(heap', Len(heap) + j) /\ Indexed(heap', Len(heap) + j)
    BY <1>2
  <1>5. Len(ns) > 0
    BY <1>2
  <1> QED BY <1>2, <1>3, <1>4, <1>5, NewNodesInv

-----------------------------------------------------------------------------
(* The invariant.                                                          *)

LEMMA InitInv == Init => Inv
  BY DEF Init, Inv, TypeOK, HeapSound, OwnersDistinct, OuterFollowsParent, IndexAgrees,
         Live, Dead, Nodes

LEMMA NextInv == Inv /\ [Next]_vars => Inv'
  <1> SUFFICES ASSUME Inv, [Next]_vars PROVE Inv'
    OBVIOUS
  <1>0. TypeOK
    BY DEF Inv
  <1>n. \A p \in Maps : state[p] # Dead => state[p] \in Nodes
    BY <1>0 DEF TypeOK, Nodes, Dead
  <1>1. ASSUME NEW m \in Maps, Construct(m) PROVE Inv'
    <2>1. H!RootNode \in Node
      <3>1. <<>> \in Seq(Level)
        OBVIOUS
      <3> QED BY <3>1, EmptyNodeType DEF H!RootNode
    <2>2. heap' = Append(heap, H!RootNode) /\ heap'[Len(heap) + 1] = H!RootNode
      BY <1>0, <1>1, <2>1 DEF Construct, Build, TypeOK
    <2>3. Follows(heap', Len(heap) + 1) /\ Indexed(heap', Len(heap) + 1)
      BY <2>2 DEF Follows, Indexed, H!RootNode, H!EmptyNode, H!Absent
    <2> QED BY <1>1, <2>1, <2>3, OneNodeInv DEF Construct
  <1>2. ASSUME NEW m \in Maps, Destroy(m) PROVE Inv'
    BY <1>2 DEF Destroy, Inv, TypeOK, HeapSound, OwnersDistinct, OuterFollowsParent,
                IndexAgrees, Live, Dead, Nodes
  <1>3. ASSUME NEW p \in Maps, NEW m \in Maps, Extend(p, m) PROVE Inv'
    <2>1. state[p] \in Nodes /\ Build(m, H!ChildNode(heap, state[p]))
          /\ heap' = Append(heap, H!ChildNode(heap, state[p]))
      BY <1>3, <1>n DEF Extend, Build
    <2> QED BY <2>1, ChildSound, OneNodeInv
  <1>4. ASSUME NEW p \in Maps, NEW m \in Maps, InnermostCopy(p, m) PROVE Inv'
    <2>1. state[p] \in Nodes /\ Build(m, heap[state[p]])
          /\ heap' = Append(heap, heap[state[p]])
      BY <1>4, <1>n DEF InnermostCopy, Build
    <2>2. heap[state[p]] \in Node
      BY <1>0, <2>1, NodeType
    <2> QED BY <2>1, <2>2, SameNodeSound, OneNodeInv
  <1>5. ASSUME NEW p \in Maps, NEW m \in Maps, DeepCopy(p, m) PROVE Inv'
    <2> DEFINE cs == H!DeepCopied(heap, state[p])
    <2>1. /\ state[p] \in Nodes /\ state[m] = Dead /\ heap' = heap \o cs
          /\ state' = [state EXCEPT ![m] = Len(heap) + Len(cs)]
      BY <1>5, <1>n DEF DeepCopy
    <2>2. /\ cs \in Seq(Node)
          /\ \A j \in 1..Len(cs) : Follows(heap', Len(heap) + j) /\ Indexed(heap', Len(heap) + j)
      BY <2>1, CopiesSound
    <2>3. Len(cs) > 0
      <3>1. /\ Len(H!Levels(heap, state[p])) = Len(heap[state[p]].outer) + 1
            /\ heap[state[p]].outer \in Seq(Level)
        BY <1>0, <2>1, LevelsType, NodeType
      <3>2. \A i \in 1..Len(H!Levels(heap, state[p])) : H!Levels(heap, state[p])[i].node \in Nodes
        BY <2>1, LevelsSound
      <3>3. Len(cs) = Len(H!Levels(heap, state[p]))
        BY <1>0, <2>1, <3>2, CopiesType
      <3> QED BY <3>1, <3>3
    <2> HIDE DEF cs
    <2> QED BY <2>1, <2>2, <2>3, NewNodesInv
  <1>6. ASSUME NEW p \in Maps, NEW m \in Maps, Move(p, m) PROVE Inv'
    BY <1>6 DEF Move, Inv, TypeOK, HeapSound, OwnersDistinct, OuterFollowsParent,
                IndexAgrees, Live, Dead, Nodes
  <1>7. ASSUME NEW m \in Maps, NEW k \in Keys, NEW v \in Vals, TryEmplace(m, k, v)
        PROVE  Inv'
    <2> DEFINE n == state[m]
    <2>1. n \in Nodes /\ heap' = H!Emplaced(heap, n, k, v) /\ state' = state
      BY <1>7, <1>n DEF TryEmplace
    <2>2. CASE heap[n].index[k] # H!Absent
      <3>1. UNCHANGED vars
        BY <2>1, <2>2 DEF H!Emplaced, vars
      <3> QED BY <3>1 DEF vars, Inv, TypeOK, HeapSound, OwnersDistinct, OuterFollowsParent,
                          IndexAgrees, Live, Nodes
    <2>3. CASE heap[n].index[k] = H!Absent
      <3> HIDE DEF n
      <3>1. /\ heap' \in Seq(Node) /\ Len(heap') = Len(heap)
            /\ \A p \in Nodes \ {n} : heap'[p] = heap[p]
            /\ heap'[n].outer = heap[n].outer
            /\ heap'[n].data = Append(heap[n].data, [key |-> k, val |-> v])
            /\ heap'[n].index = [heap[n].index EXCEPT ![k] = Len(heap[n].data) + 1]
        BY <2>1, <2>3, EmplacedSound
      <3>2. heap[n].data \in Seq(Entry) /\ heap[n].index \in [Keys -> Nat] /\ Indexed(heap, n)
        BY <1>0, <2>1, NodeType DEF Inv, HeapSound, IndexAgrees
      <3>3. \A p \in Nodes : /\ heap'[p].outer = heap[p].outer
                             /\ Len(heap[p].data) <= Len(heap'[p].data)
        <4> TAKE p \in Nodes
        <4>1. heap[p].data \in Seq(Entry)
          BY <1>0, NodeType
        <4> QED BY <3>1, <3>2, <4>1
      <3>4. OuterFollowsParent'
        BY <3>1, <3>3, FollowsKept
      <3>5. Indexed(heap', n)
        <4> DEFINE d  == heap[n].data   x  == heap[n].index
                   dd == heap'[n].data  xx == heap'[n].index
        <4>1. /\ d \in Seq(Entry) /\ x \in [Keys -> Nat] /\ x[k] = 0
              /\ dd = Append(d, [key |-> k, val |-> v]) /\ xx = [x EXCEPT ![k] = Len(d) + 1]
          BY <2>3, <3>1, <3>2 DEF H!Absent
        <4>2. /\ \A i \in DOMAIN d : x[d[i].key] = i
              /\ \A j \in Keys : x[j] # 0 => x[j] \in DOMAIN d /\ d[x[j]].key = j
          BY <3>2 DEF Indexed, H!Absent
        <4> HIDE DEF d, x, dd, xx
        <4>3. /\ DOMAIN dd = 1..(Len(d) + 1) /\ dd[Len(d) + 1].key = k
              /\ \A i \in DOMAIN d : dd[i] = d[i] /\ d[i].key \in Keys /\ d[i].key # k
                                   /\ i \in DOMAIN dd /\ i # 0
          <5>1. DOMAIN dd = 1..(Len(d) + 1) /\ dd[Len(d) + 1] = [key |-> k, val |-> v]
                /\ DOMAIN d = 1..Len(d) /\ \A i \in 1..Len(d) : dd[i] = d[i]
            <6>1. [key |-> k, val |-> v] \in Entry
              BY DEF Entry
            <6> QED BY <4>1, <6>1
          <5>2. \A i \in DOMAIN d : d[i].key \in Keys
            <6> TAKE i \in DOMAIN d
            <6>1. d[i] \in Entry
              BY <4>1
            <6> QED BY <6>1 DEF Entry
          <5>3. \A i \in DOMAIN d : d[i].key # k
            BY <4>1, <4>2, <5>1
          <5> QED BY <4>1, <5>1, <5>2, <5>3
        <4>4. \A i \in DOMAIN dd : xx[dd[i].key] = i
          <5> TAKE i \in DOMAIN dd
          <5>1. CASE i \in DOMAIN d
            BY <4>1, <4>2, <4>3, <5>1
          <5>2. CASE i \notin DOMAIN d
            <6>1. i = Len(d) + 1
              BY <4>1, <4>3, <5>2
            <6> QED BY <4>1, <4>3, <6>1
          <5> QED BY <5>1, <5>2
        <4>5. \A j \in Keys : xx[j] # 0 => xx[j] \in DOMAIN dd /\ dd[xx[j]].key = j
          BY <4>1, <4>2, <4>3
        <4> QED BY <4>4, <4>5 DEF Indexed, H!Absent, dd, xx
      <3>6. IndexAgrees'
        <4>1. Nodes' = Nodes
          BY <3>1 DEF Nodes
        <4> SUFFICES ASSUME NEW p \in Nodes PROVE Indexed(heap', p)
          BY <4>1 DEF IndexAgrees
        <4>2. Indexed(heap, p)
          BY DEF Inv, HeapSound, IndexAgrees
        <4>3. CASE p # n
          BY <3>1, <4>2, <4>3 DEF Indexed
        <4> QED BY <3>5, <4>3
      <3>7. TypeOK' /\ OwnersDistinct'
        BY <1>0, <2>1, <3>1 DEF TypeOK, OwnersDistinct, Live, Inv, HeapSound
      <3> QED BY <3>4, <3>6, <3>7 DEF Inv, HeapSound
    <2> QED BY <2>2, <2>3
  <1>8. ASSUME NEW m \in Maps, NEW k \in Keys, NEW v \in Vals, Write(m, k, v)
        PROVE  Inv'
    <2> DEFINE c == H!Find(heap, state[m], k)
               n == c[1]
               i == c[2]
    <2>1. heap' = H!Written(heap, c, v) /\ state' = state /\ c # H!NoCell /\ state[m] \in Nodes
      BY <1>8, <1>n DEF Write
    <2>2. c = <<n, i>> /\ n \in Nodes /\ i \in DOMAIN heap[n].data
      BY <2>1, FindType
    <2> HIDE DEF c, n, i
    <2>3. /\ heap' \in Seq(Node) /\ Len(heap') = Len(heap)
          /\ \A p \in Nodes \ {n} : heap'[p] = heap[p]
          /\ heap'[n].outer = heap[n].outer
          /\ Len(heap'[n].data) = Len(heap[n].data)
          /\ \A j \in DOMAIN heap[n].data : heap'[n].data[j].key = heap[n].data[j].key
          /\ heap'[n].index = heap[n].index
      BY <2>1, <2>2, WrittenSound
    <2>4. \A p \in Nodes : /\ heap'[p].outer = heap[p].outer
                           /\ Len(heap[p].data) <= Len(heap'[p].data)
      <3> TAKE p \in Nodes
      <3>1. heap[p].data \in Seq(Entry)
        BY <1>0, NodeType
      <3> QED BY <2>3, <3>1
    <2>5. OuterFollowsParent'
      BY <2>3, <2>4, FollowsKept
    <2>6. Nodes' = Nodes /\ heap[n].data \in Seq(Entry)
      BY <1>0, <2>2, <2>3, NodeType DEF Nodes
    <2>7. DOMAIN heap'[n].data = DOMAIN heap[n].data
      <3>1. heap'[n] \in Node
        BY <1>0, <2>2, <2>3 DEF Nodes, TypeOK
      <3>2. heap'[n].data \in Seq(Entry)
        BY <3>1 DEF Node
      <3> QED BY <2>3, <2>6, <3>2
    <2>8. IndexAgrees'
      <3> SUFFICES ASSUME NEW p \in Nodes PROVE Indexed(heap', p)
        BY <2>6 DEF IndexAgrees
      <3>1. Indexed(heap, p)
        BY DEF Inv, HeapSound, IndexAgrees
      <3>2. CASE p # n
        BY <2>3, <3>1, <3>2 DEF Indexed
      <3>3. CASE p = n
        <4> DEFINE d  == heap[n].data   x  == heap[n].index
                   dd == heap'[n].data  xx == heap'[n].index
        <4>1. /\ DOMAIN dd = DOMAIN d /\ xx = x
              /\ \A j \in DOMAIN d : dd[j].key = d[j].key
          BY <2>3, <2>7
        <4>2. /\ \A j \in DOMAIN d : x[d[j].key] = j
              /\ \A j \in Keys : x[j] # 0 => x[j] \in DOMAIN d /\ d[x[j]].key = j
          BY <3>1, <3>3 DEF Indexed, H!Absent
        <4> HIDE DEF d, x, dd, xx
        <4>3. /\ \A j \in DOMAIN dd : xx[dd[j].key] = j
              /\ \A j \in Keys : xx[j] # 0 => xx[j] \in DOMAIN dd /\ dd[xx[j]].key = j
          BY <4>1, <4>2
        <4> QED BY <3>3, <4>3 DEF Indexed, H!Absent, dd, xx
      <3> QED BY <3>2, <3>3
    <2>9. TypeOK' /\ OwnersDistinct'
      BY <1>0, <2>1, <2>3 DEF TypeOK, OwnersDistinct, Live, Inv, HeapSound
    <2> QED BY <2>5, <2>8, <2>9 DEF Inv, HeapSound
  <1>9. CASE UNCHANGED vars
    BY <1>9 DEF vars, Inv, TypeOK, HeapSound, OwnersDistinct, OuterFollowsParent,
                IndexAgrees, Live, Nodes
  <1> QED BY <1>1, <1>2, <1>3, <1>4, <1>5, <1>6, <1>7, <1>8, <1>9 DEF Next
LEMMA AlwaysInv == Spec => []Inv
  <1> QED BY InitInv, NextInv, PTL DEF Spec

\* TypeOK, for any number of maps, keys, values, nodes and entries.
THEOREM TypeCorrect == Spec => []TypeOK
  <1>1. Inv => TypeOK
    BY DEF Inv
  <1> QED BY <1>1, AlwaysInv, PTL

\* HeapSound: no two scope_map objects own one state_t, the levels around a
\* node are those of its parent, `index` and `data` agree at every level.
THEOREM HeapStaysSound == Spec => []HeapSound
  <1>1. Inv => HeapSound
    BY DEF Inv
  <1> QED BY <1>1, AlwaysInv, PTL

-----------------------------------------------------------------------------
(* What a lookup finds.                                                    *)

\* What a lookup of k from n reads: the node and the place at each level.
\* If no step of the lookup changes what it reads, it finds the same.  At an
\* outer level k may have got an entry, beyond those visible from n.
LEMMA FindKept ==
  ASSUME Inv, NEW n \in Nodes, NEW k \in Keys,
         heap' \in Seq(Node), Len(heap) <= Len(heap'),
         \A q \in Nodes :
           /\ heap'[q].outer = heap[q].outer
           /\ Len(heap[q].data) <= Len(heap'[q].data)
           /\ \/ heap'[q].index[k] = heap[q].index[k]
              \/ heap[q].index[k] = 0 /\ heap'[q].index[k] > Len(heap[q].data),
         heap'[n].index[k] = heap[n].index[k]
  PROVE  H!Find(heap', n, k) = H!Find(heap, n, k)
  <1> DEFINE ls  == H!Levels(heap, n)
             lsp == H!Levels(heap', n)
             o   == heap[n].outer
             D   == 1..Len(ls)
             Hit  == H!HitLevels(heap, n, k)
             Hitp == H!HitLevels(heap', n, k)
  <1>1. TypeOK /\ o \in Seq(Level) /\ heap[n].data \in Seq(Entry)
    BY NodeType DEF Inv
  <1>2. heap'[n] \in Node /\ heap'[n].data \in Seq(Entry)
    <2>1. heap'[n] \in Node
      BY <1>1 DEF TypeOK, Nodes
    <2> QED BY <2>1 DEF Node
  <1>3. /\ ls \in Seq(Level) /\ Len(ls) = Len(o) + 1
        /\ ls[1] = [node |-> n, limit |-> Len(heap[n].data)]
        /\ \A i \in 1..Len(o) : ls[i + 1] = o[i]
    BY <1>1, LevelsType
  <1>4. /\ DOMAIN lsp = D
        /\ lsp[1] = [node |-> n, limit |-> Len(heap'[n].data)]
        /\ \A i \in 1..Len(o) : lsp[i + 1] = o[i]
    <2> DEFINE l == [node |-> n, limit |-> Len(heap'[n].data)]
    <2>1. l \in Level
      BY <1>1, <1>2 DEF Level, Nodes, TypeOK
    <2>2. lsp = <<l>> \o o
      BY DEF H!Levels
    <2> HIDE DEF l, lsp, ls, o
    <2>3. DOMAIN lsp = 1..(Len(o) + 1) /\ lsp[1] = l /\ \A i \in 1..Len(o) : lsp[i + 1] = o[i]
      BY <1>1, <2>1, <2>2
    <2> QED BY <1>3, <2>3 DEF l
  <1> HIDE DEF ls, lsp
  <1>5. \A i \in D : /\ ls[i].node \in Nodes /\ ls[i].limit \in Nat
                    /\ ls[i].limit <= Len(heap[ls[i].node].data)
    BY LevelsSound DEF ls, Level
  <1>6. ASSUME NEW i \in D
        PROVE  /\ lsp[i].node = ls[i].node
               /\ H!PlaceAt(heap', lsp[i], k) = H!PlaceAt(heap, ls[i], k)
    <2>1. CASE i = 1
      <3>1. ls[i].node = n /\ ls[i].limit = Len(heap[n].data)
            /\ lsp[i].node = n /\ lsp[i].limit = Len(heap'[n].data)
        BY <1>3, <1>4, <2>1
      <3>2. heap[n].index[k] <= Len(heap[n].data)
        <4>1. heap[n].index[k] # 0 => heap[n].index[k] \in DOMAIN heap[n].data
          BY DEF Inv, HeapSound, IndexAgrees, Indexed, H!Absent
        <4> QED BY <1>1, <4>1
      <3>3. heap[n].index[k] <= Len(heap'[n].data)
        <4>1. heap[n].index[k] \in Nat /\ Len(heap[n].data) <= Len(heap'[n].data)
          BY <1>1, NodeType
        <4> QED BY <1>1, <1>2, <3>2, <4>1, SMTT(30)
      <3> QED BY <3>1, <3>2, <3>3 DEF H!PlaceAt
    <2>2. CASE i # 1
      <3> DEFINE t == i - 1
      <3>1. t \in 1..Len(o) /\ t + 1 = i
        BY <1>1, <1>3, <2>2
      <3> HIDE DEF t
      <3>2. lsp[i] = ls[i]
        BY <1>3, <1>4, <3>1
      <3> DEFINE q == ls[i].node
      <3>3. /\ q \in Nodes /\ ls[i].limit \in Nat /\ ls[i].limit <= Len(heap[q].data)
        BY <1>5
      <3> HIDE DEF q
      <3>4. \/ heap'[q].index[k] = heap[q].index[k]
            \/ heap[q].index[k] = 0 /\ heap'[q].index[k] > Len(heap[q].data)
        BY <3>3
      <3>5. heap'[q].index[k] \in Nat /\ Len(heap[q].data) \in Nat
        <4>1. heap'[q] \in Node /\ heap[q].data \in Seq(Entry)
          BY <1>1, <3>3, NodeType, SMTT(30) DEF TypeOK, Nodes
        <4>2. heap'[q].index \in [Keys -> Nat]
          BY <4>1 DEF Node
        <4> QED BY <4>1, <4>2
      <3>6. \/ heap'[q].index[k] = heap[q].index[k]
            \/ heap[q].index[k] = 0 /\ ~(heap'[q].index[k] <= ls[i].limit)
        BY <3>3, <3>4, <3>5
      <3> QED BY <3>2, <3>6 DEF H!PlaceAt, H!Absent, q
    <2> QED BY <2>1, <2>2
  <1>7. DOMAIN ls = D
    BY <1>3
  <1>8. Hit = {i \in D : H!PlaceAt(heap, ls[i], k) # H!Absent}
    BY <1>7 DEF H!HitLevels, ls
  <1>9. Hitp = {i \in D : H!PlaceAt(heap', lsp[i], k) # H!Absent}
    BY <1>4 DEF H!HitLevels, lsp
  <1>10. Hitp = Hit
    BY <1>6, <1>8, <1>9
  <1> HIDE DEF D
  <1>11. CASE Hit = {}
    BY <1>10, <1>11 DEF H!Find
  <1>12. CASE Hit # {}
    <2> DEFINE i == CHOOSE i \in Hit : \A j \in Hit : i <= j
    <2>1. i \in Hit
      <3>1. Hit \in SUBSET Nat
        BY <1>3, <1>8 DEF D
      <3>2. \E x \in Hit : \A y \in Hit : x <= y
        BY <1>12, <3>1, L!LeastOf
      <3> QED BY <3>2
    <2>2. H!Find(heap, n, k) = <<ls[i].node, H!PlaceAt(heap, ls[i], k)>>
      BY <1>12 DEF H!Find, ls
    <2>3. H!Find(heap', n, k) = <<lsp[i].node, H!PlaceAt(heap', lsp[i], k)>>
      BY <1>10, <1>12 DEF H!Find, lsp
    <2> HIDE DEF i, Hit
    <2>4. i \in D
      BY <1>8, <2>1
    <2> QED BY <1>6, <2>2, <2>3, <2>4
  <1> QED BY <1>11, <1>12
\* A new entry is what its own map finds from then on.
LEMMA FindNew ==
  ASSUME TypeOK, NEW n \in Nodes, NEW k \in Keys, heap'[n].outer = heap[n].outer,
         heap'[n].data \in Seq(Entry), Len(heap'[n].data) = Len(heap[n].data) + 1,
         heap'[n].index[k] = Len(heap[n].data) + 1
  PROVE  H!Find(heap', n, k) = <<n, Len(heap[n].data) + 1>>
  <1> DEFINE ls  == H!Levels(heap', n)
             o   == heap[n].outer
             l   == [node |-> n, limit |-> Len(heap'[n].data)]
             Hit == H!HitLevels(heap', n, k)
             i   == CHOOSE i \in Hit : \A j \in Hit : i <= j
  <1>1. o \in Seq(Level) /\ heap[n].data \in Seq(Entry)
    BY NodeType
  <1>2. l \in Level
    BY <1>1 DEF Level, Nodes, TypeOK
  <1>3. ls = <<l>> \o o
    BY DEF H!Levels
  <1> HIDE DEF l, ls, o
  <1>4. DOMAIN ls = 1..(Len(o) + 1) /\ ls[1] = l /\ 1 \in DOMAIN ls
    BY <1>1, <1>2, <1>3
  <1>5. H!PlaceAt(heap', ls[1], k) = Len(heap[n].data) + 1 /\ ls[1].node = n
    BY <1>1, <1>4 DEF H!PlaceAt, l
  <1>6. 1 \in Hit /\ \A j \in Hit : 1 <= j /\ j \in Int
    BY <1>1, <1>4, <1>5 DEF H!HitLevels, ls, H!Absent
  <1> HIDE DEF Hit
  <1>7. i \in Hit /\ \A j \in Hit : i <= j
    <2>1. \E x \in Hit : \A y \in Hit : x <= y
      BY <1>6
    <2> QED BY <2>1
  <1> HIDE DEF i
  <1>8. i = 1
    BY <1>6, <1>7
  <1>9. Hit # {}
    BY <1>6
  <1>10. H!Find(heap', n, k) = <<ls[i].node, H!PlaceAt(heap', ls[i], k)>>
    BY <1>9 DEF H!Find, i, Hit, ls
  <1> QED BY <1>5, <1>8, <1>10

\* A lookup reads nothing of the nodes built after the map's own.
LEMMA FindKeptByNewNodes ==
  ASSUME Inv, NEW n \in Nodes, NEW k \in Keys, NEW ns \in Seq(Node), heap' = heap \o ns
  PROVE  H!Find(heap', n, k) = H!Find(heap, n, k)
  <1>1. /\ heap' \in Seq(Node) /\ Len(heap') = Len(heap) + Len(ns)
        /\ \A q \in Nodes : heap'[q] = heap[q]
    BY OldNodesKept
  <1>2. \A q \in Nodes : Len(heap[q].data) <= Len(heap'[q].data)
    <2> TAKE q \in Nodes
    <2>1. heap[q].data \in Seq(Entry) /\ heap'[q].data = heap[q].data
      BY <1>1, NodeType DEF Inv
    <2>2. Len(heap[q].data) \in Nat
      BY <2>1
    <2> QED BY <2>1, <2>2
  <1>3. Len(heap) <= Len(heap')
    BY <1>1 DEF Inv, TypeOK
  <1> QED BY <1>1, <1>2, <1>3, FindKept

\* One step of the next theorem, action by action.
LEMMA NextLookupsStay ==
  ASSUME Inv, [Next]_vars, NEW p \in Live, state'[p] = state[p], NEW k \in Keys
  PROVE  H!Find(heap', state[p], k) \in
           {H!Find(heap, state[p], k), <<state[p], Len(heap[state[p]].data) + 1>>}
  <1> DEFINE n == state[p]
             Same == H!Find(heap', n, k) = H!Find(heap, n, k)
  <1>0. TypeOK /\ p \in Maps /\ n \in Nodes
    BY DEF Inv, TypeOK, Live, Nodes, Dead
  <1>n. \A m \in Maps : state[m] # Dead => state[m] \in Nodes
    BY <1>0 DEF TypeOK, Nodes, Dead
  <1> SUFFICES Same \/ H!Find(heap', n, k) = <<n, Len(heap[n].data) + 1>>
    OBVIOUS
  <1> HIDE DEF n
  <1>b. ASSUME NEW m \in Maps, NEW x \in Node, Build(m, x) PROVE Same
    <2> DEFINE ns == <<x>>
    <2>1. heap' = heap \o ns /\ ns \in Seq(Node)
      BY <1>0, <1>b, AppendIsConcat DEF Build
    <2> HIDE DEF ns
    <2> QED BY <1>0, <2>1, FindKeptByNewNodes
  <1>1. ASSUME NEW m \in Maps, Construct(m) PROVE Same
    <2>1. <<>> \in Seq(Level)
      OBVIOUS
    <2>2. H!RootNode \in Node
      BY <2>1, EmptyNodeType DEF H!RootNode
    <2> QED BY <1>1, <1>b, <2>2 DEF Construct
  <1>2. ASSUME NEW m \in Maps, Destroy(m) PROVE Same
    BY <1>2 DEF Destroy
  <1>3. ASSUME NEW q \in Maps, NEW m \in Maps, Extend(q, m) PROVE Same
    <2>1. state[q] \in Nodes /\ Build(m, H!ChildNode(heap, state[q]))
      BY <1>3, <1>n DEF Extend
    <2>2. H!ChildNode(heap, state[q]) \in Node
      BY <1>0, <2>1, LevelsType, EmptyNodeType DEF H!ChildNode
    <2> QED BY <1>b, <2>1, <2>2
  <1>4. ASSUME NEW q \in Maps, NEW m \in Maps, InnermostCopy(q, m) PROVE Same
    <2>1. state[q] \in Nodes /\ Build(m, heap[state[q]])
      BY <1>4, <1>n DEF InnermostCopy
    <2> QED BY <1>0, <1>b, <2>1, NodeType
  <1>5. ASSUME NEW q \in Maps, NEW m \in Maps, DeepCopy(q, m) PROVE Same
    <2>1. state[q] \in Nodes /\ heap' = heap \o H!DeepCopied(heap, state[q])
      BY <1>5, <1>n DEF DeepCopy
    <2>2. H!DeepCopied(heap, state[q]) \in Seq(Node)
      BY <2>1, CopiesSound
    <2> QED BY <1>0, <2>1, <2>2, FindKeptByNewNodes
  <1>6. ASSUME NEW q \in Maps, NEW m \in Maps, Move(q, m) PROVE Same
    BY <1>6 DEF Move
  <1>7. ASSUME NEW m \in Maps, NEW j \in Keys, NEW v \in Vals, TryEmplace(m, j, v)
        PROVE  Same \/ H!Find(heap', n, k) = <<n, Len(heap[n].data) + 1>>
    <2> DEFINE e == state[m]
    <2>1. e \in Nodes /\ heap' = H!Emplaced(heap, e, j, v)
      BY <1>7, <1>n DEF TryEmplace
    <2> HIDE DEF e
    <2>2. CASE heap[e].index[j] # H!Absent
      BY <2>1, <2>2 DEF H!Emplaced
    <2>3. CASE heap[e].index[j] = H!Absent
      <3>1. /\ heap' \in Seq(Node) /\ Len(heap') = Len(heap)
            /\ \A q \in Nodes \ {e} : heap'[q] = heap[q]
            /\ heap'[e].outer = heap[e].outer
            /\ heap'[e].data = Append(heap[e].data, [key |-> j, val |-> v])
            /\ heap'[e].index = [heap[e].index EXCEPT ![j] = Len(heap[e].data) + 1]
        BY <2>1, <2>3, EmplacedSound
      <3>2. /\ heap[e].data \in Seq(Entry) /\ heap[e].index \in [Keys -> Nat]
            /\ heap'[e].data \in Seq(Entry) /\ Len(heap'[e].data) = Len(heap[e].data) + 1
        <4>1. [key |-> j, val |-> v] \in Entry
          BY DEF Entry
        <4>2. heap[e].data \in Seq(Entry) /\ heap[e].index \in [Keys -> Nat]
          BY <1>0, <2>1, NodeType
        <4> QED BY <3>1, <4>1, <4>2
      <3>3. CASE n = e /\ k = j
        <4>1. heap'[n].index[k] = Len(heap[n].data) + 1
          BY <3>1, <3>2, <3>3
        <4> QED BY <1>0, <3>1, <3>2, <3>3, <4>1, FindNew
      <3>4. CASE ~(n = e /\ k = j)
        <4>1. heap'[n].index[k] = heap[n].index[k]
          BY <1>0, <3>1, <3>2, <3>4
        <4>2. ASSUME NEW q \in Nodes
              PROVE  /\ heap'[q].outer = heap[q].outer
                     /\ Len(heap[q].data) <= Len(heap'[q].data)
                     /\ \/ heap'[q].index[k] = heap[q].index[k]
                        \/ heap[q].index[k] = 0 /\ heap'[q].index[k] > Len(heap[q].data)
          <5>1. CASE q # e
            <6>1. heap[q].data \in Seq(Entry)
              BY <1>0, NodeType
            <6> QED BY <3>1, <5>1, <6>1
          <5>2. CASE q = e
            <6> DEFINE x == heap[e].index  b == Len(heap[e].data)
            <6>1. x \in [Keys -> Nat] /\ b \in Nat /\ x[j] = 0
                  /\ heap'[e].index = [x EXCEPT ![j] = b + 1]
              BY <2>3, <3>1, <3>2 DEF H!Absent
            <6> HIDE DEF x, b
            <6>2. \/ heap'[e].index[k] = x[k]
                  \/ x[k] = 0 /\ heap'[e].index[k] > b
              BY <6>1
            <6>3. b <= Len(heap'[e].data)
              BY <3>2, <6>1 DEF b
            <6> QED BY <3>1, <5>2, <6>2, <6>3 DEF x, b
          <5> QED BY <5>1, <5>2
        <4>3. Len(heap) <= Len(heap')
          BY <1>0, <3>1 DEF TypeOK
        <4> QED BY <1>0, <3>1, <4>1, <4>2, <4>3, FindKept
      <3> QED BY <3>3, <3>4
    <2> QED BY <2>2, <2>3
  <1>8. ASSUME NEW m \in Maps, NEW j \in Keys, NEW v \in Vals, Write(m, j, v)
        PROVE  Same
    <2> DEFINE c == H!Find(heap, state[m], j)
               e == c[1]
               i == c[2]
    <2>1. heap' = H!Written(heap, c, v) /\ c # H!NoCell /\ state[m] \in Nodes
      BY <1>8, <1>n DEF Write
    <2>2. c = <<e, i>> /\ e \in Nodes /\ i \in DOMAIN heap[e].data
      BY <2>1, FindType
    <2> HIDE DEF c, e, i
    <2>3. /\ heap' \in Seq(Node) /\ Len(heap') = Len(heap)
          /\ \A q \in Nodes \ {e} : heap'[q] = heap[q]
          /\ heap'[e].outer = heap[e].outer
          /\ Len(heap'[e].data) = Len(heap[e].data)
          /\ heap'[e].index = heap[e].index
      BY <2>1, <2>2, WrittenSound
    <2>4. \A q \in Nodes : /\ heap'[q].outer = heap[q].outer
                           /\ Len(heap[q].data) <= Len(heap'[q].data)
                           /\ heap'[q].index = heap[q].index
      <3> TAKE q \in Nodes
      <3>1. heap[q].data \in Seq(Entry)
        BY <1>0, NodeType
      <3> QED BY <2>3, <3>1
    <2>5. Len(heap) <= Len(heap')
      BY <1>0, <2>3 DEF TypeOK
    <2> QED BY <1>0, <2>3, <2>4, <2>5, FindKept
  <1>9. CASE UNCHANGED vars
    BY <1>9 DEF vars
  <1> QED BY <1>1, <1>2, <1>3, <1>4, <1>5, <1>6, <1>7, <1>8, <1>9 DEF Next

\* LookupsStay, for any number of maps, keys, values, nodes and entries: what
\* a map finds changes only when the map itself gets a new entry.
THEOREM LookupsNeverShift == Spec => LookupsStay
  <1>1. Inv /\ [Next]_vars =>
          [\A p \in Live : state'[p] = state[p] => \A k \in Keys :
             H!Find(heap', state[p], k) \in
               {H!Find(heap, state[p], k), <<state[p], Len(heap[state[p]].data) + 1>>}]_vars
    BY NextLookupsStay
  <1> QED BY <1>1, AlwaysInv, PTL DEF Spec, LookupsStay

-----------------------------------------------------------------------------
(* The promise of the header's comments.                                   *)

\* Every entry has a cell of the promise.
Bounded ==
  /\ Len(heap) <= MaxNodes
  /\ \A n \in Nodes : Len(heap[n].data) <= MaxEntries

LEMMA SameOperators ==
  ASSUME NEW h, NEW n, NEW k
  PROVE  /\ H!Find(h, n, k) = L!Find(h, n, k)
         /\ H!Levels(h, n) = L!Levels(h, n)
         /\ H!ChildNode(h, n) = L!ChildNode(h, n)
         /\ H!NoCell = L!NoCell /\ H!Absent = L!Absent /\ L!Absent = 0
         /\ \A v : H!Emplaced(h, n, k, v) = L!Emplaced(h, n, k, v)
         /\ \A c, v : H!Written(h, c, v) = L!Written(h, c, v)
  <1>1. H!Levels(h, n) = L!Levels(h, n)
    BY DEF H!Levels, L!Levels
  <1>2. H!NoCell = L!NoCell /\ H!Absent = L!Absent /\ L!Absent = 0
    BY DEF H!NoCell, L!NoCell, H!Absent, L!Absent
  <1>3. \A l : H!PlaceAt(h, l, k) = L!PlaceAt(h, l, k)
    BY DEF H!PlaceAt, L!PlaceAt, H!Absent, L!Absent
  <1>4. H!HitLevels(h, n, k) = L!HitLevels(h, n, k)
    BY <1>1, <1>2, <1>3 DEF H!HitLevels, L!HitLevels
  <1>5. H!Find(h, n, k) = L!Find(h, n, k)
    BY <1>1, <1>2, <1>3, <1>4 DEF H!Find, L!Find
  <1>6. H!ChildNode(h, n) = L!ChildNode(h, n)
    BY <1>1, <1>2 DEF H!ChildNode, L!ChildNode, H!EmptyNode, L!EmptyNode
  <1>7. \A v : H!Emplaced(h, n, k, v) = L!Emplaced(h, n, k, v)
    BY <1>2 DEF H!Emplaced, L!Emplaced
  <1>8. \A c, v : H!Written(h, c, v) = L!Written(h, c, v)
    BY DEF H!Written, L!Written
  <1> QED BY <1>1, <1>2, <1>5, <1>6, <1>7, <1>8

LEMMA HeapIsWellFormed ==
  ASSUME Inv
  PROVE  L!WellFormed(heap, Vals) /\ DOMAIN heap = Nodes
  <1>1. TypeOK
    BY DEF Inv
  <1>2. heap \in Seq(L!NodeOf(Vals)) /\ DOMAIN heap = Nodes
    <2>1. L!NodeOf(Vals) = Node
      BY DEF L!NodeOf, Node, L!Level, Level, L!EntryOf, Entry
    <2> QED BY <1>1, <2>1 DEF TypeOK, Nodes
  <1>3. ASSUME NEW n \in Nodes PROVE L!Within(heap, n, heap[n].outer)
    BY <1>3 DEF Inv, HeapSound, OuterFollowsParent, Follows, SoundLevel, L!Within
  <1>4. ASSUME NEW n \in Nodes PROVE L!Indexed(heap[n])
    <2>1. Indexed(heap, n)
      BY <1>4 DEF Inv, HeapSound, IndexAgrees
    <2> QED BY <2>1 DEF Indexed, L!Indexed, H!Absent, L!Absent
  <1> QED BY <1>2, <1>3, <1>4 DEF L!WellFormed

LEMMA ViewOf ==
  ASSUME NEW m \in Live, NEW k \in Keys
  PROVE  View[m][k] = H!Find(heap, state[m], k)
  BY DEF View, Live

\* The cell of an entry, and that a place without entry is free.
LEMMA CellOf ==
  ASSUME Inv, Bounded, NEW n \in Nodes, NEW i \in DOMAIN heap[n].data
  PROVE  <<n, i>> \in Cells /\ Store[<<n, i>>] = heap[n].data[i].val
  <1>1. heap[n].data \in Seq(Entry) /\ TypeOK
    BY NodeType DEF Inv
  <1>2. n \in 1..MaxNodes /\ i \in 1..MaxEntries
    BY <1>1, BoundsAssumption DEF Bounded, Nodes, TypeOK
  <1>3. <<n, i>> \in Cells
    BY <1>2 DEF Cells
  <1> QED BY <1>3 DEF Store, Stored

LEMMA FreeOf ==
  ASSUME NEW c \in Cells, c[1] \notin Nodes \/ c[2] \notin DOMAIN heap[c[1]].data
  PROVE  Store[c] = Free
  BY DEF Store, Stored

\* A new object with a new node at the end of the heap: nothing changes for the
\* other objects or for the cells in use.
NewMap(m, ns) ==
  /\ Inv /\ Bounded /\ ns \in Seq(Node) /\ heap' = heap \o ns /\ Len(ns) > 0
  /\ m \in Maps /\ state[m] = Dead
  /\ state' = [state EXCEPT ![m] = Len(heap) + Len(ns)]
  /\ Len(heap) + Len(ns) <= MaxNodes

LEMMA NewMapParts ==
  ASSUME NEW m, NEW ns, NewMap(m, ns)
  PROVE  /\ TypeOK /\ m \notin Live /\ m \in Live' /\ Live' = Live \union {m}
         /\ \A p \in Live : state'[p] = state[p] /\ state[p] \in Nodes
         /\ state'[m] = Len(heap) + Len(ns) /\ state'[m] \notin Nodes /\ state'[m] \in Nodes'
         /\ Len(heap') = Len(heap) + Len(ns) /\ heap' \in Seq(Node) /\ Nodes \subseteq Nodes'
         /\ \A n \in Nodes : heap'[n] = heap[n]
         /\ \A j \in 1..Len(ns) : heap'[Len(heap) + j] = ns[j]
  <1>1. /\ TypeOK /\ m \in Maps /\ state[m] = 0 /\ Len(heap) \in Nat /\ Len(ns) \in Nat
        /\ Len(ns) > 0 /\ state' = [state EXCEPT ![m] = Len(heap) + Len(ns)]
    BY DEF NewMap, Inv, TypeOK, Dead
  <1>2. /\ Len(heap') = Len(heap) + Len(ns) /\ heap' \in Seq(Node)
        /\ \A n \in Nodes : heap'[n] = heap[n]
        /\ \A j \in 1..Len(ns) : heap'[Len(heap) + j] = ns[j]
    BY OldNodesKept DEF NewMap
  <1>3. \A p \in Live : p \in Maps /\ p # m /\ state[p] \in Nodes
    BY <1>1 DEF Live, TypeOK, Nodes, Dead
  <1>4. /\ state'[m] = Len(heap) + Len(ns) /\ state'[m] # 0
        /\ \A p \in Maps \ {m} : state'[p] = state[p]
    BY <1>1 DEF TypeOK
  <1>5. m \notin Live /\ Live' = Live \union {m}
    BY <1>1, <1>4 DEF Live, Dead
  <1>6. state'[m] \notin Nodes /\ state'[m] \in Nodes' /\ Nodes \subseteq Nodes'
    BY <1>1, <1>2, <1>4 DEF Nodes
  <1> QED BY <1>1, <1>2, <1>3, <1>4, <1>5, <1>6

LEMMA NewMapCells ==
  ASSUME NEW m, NEW ns, NewMap(m, ns)
  PROVE  /\ \A c \in Cells : c[1] \in Nodes => Store'[c] = Store[c]
         /\ \A c \in Cells : c[1] \notin Nodes => Store[c] = Free
         /\ Promise!StoreGrows
  <1>1. /\ \A n \in Nodes : heap'[n] = heap[n]
        /\ Nodes \subseteq Nodes'
    BY NewMapParts
  <1>2. \A c \in Cells : c[1] \in Nodes => Store'[c] = Store[c]
    BY <1>1 DEF Store, Stored
  <1>3. \A c \in Cells : c[1] \notin Nodes => Store[c] = Free
    BY FreeOf
  <1>4. Promise!StoreGrows
    BY <1>2, <1>3 DEF Promise!StoreGrows
  <1> QED BY <1>2, <1>3, <1>4

LEMMA NewMapViews ==
  ASSUME NEW m, NEW ns, NewMap(m, ns)
  PROVE  /\ View' = [View EXCEPT ![m] = View'[m]]
         /\ Own' = [Own EXCEPT ![m] = Own'[m]]
  <1>1. /\ Live' = Live \union {m} /\ m \notin Live /\ m \in Live' /\ m \in Maps
        /\ \A p \in Live : state'[p] = state[p] /\ state[p] \in Nodes
        /\ state'[m] = Len(heap) + Len(ns)
        /\ \A n \in Nodes : heap'[n] = heap[n]
    BY NewMapParts DEF NewMap
  <1>2. \A n \in Nodes, k \in Keys : H!Find(heap', n, k) = H!Find(heap, n, k)
    BY FindKeptByNewNodes DEF NewMap
  <1>3. \A p \in Maps \ {m} : View'[p] = View[p]
    <2> TAKE p \in Maps \ {m}
    <2>1. CASE p \in Live
      <3>1. p \in Live' /\ state'[p] = state[p] /\ state[p] \in Nodes
        BY <1>1, <2>1
      <3> QED BY <1>2, <2>1, <3>1 DEF View
    <2>2. CASE p \notin Live
      <3>1. p \notin Live'
        BY <1>1, <2>2
      <3> QED BY <2>2, <3>1 DEF View
    <2> QED BY <2>1, <2>2
  <1>4. \A p \in Maps \ {m} : Own'[p] = Own[p]
    <2> TAKE p \in Maps \ {m}
    <2>1. CASE p \in Live
      <3>1. p \in Live' /\ state'[p] = state[p] /\ heap'[state[p]] = heap[state[p]]
        BY <1>1, <2>1
      <3> QED BY <2>1, <3>1 DEF Own
    <2>2. CASE p \notin Live
      <3>1. p \notin Live'
        BY <1>1, <2>2
      <3> QED BY <2>2, <3>1 DEF Own
    <2> QED BY <2>1, <2>2
  <1>5. View' = [View EXCEPT ![m] = View'[m]]
    <2>1. View' = [p \in Maps |-> View'[p]] /\ View = [p \in Maps |-> View[p]]
      BY DEF View
    <2> QED BY <1>3, <2>1
  <1>6. Own' = [Own EXCEPT ![m] = Own'[m]]
    <2>1. Own' = [p \in Maps |-> Own'[p]] /\ Own = [p \in Maps |-> Own[p]]
      BY DEF Own
    <2> QED BY <1>4, <2>1
  <1> QED BY <1>5, <1>6

\* What the new object sees.
LEMMA NewMapSees ==
  ASSUME NEW m, NEW ns, NewMap(m, ns)
  PROVE  /\ \A k \in Keys : View'[m][k] = H!Find(heap', Len(heap) + Len(ns), k)
         /\ View'[m] = [k \in Keys |-> View'[m][k]]
  <1>1. m \in Live' /\ m \in Maps /\ state'[m] = Len(heap) + Len(ns)
    BY NewMapParts DEF NewMap
  <1> QED BY <1>1 DEF View

LEMMA NewMapOwns ==
  ASSUME NEW m, NEW ns, NewMap(m, ns)
  PROVE  Own'[m] = {k \in Keys : heap'[Len(heap) + Len(ns)].index[k] # 0}
  <1>1. m \in Live' /\ m \in Maps /\ state'[m] = Len(heap) + Len(ns)
    BY NewMapParts DEF NewMap
  <1> QED BY <1>1 DEF Own, H!Absent

LEMMA NewMapBorn ==
  ASSUME NEW m, NEW ns, NewMap(m, ns), NEW w, NEW names, View'[m] = w, Own'[m] = names
  PROVE  Promise!Born(m, w, names)
  <1>1. View' = [View EXCEPT ![m] = w] /\ Own' = [Own EXCEPT ![m] = names]
    BY NewMapViews
  <1> QED BY <1>1, NewMapParts, NewMapCells DEF Promise!Born

\* The new object with the new node x alone.
NewNode(m, x) ==
  /\ NewMap(m, <<x>>) /\ Len(<<x>>) = 1
  /\ heap' = Append(heap, x) /\ heap'[Len(heap) + 1] = x

LEMMA BuildIsNewMap ==
  ASSUME Inv, Bounded, NEW m \in Maps, NEW x \in Node, Build(m, x)
  PROVE  NewNode(m, x)
  <1>1. TypeOK
    BY DEF Inv
  <1> DEFINE ns == <<x>>
  <1>2. heap' = heap \o ns /\ ns \in Seq(Node) /\ Len(ns) = 1
    BY <1>1, AppendIsConcat DEF Build
  <1>3. heap' = Append(heap, x) /\ heap'[Len(heap) + 1] = x
    BY <1>1 DEF Build, TypeOK
  <1> HIDE DEF ns
  <1>4. Len(heap) + Len(ns) <= MaxNodes
    BY <1>1, <1>2, BoundsAssumption DEF Build, TypeOK
  <1>5. NewMap(m, ns)
    BY <1>2, <1>4 DEF NewMap, Build
  <1> QED BY <1>2, <1>3, <1>5 DEF ns, NewNode

\* A new node without entries makes no cell.
LEMMA EmptyHasNoCells ==
  ASSUME NEW m, NEW x, NewNode(m, x), x.data = <<>>
  PROVE  UNCHANGED Store
  <1>1. /\ \A c \in Cells : c[1] \in Nodes => Store'[c] = Store[c]
        /\ \A c \in Cells : c[1] \notin Nodes => Store[c] = Free
    BY NewMapCells DEF NewNode
  <1>2. TypeOK /\ Len(heap') = Len(heap) + 1 /\ heap'[Len(heap) + 1] = x
    <2> DEFINE ns == <<x>>
    <2>1. ns[1] = x /\ NewMap(m, ns) /\ Len(ns) = 1
      BY DEF NewNode
    <2> HIDE DEF ns
    <2>2. /\ TypeOK /\ Len(heap') = Len(heap) + Len(ns)
          /\ \A j \in 1..Len(ns) : heap'[Len(heap) + j] = ns[j]
      BY <2>1, NewMapParts
    <2> QED BY <2>1, <2>2
  <1>3. ASSUME NEW c \in Cells, c[1] \notin Nodes PROVE Store'[c] = Free
    <2>1. CASE c[1] \notin Nodes'
      BY <2>1 DEF Store, Stored
    <2>2. CASE c[1] \in Nodes'
      <3>1. c[1] = Len(heap) + 1
        BY <1>2, <1>3, <2>2 DEF Nodes, TypeOK
      <3>2. DOMAIN heap'[c[1]].data = {}
        BY <1>2, <3>1
      <3> QED BY <3>2 DEF Store, Stored
    <2> QED BY <2>1, <2>2
  <1>4. \A c \in Cells : Store'[c] = Store[c]
    BY <1>1, <1>3
  <1>5. Store' = [c \in Cells |-> Store'[c]] /\ Store = [c \in Cells |-> Store[c]]
    BY DEF Store
  <1> QED BY <1>4, <1>5

LEMMA BuildViews ==
  ASSUME NEW m, NEW x, NewNode(m, x)
  PROVE  /\ \A k \in Keys : View'[m][k] = H!Find(heap', Len(heap) + 1, k)
         /\ View'[m] = [k \in Keys |-> View'[m][k]]
  <1> DEFINE ns == <<x>>
  <1>1. NewMap(m, ns) /\ Len(ns) = 1
    BY DEF NewNode
  <1> HIDE DEF ns
  <1>2. View'[m] = [k \in Keys |-> View'[m][k]]
    BY <1>1, NewMapSees
  <1>3. \A k \in Keys : View'[m][k] = H!Find(heap', Len(heap) + Len(ns), k)
    BY <1>1, NewMapSees
  <1> QED BY <1>1, <1>2, <1>3

LEMMA BuildOwns ==
  ASSUME NEW m, NEW x, NewNode(m, x)
  PROVE  Own'[m] = {k \in Keys : x.index[k] # 0}
  <1> DEFINE ns == <<x>>
  <1>1. NewMap(m, ns) /\ Len(ns) = 1 /\ heap'[Len(heap) + 1] = x
    BY DEF NewNode
  <1> HIDE DEF ns
  <1>2. Own'[m] = {k \in Keys : heap'[Len(heap) + Len(ns)].index[k] # 0}
    BY <1>1, NewMapOwns
  <1> QED BY <1>1, <1>2

LEMMA ConstructPromised ==
  ASSUME Inv, Bounded, NEW m \in Maps, Construct(m)
  PROVE  Promise!Construct(m)
  <1> DEFINE e == Len(heap) + 1
  <1>0. PICK x \in Node : x = H!RootNode
    <2>1. <<>> \in Seq(Level)
      OBVIOUS
    <2> QED BY <2>1, EmptyNodeType DEF H!RootNode
  <1>1. x = [outer |-> <<>>, data |-> <<>>, index |-> [k \in Keys |-> 0]]
    BY <1>0 DEF H!RootNode, H!EmptyNode, H!Absent
  <1>2. x.outer = <<>> /\ x.data = <<>> /\ \A k \in Keys : x.index[k] = 0
    BY <1>1
  <1>3. /\ NewNode(m, x)
        /\ heap' = Append(heap, x) /\ heap'[e] = x
    <2>1. Build(m, x)
      BY <1>0 DEF Construct
    <2>2. NewNode(m, x)
      BY <1>1, <2>1, BuildIsNewMap
    <2> QED BY <2>2 DEF NewNode
  <1>4. L!WellFormed(heap', Vals) /\ e \in DOMAIN heap'
    <2>1. L!WellFormed(heap, Vals) /\ x \in L!NodeOf(Vals)
      BY <1>1, HeapIsWellFormed DEF L!NodeOf, Node, L!Level, Level, L!EntryOf, Entry
    <2>2. L!InHeap(heap, x.outer)
      BY <1>2 DEF L!InHeap
    <2>3. L!Indexed(x)
      BY <1>2 DEF L!Indexed, L!Absent
    <2> QED BY <1>3, <2>1, <2>2, <2>3, L!Appending
  <1>5. ASSUME NEW k \in Keys PROVE H!Find(heap', e, k) = H!NoCell
    <2>1. L!Find(heap', e, k) = L!FindIn(heap', <<>>, k)
      <3>1. heap'[e].index[k] = L!Absent /\ heap'[e].outer = <<>>
        BY <1>2, <1>3 DEF L!Absent
      <3> HIDE DEF e
      <3> QED BY <1>4, <3>1, L!FindFrom
    <2> QED BY <2>1, L!FindInNowhere, SameOperators
  <1>6. View'[m] = [k \in Keys |-> H!NoCell]
    <2>1. \A k \in Keys : View'[m][k] = H!NoCell
      BY <1>3, <1>5, BuildViews
    <2>2. View'[m] = [k \in Keys |-> View'[m][k]]
      BY <1>3, BuildViews
    <2> QED BY <2>1, <2>2
  <1>8. Own'[m] = {}
    BY <1>2, <1>3, BuildOwns
  <1>7. UNCHANGED Store
    BY <1>2, <1>3, EmptyHasNoCells
  <1> QED BY <1>3, <1>6, <1>7, <1>8, NewMapBorn DEF Promise!Construct, NewNode

LEMMA ExtendPromised ==
  ASSUME Inv, Bounded, NEW p \in Maps, NEW m \in Maps, Extend(p, m)
  PROVE  Promise!Extend(p, m)
  <1> DEFINE n == state[p]
             e == Len(heap) + 1
  <1>1. n \in Nodes /\ p \in Live /\ TypeOK
    BY DEF Extend, Inv, TypeOK, Nodes, Dead, Live
  <1>0. PICK x \in Node : x = H!ChildNode(heap, n)
    BY <1>1, LevelsType, EmptyNodeType DEF H!ChildNode
  <1>2. x \in Node /\ x.data = <<>> /\ \A k \in Keys : x.index[k] = 0
    BY <1>0 DEF H!ChildNode, H!EmptyNode, H!Absent
  <1>3. Build(m, x)
    BY <1>0 DEF Extend
  <1> HIDE DEF n
  <1>4. /\ NewNode(m, x)
        /\ heap' = Append(heap, x) /\ heap'[e] = x
    <2>1. NewNode(m, x)
      BY <1>2, <1>3, BuildIsNewMap
    <2> QED BY <2>1 DEF NewNode
  <1>5. ASSUME NEW k \in Keys PROVE H!Find(heap', e, k) = View[p][k]
    <2>1. x = L!ChildNode(heap, n)
      BY <1>0, SameOperators
    <2>2. L!ChildAdded(heap, heap', n, Vals)
      BY <1>1, <1>4, <2>1, HeapIsWellFormed, L!ChildSees
    <2>3. L!Find(heap', e, k) = L!Find(heap, n, k)
      BY <2>2 DEF L!ChildAdded
    <2> QED BY <1>1, <2>3, SameOperators, ViewOf DEF n
  <1>6. View'[m] = View[p]
    <2>1. View[p] = [k \in Keys |-> View[p][k]]
      BY DEF View
    <2>2. View'[m] = [k \in Keys |-> View'[m][k]] /\ \A k \in Keys : View'[m][k] = View[p][k]
      BY <1>4, <1>5, BuildViews
    <2> QED BY <2>1, <2>2
  <1>7. Own'[m] = {}
    BY <1>2, <1>4, BuildOwns
  <1>8. UNCHANGED Store
    BY <1>2, <1>4, EmptyHasNoCells
  <1> QED BY <1>1, <1>4, <1>6, <1>7, <1>8, NewMapBorn DEF Promise!Extend, NewNode

LEMMA InnermostCopyPromised ==
  ASSUME Inv, Bounded, NEW p \in Maps, NEW m \in Maps, InnermostCopy(p, m)
  PROVE  Promise!InnermostCopy(p, m)
  <1> DEFINE n == state[p]
             e == Len(heap) + 1
  <1>1. n \in Nodes /\ p \in Live /\ TypeOK
    BY DEF InnermostCopy, Inv, TypeOK, Nodes, Dead, Live
  <1>0. PICK x \in Node : x = heap[n]
    BY <1>1, NodeType
  <1>2. Build(m, x)
    BY <1>0 DEF InnermostCopy
  <1>3. /\ NewNode(m, x)
        /\ heap' = Append(heap, x) /\ heap'[e] = x
    <2>1. NewNode(m, x)
      BY <1>1, <1>2, BuildIsNewMap
    <2> QED BY <2>1 DEF NewNode
  <1> HIDE DEF n
  <1>4. Own[p] = {k \in Keys : x.index[k] # 0} /\ Own'[m] = Own[p]
    <2>1. Own[p] = {k \in Keys : x.index[k] # 0}
      BY <1>0, <1>1 DEF Own, H!Absent, n
    <2>2. Own'[m] = {k \in Keys : x.index[k] # 0}
      BY <1>3, BuildOwns
    <2> QED BY <2>1, <2>2
  <1>5. ASSUME NEW k \in Keys
        PROVE  /\ x.index[k] # 0 => View'[m][k] = <<e, x.index[k]>> /\ View[p][k] = <<n, x.index[k]>>
               /\ x.index[k] = 0 => View'[m][k] = View[p][k]
    <2>1. L!WellFormed(heap, Vals) /\ n \in DOMAIN heap /\ heap' = Append(heap, heap[n])
      BY <1>0, <1>1, <1>3, HeapIsWellFormed
    <2>2. /\ heap[n].index[k] # L!Absent => L!Find(heap', e, k) = <<e, heap[n].index[k]>>
          /\ heap[n].index[k] = L!Absent => L!Find(heap', e, k) = L!Find(heap, n, k)
      BY <2>1, L!CopySees
    <2>3. heap[n].index[k] # L!Absent => L!Find(heap, n, k) = <<n, heap[n].index[k]>>
      BY <2>1, L!FindFrom
    <2>4. View'[m][k] = L!Find(heap', e, k) /\ View[p][k] = L!Find(heap, n, k)
      <3>1. View'[m][k] = H!Find(heap', e, k)
        BY <1>3, BuildViews
      <3>2. View[p][k] = H!Find(heap, n, k)
        BY <1>1, ViewOf DEF n
      <3> QED BY <3>1, <3>2, SameOperators
    <2> QED BY <1>0, <2>2, <2>3, <2>4, SameOperators
  <1>6. ASSUME NEW k \in Own[p] PROVE Promise!CopyOf(View[p][k], View'[m][k])
    <2> DEFINE i == x.index[k]
    <2>1. k \in Keys /\ i # 0 /\ i \in DOMAIN x.data
      BY <1>0, <1>1, <1>4, <1>6 DEF Inv, HeapSound, IndexAgrees, Indexed, H!Absent
    <2>2. View'[m][k] = <<e, i>> /\ View[p][k] = <<n, i>>
      BY <1>5, <2>1
    <2> HIDE DEF i
    <2>3. <<n, i>> \in Cells /\ Store[<<n, i>>] = x.data[i].val
      BY <1>0, <1>1, <2>1, CellOf
    <2>4. e \notin Nodes /\ e \in Nodes' /\ e \in 1..MaxNodes
      <3>1. Len(heap) + 1 <= MaxNodes /\ Len(heap') = Len(heap) + 1 /\ Len(heap) \in Nat
        BY <1>1, <1>2, <1>3, BoundsAssumption DEF Build, TypeOK
      <3> QED BY <3>1, BoundsAssumption DEF Nodes
    <2>5. <<e, i>> \in Cells
      BY <2>3, <2>4 DEF Cells
    <2>6. Store[<<e, i>>] = Free
      BY <2>4, <2>5, FreeOf
    <2>7. Store'[<<e, i>>] = x.data[i].val
      BY <1>3, <2>1, <2>4, <2>5 DEF Store, Stored
    <2> QED BY <2>2, <2>3, <2>6, <2>7 DEF Promise!CopyOf
  <1>7. \A k \in Keys \ Own[p] : View'[m][k] = View[p][k]
    BY <1>4, <1>5
  <1>8. Promise!Born(m, View'[m], Own[p])
    BY <1>3, <1>4, NewMapBorn DEF NewNode
  <1> QED BY <1>1, <1>6, <1>7, <1>8 DEF Promise!InnermostCopy

\* A lookup of k from the copy of n stops at the copy of the i-th of its nb
\* levels, and one from n at that level, which is node q, at the same place a.
StopAtCopy(n, nb, k, i, q, a) ==
  /\ a # 0 /\ heap'[Len(heap) + nb + 1 - i].data = heap[q].data
  /\ L!Find(heap, n, k) = <<q, a>>
  /\ L!Find(heap', Len(heap) + nb, k) = <<Len(heap) + nb + 1 - i, a>>

LEMMA DeepCopySees ==
  ASSUME Inv, NEW n \in Nodes, heap' = heap \o H!DeepCopied(heap, n), NEW k \in Keys,
         NEW nb, nb = Len(H!Levels(heap, n)),
         \/ L!Find(heap, n, k) # L!NoCell
         \/ L!Find(heap', Len(heap) + nb, k) # L!NoCell
  PROVE  \E i \in 1..nb, q \in Nodes, a \in Nat : StopAtCopy(n, nb, k, i, q, a)
  <1> DEFINE ls == H!Levels(heap, n)
             src(j) == ls[nb + 1 - j].node
             e == Len(heap) + nb
             ms == L!Levels(heap', e)
  <1>1. /\ TypeOK /\ nb \in Nat /\ nb = Len(ls) /\ nb = Len(heap[n].outer) + 1
        /\ Len(heap[n].outer) \in Nat /\ ls \in Seq(Level)
        /\ ls[1].node = n /\ ls[1].limit = Len(heap[n].data)
    <2>1. TypeOK
      BY DEF Inv
    <2>2. ls \in Seq(Level) /\ Len(ls) = Len(heap[n].outer) + 1
          /\ ls[1] = [node |-> n, limit |-> Len(heap[n].data)]
      BY <2>1, LevelsType
    <2>3. heap[n].outer \in Seq(Level)
      BY <2>1, NodeType
    <2>4. Len(heap[n].outer) \in Nat
      BY <2>3
    <2>5. nb = Len(ls)
      OBVIOUS
    <2> HIDE DEF ls
    <2> QED BY <2>1, <2>2, <2>4, <2>5
  <1>2. /\ \A i \in 1..nb : ls[i].node \in Nodes
        /\ \A j \in 1..nb :
             LET p == heap'[Len(heap) + j]
             IN  /\ p.data = heap[src(j)].data /\ p.index = heap[src(j)].index
                 /\ DOMAIN p.outer = 1..(j - 1) /\ Len(p.outer) = j - 1
                 /\ \A i \in 1..(j - 1) :
                      p.outer[i] = [node  |-> Len(heap) + j - i,
                                    limit |-> ls[nb + 1 - j + i].limit]
    BY CopiesParts
  <1> HIDE DEF ls
  <1>3. heap' \in Seq(Node) /\ Len(heap') = Len(heap) + nb /\ Len(heap) \in Nat
    <2>1. H!DeepCopied(heap, n) \in Seq(Node) /\ Len(H!DeepCopied(heap, n)) = nb
      BY CopiesParts DEF ls
    <2> DEFINE cs == H!DeepCopied(heap, n)
    <2>2. cs \in Seq(Node) /\ Len(cs) = nb /\ heap' = heap \o cs
      BY <2>1
    <2> HIDE DEF cs
    <2>3. heap' \in Seq(Node) /\ Len(heap') = Len(heap) + Len(cs)
      BY <2>2, OldNodesKept
    <2> QED BY <1>1, <2>2, <2>3 DEF TypeOK
  <1>4. /\ DOMAIN heap'[e].outer = 1..(nb - 1) /\ Len(heap'[e].outer) = nb - 1
        /\ \A i \in 1..(nb - 1) :
             heap'[e].outer[i] = [node |-> Len(heap) + nb - i, limit |-> ls[i + 1].limit]
        /\ Len(heap'[e].data) = ls[1].limit
    <2>1. nb \in 1..nb /\ nb + 1 - nb = 1
      BY <1>1
    <2>2. /\ DOMAIN heap'[e].outer = 1..(nb - 1) /\ Len(heap'[e].outer) = nb - 1
          /\ \A i \in 1..(nb - 1) :
               heap'[e].outer[i] = [node  |-> Len(heap) + nb - i,
                                    limit |-> ls[nb + 1 - nb + i].limit]
          /\ heap'[e].data = heap[ls[1].node].data
      BY <1>2, <2>1
    <2>3. \A i \in 1..(nb - 1) : nb + 1 - nb + i = i + 1
      BY <1>1
    <2> QED BY <1>1, <2>2, <2>3
  <1>5. ms \in Seq(L!Level) /\ Len(ms) = nb
        /\ \A i \in 1..nb : ms[i].node = Len(heap) + nb + 1 - i /\ ms[i].limit = ls[i].limit
    <2> DEFINE l == [node |-> e, limit |-> Len(heap'[e].data)]
               o == heap'[e].outer
    <2>1. ms = <<l>> \o o
      BY DEF L!Levels
    <2>2. l \in L!Level /\ o \in Seq(L!Level) /\ l.node = e /\ l.limit = ls[1].limit
      <3>1. heap'[e] \in Node /\ e \in Nat
        BY <1>1, <1>3, SMTT(30)
      <3>2. o \in Seq(Level)
        BY <3>1 DEF Node
      <3>4. ls[1] \in Level
        <4>1. DOMAIN ls = 1..nb
          BY <1>1, SeqDomain
        <4>2. 1 \in 1..nb
          BY <1>1
        <4> QED BY <1>1, <4>1, <4>2
      <3>3. ls[1].limit \in Nat
        BY <3>4 DEF Level
      <3> QED BY <1>4, <3>1, <3>2, <3>3 DEF L!Level, Level
    <2>3. /\ Len(o) = nb - 1
          /\ \A i \in 1..(nb - 1) : o[i].node = Len(heap) + nb - i /\ o[i].limit = ls[i + 1].limit
      <3>1. ASSUME NEW i \in 1..(nb - 1)
            PROVE  o[i].node = Len(heap) + nb - i /\ o[i].limit = ls[i + 1].limit
        <4>1. o[i] = [node |-> Len(heap) + nb - i, limit |-> ls[i + 1].limit]
          BY <1>4
        <4> HIDE DEF o
        <4> QED BY <4>1
      <3> QED BY <1>4, <3>1
    <2> HIDE DEF l, o, ms
    <2>4. /\ ms \in Seq(L!Level) /\ Len(ms) = Len(o) + 1 /\ ms[1] = l
          /\ \A i \in 1..Len(o) : ms[i + 1] = o[i]
      BY <2>1, <2>2
    <2>5. ASSUME NEW i \in 1..nb
          PROVE  ms[i].node = Len(heap) + nb + 1 - i /\ ms[i].limit = ls[i].limit
      <3>1. CASE i = 1
        BY <1>1, <1>3, <2>2, <2>4, <3>1
      <3>2. CASE i # 1
        <4>1. i - 1 \in 1..(nb - 1) /\ i - 1 \in 1..Len(o) /\ (i - 1) + 1 = i
          BY <1>1, <2>3, <3>2
        <4>2. ms[i] = o[i - 1]
          BY <2>4, <4>1
        <4>3. o[i - 1].node = Len(heap) + nb - (i - 1) /\ o[i - 1].limit = ls[i].limit
          BY <2>3, <4>1
        <4> QED BY <1>1, <1>3, <4>2, <4>3
      <3> QED BY <3>1, <3>2
    <2>6. Len(ms) = nb
      BY <1>1, <2>3, <2>4
    <2> QED BY <2>4, <2>5, <2>6
  <1> HIDE DEF ms
  <1>6. ASSUME NEW i \in 1..nb
        PROVE  /\ heap'[Len(heap) + nb + 1 - i].data = heap[ls[i].node].data
               /\ heap'[Len(heap) + nb + 1 - i].index = heap[ls[i].node].index
    <2> DEFINE j == nb + 1 - i
    <2>1. j \in 1..nb /\ Len(heap) + j = Len(heap) + nb + 1 - i /\ nb + 1 - j = i
      <3>1. nb \in Nat /\ Len(heap) \in Nat
        BY <1>1, <1>3
      <3> QED BY <3>1
    <2> HIDE DEF j
    <2>2. src(j) = ls[i].node
      BY <2>1
    <2> HIDE DEF src
    <2>3. /\ heap'[Len(heap) + j].data = heap[src(j)].data
          /\ heap'[Len(heap) + j].index = heap[src(j)].index
      BY <1>2, <2>1
    <2> QED BY <2>1, <2>2, <2>3
  <1>7. \A i \in DOMAIN ls : L!PlaceAt(heap', ms[i], k) = L!PlaceAt(heap, ls[i], k)
    <2>1. DOMAIN ls = 1..nb
      BY <1>1, SeqDomain
    <2> QED BY <1>5, <1>6, <2>1 DEF L!PlaceAt
  <1>8. /\ L!Find(heap, n, k) = L!FindIn(heap, ls, k)
        /\ L!Find(heap', e, k) = L!FindIn(heap', ms, k)
    <2>1. ls = L!Levels(heap, n)
      BY SameOperators DEF ls
    <2> QED BY <2>1, L!FindAlongLevels DEF ms
  <1>9. PICK i \in DOMAIN ls : L!BothStop(heap, ls, heap', ms, k, i)
    <2> DEFINE g == heap'
    <2>1. DOMAIN ls = 1..nb
      BY <1>1, SeqDomain
    <2>2. /\ ls \in Seq(L!Level) /\ ms \in Seq(L!Level) /\ L!Alike(heap, ls, g, ms, k)
          /\ L!FindIn(heap, ls, k) # L!NoCell \/ L!FindIn(g, ms, k) # L!NoCell
      BY <1>1, <1>5, <1>7, <1>8, <2>1 DEF L!Level, Level, L!Alike
    <2> HIDE DEF g
    <2>3. \E i \in DOMAIN ls : L!BothStop(heap, ls, g, ms, k, i)
      BY <2>2, L!FindInAlike
    <2> QED BY <2>3 DEF g
  <1> DEFINE q == ls[i].node
             a == L!PlaceAt(heap, ls[i], k)
  <1>10. i \in 1..nb /\ q \in Nodes
    <2>1. i \in 1..nb
      BY <1>1, <1>9, SeqDomain
    <2> QED BY <1>2, <2>1
  <1>11. a \in Nat
    <2>1. heap[q].index[k] \in Nat
      BY <1>1, <1>10, NodeType
    <2> QED BY <2>1 DEF L!PlaceAt, L!Absent
  <1> HIDE DEF a, q
  <1>12. /\ a # 0 /\ heap'[Len(heap) + nb + 1 - i].data = heap[q].data
         /\ L!Find(heap, n, k) = <<q, a>>
         /\ L!Find(heap', e, k) = <<Len(heap) + nb + 1 - i, a>>
    BY <1>5, <1>6, <1>8, <1>9, <1>10 DEF a, q, L!Absent, L!BothStop
  <1> QED BY <1>10, <1>11, <1>12 DEF StopAtCopy

LEMMA DeepCopyPromised ==
  ASSUME Inv, Bounded, NEW p \in Maps, NEW m \in Maps, DeepCopy(p, m)
  PROVE  Promise!DeepCopy(p, m)
  <1>1. PICK n \in Nodes : n = state[p]
    BY DEF DeepCopy, Inv, TypeOK, Nodes, Dead
  <1>2. PICK nb, cs : nb = Len(H!Levels(heap, n)) /\ cs = H!DeepCopied(heap, n)
    OBVIOUS
  <1>3. /\ TypeOK /\ p \in Live /\ Len(heap) \in Nat
        /\ state[m] = Dead /\ heap' = heap \o cs /\ Len(heap) + Len(cs) <= MaxNodes
        /\ state' = [state EXCEPT ![m] = Len(heap) + Len(cs)]
    BY <1>1, <1>2 DEF DeepCopy, Live, Inv, TypeOK
  <1>4. cs \in Seq(Node) /\ Len(cs) = nb
    BY <1>2, <1>3, CopiesParts
  <1>5. nb \in Nat /\ nb > 0 /\ H!Levels(heap, n)[1].node = n
    <2>1. /\ nb = Len(heap[n].outer) + 1
          /\ H!Levels(heap, n)[1] = [node |-> n, limit |-> Len(heap[n].data)]
      BY <1>2, <1>3, LevelsType
    <2>2. heap[n].outer \in Seq(Level)
      BY <1>3, NodeType
    <2>3. Len(heap[n].outer) \in Nat
      BY <2>2
    <2> QED BY <2>1, <2>3
  <1>6. NewMap(m, cs)
    BY <1>3, <1>4, <1>5 DEF NewMap
  <1>7. Own'[m] = Own[p]
    <2>1. heap'[Len(heap) + nb].index = heap[n].index
      <3>1. nb \in 1..nb /\ nb + 1 - nb = 1
        BY <1>5
      <3>2. heap'[Len(heap) + nb].index = heap[H!Levels(heap, n)[nb + 1 - nb].node].index
        BY <1>2, <1>3, <3>1, CopiesParts
      <3> QED BY <1>5, <3>1, <3>2
    <2>2. Own'[m] = {k \in Keys : heap'[Len(heap) + nb].index[k] # 0}
      BY <1>4, <1>6, NewMapOwns
    <2>3. Own[p] = {k \in Keys : heap[n].index[k] # 0}
      BY <1>1, <1>3 DEF Own, H!Absent
    <2> QED BY <2>1, <2>2, <2>3
  <1>8. Promise!Born(m, View'[m], Own[p])
    BY <1>6, <1>7, NewMapBorn
  <1>9. ASSUME NEW k \in Keys
        PROVE  IF View[p][k] = H!NoCell THEN View'[m][k] = H!NoCell
               ELSE Promise!CopyOf(View[p][k], View'[m][k])
    <2>1. View[p][k] = L!Find(heap, n, k)
      BY <1>1, <1>3, ViewOf, SameOperators
    <2>2. View'[m][k] = L!Find(heap', Len(heap) + nb, k)
      <3>1. View'[m][k] = H!Find(heap', Len(heap) + Len(cs), k)
        BY <1>6, NewMapSees
      <3> QED BY <1>4, <3>1, SameOperators
    <2>3. CASE View[p][k] = H!NoCell /\ View'[m][k] = H!NoCell
      BY <2>3
    <2>4. CASE View[p][k] # H!NoCell \/ View'[m][k] # H!NoCell
      <3>1. \/ L!Find(heap, n, k) # L!NoCell
            \/ L!Find(heap', Len(heap) + nb, k) # L!NoCell
        BY <2>1, <2>2, <2>4, SameOperators
      <3>2. PICK i \in 1..nb, q \in Nodes, a \in Nat : StopAtCopy(n, nb, k, i, q, a)
        <4>1. heap' = heap \o H!DeepCopied(heap, n) /\ nb = Len(H!Levels(heap, n))
          BY <1>2, <1>3
        <4> QED BY <3>1, <4>1, DeepCopySees
      <3>3. PICK e \in Nat : e = Len(heap) + nb + 1 - i
        <4>1. Len(heap) \in Nat /\ nb \in Nat
          BY <1>3, <1>5
        <4> QED BY <4>1
      <3>4. View[p][k] = <<q, a>> /\ View'[m][k] = <<e, a>> /\ heap'[e].data = heap[q].data
        BY <2>1, <2>2, <3>2, <3>3 DEF StopAtCopy
      <3>5. View[p][k] # H!NoCell
        BY <3>2, <3>4 DEF H!NoCell, StopAtCopy
      <3>6. a \in DOMAIN heap[q].data
        <4>1. L!WellFormed(heap, Vals) /\ n \in DOMAIN heap
          BY HeapIsWellFormed
        <4>2. L!Find(heap, n, k) # L!NoCell
          BY <2>1, <3>5, SameOperators
        <4>3. LET c == L!Find(heap, n, k) IN c[2] \in DOMAIN heap[c[1]].data
          BY <4>1, <4>2, L!FindCell
        <4> QED BY <3>2, <4>3 DEF StopAtCopy
      <3>7. e \notin Nodes /\ e \in Nodes' /\ e \in 1..MaxNodes
        <4>1. Len(heap') = Len(heap) + nb
          BY <1>4, <1>6, NewMapParts
        <4> QED BY <1>3, <1>4, <1>5, <3>3, <4>1, BoundsAssumption DEF Nodes
      <3>8. <<q, a>> \in Cells /\ Store[<<q, a>>] = heap[q].data[a].val
        BY <3>6, CellOf
      <3>9. <<e, a>> \in Cells
        BY <3>7, <3>8 DEF Cells
      <3>10. Store[<<e, a>>] = Free
        BY <3>7, <3>9, FreeOf
      <3>11. Store'[<<e, a>>] = heap[q].data[a].val
        BY <3>4, <3>6, <3>7, <3>9 DEF Store, Stored
      <3> QED BY <3>4, <3>5, <3>8, <3>10, <3>11 DEF Promise!CopyOf
    <2> QED BY <2>3, <2>4
  <1> QED BY <1>3, <1>8, <1>9 DEF Promise!DeepCopy

\* When only `state` changes, a map sees what the node it owns then sees.
LEMMA HandedViews ==
  ASSUME UNCHANGED heap, NEW a \in Maps, NEW b \in Maps, state'[b] = state[a]
  PROVE  View'[b] = View[a] /\ Own'[b] = Own[a]
  <1>1. b \in Live' <=> a \in Live
    BY DEF Live
  <1>2. View'[b] = [k \in Keys |-> IF b \in Live' THEN H!Find(heap', state'[b], k) ELSE H!NoCell]
    BY DEF View
  <1>3. View[a] = [k \in Keys |-> IF a \in Live THEN H!Find(heap, state[a], k) ELSE H!NoCell]
    BY DEF View
  <1>4. View'[b] = View[a]
    BY <1>1, <1>2, <1>3
  <1>5. Own'[b] = Own[a]
    BY <1>1 DEF Own
  <1> QED BY <1>4, <1>5

LEMMA DeadViews ==
  ASSUME NEW b \in Maps, state'[b] = Dead
  PROVE  View'[b] = [k \in Keys |-> H!NoCell] /\ Own'[b] = {}
  <1>1. b \notin Live'
    BY DEF Live
  <1> QED BY <1>1 DEF View, Own

LEMMA SameStore ==
  ASSUME UNCHANGED heap
  PROVE  UNCHANGED Store
  BY DEF Store, Stored, Nodes

LEMMA ViewsAreFunctions ==
  /\ View = [q \in Maps |-> View[q]] /\ Own = [q \in Maps |-> Own[q]]
  /\ View' = [q \in Maps |-> View'[q]] /\ Own' = [q \in Maps |-> Own'[q]]
  BY DEF View, Own

LEMMA DestroyPromised ==
  ASSUME Inv, NEW m \in Maps, Destroy(m)
  PROVE  Promise!Destroy(m)
  <1>1. /\ TypeOK /\ UNCHANGED heap /\ m \in Live /\ state'[m] = Dead
        /\ \A q \in Maps \ {m} : state'[q] = state[q]
    BY DEF Inv, TypeOK, Destroy, Live, Dead
  <1>2. Live' = Live \ {m}
    BY <1>1 DEF Live
  <1>3. \A q \in Maps \ {m} : View'[q] = View[q] /\ Own'[q] = Own[q]
    BY <1>1, HandedViews
  <1>4. View'[m] = [k \in Keys |-> H!NoCell] /\ Own'[m] = {}
    BY <1>1, DeadViews
  <1>5. View' = [View EXCEPT ![m] = [k \in Keys |-> H!NoCell]]
    BY <1>3, <1>4, ViewsAreFunctions
  <1>6. Own' = [Own EXCEPT ![m] = {}]
    BY <1>3, <1>4, ViewsAreFunctions
  <1>7. UNCHANGED Store
    BY <1>1, SameStore
  <1> QED BY <1>1, <1>2, <1>5, <1>6, <1>7 DEF Promise!Destroy, Promise!Died

LEMMA MovePromised ==
  ASSUME Inv, NEW p \in Maps, NEW m \in Maps, Move(p, m)
  PROVE  Promise!Move(p, m)
  <1>1. /\ TypeOK /\ UNCHANGED heap /\ p \in Live /\ p # m
        /\ state'[p] = Dead /\ state'[m] = state[p]
        /\ \A q \in Maps \ {p, m} : state'[q] = state[q]
    BY DEF Inv, TypeOK, Move, Live, Dead
  <1>2. Live' = (Live \ {p}) \union {m}
    BY <1>1 DEF Live
  <1>3. \A q \in Maps \ {p, m} : View'[q] = View[q] /\ Own'[q] = Own[q]
    BY <1>1, HandedViews
  <1>4. View'[m] = View[p] /\ Own'[m] = Own[p]
    BY <1>1, HandedViews
  <1>5. View'[p] = [k \in Keys |-> H!NoCell] /\ Own'[p] = {}
    BY <1>1, DeadViews
  <1>6. View' = [[View EXCEPT ![m] = View[p]] EXCEPT ![p] = [k \in Keys |-> H!NoCell]]
    <2> DEFINE w == [k \in Keys |-> H!NoCell]
               f == [q \in Maps |-> IF q = p THEN w ELSE IF q = m THEN View[p] ELSE View[q]]
    <2>1. View'[p] = w
      BY <1>5
    <2> HIDE DEF w
    <2>2. \A q \in Maps : View'[q] = f[q]
      BY <1>1, <1>3, <1>4, <2>1
    <2>3. View' = f
      BY <2>2, ViewsAreFunctions
    <2>4. f = [[View EXCEPT ![m] = View[p]] EXCEPT ![p] = w]
      BY <1>1, ViewsAreFunctions
    <2> QED BY <2>3, <2>4 DEF w
  <1>7. Own' = [[Own EXCEPT ![m] = Own[p]] EXCEPT ![p] = {}]
    BY <1>1, <1>3, <1>4, <1>5, ViewsAreFunctions
  <1>8. UNCHANGED Store
    BY <1>1, SameStore
  <1> QED BY <1>1, <1>2, <1>6, <1>7, <1>8 DEF Promise!Move, Promise!Died

LEMMA AddedFinds ==
  ASSUME Inv, NEW n \in Nodes, NEW k \in Keys, NEW v \in Vals,
         heap[n].index[k] = 0, heap' = H!Emplaced(heap, n, k, v)
  PROVE  /\ H!Find(heap', n, k) = <<n, Len(heap[n].data) + 1>>
         /\ \A q \in Nodes, j \in Keys :
              ~(q = n /\ j = k) => H!Find(heap', q, j) = H!Find(heap, q, j)
  <1>1. L!WellFormed(heap, Vals) /\ n \in DOMAIN heap /\ DOMAIN heap = Nodes
    BY HeapIsWellFormed
  <1>2. PICK g : g = heap'
    OBVIOUS
  <1>3. heap[n].index[k] = L!Absent /\ g = L!Emplaced(heap, n, k, v)
    BY <1>2, SameOperators
  <1>4. L!EntryAdded(heap, g, n, k, v) /\ g \in Seq(L!NodeOf(Vals))
    BY <1>1, <1>3, L!EmplacedAdds
  <1>5. L!WellFormed(g, Vals)
    BY <1>1, <1>3, <1>4, L!AddedWellFormed
  <1>6. /\ L!Find(g, n, k) = <<n, Len(heap[n].data) + 1>>
        /\ \A q \in DOMAIN heap, j \in Keys :
             ~(q = n /\ j = k) => L!Find(g, q, j) = L!Find(heap, q, j)
    BY <1>1, <1>3, <1>4, <1>5, L!AddedSees
  <1>7. H!Find(g, n, k) = <<n, Len(heap[n].data) + 1>>
    BY <1>6, SameOperators
  <1>8. ASSUME NEW q \in Nodes, NEW j \in Keys, ~(q = n /\ j = k)
        PROVE  H!Find(g, q, j) = H!Find(heap, q, j)
    BY <1>1, <1>6, <1>8, SameOperators
  <1> QED BY <1>2, <1>7, <1>8

LEMMA WrittenFinds ==
  ASSUME Inv, NEW n \in Nodes, NEW i \in DOMAIN heap[n].data, NEW v \in Vals,
         heap' = H!Written(heap, <<n, i>>, v)
  PROVE  /\ \A q \in Nodes, j \in Keys : H!Find(heap', q, j) = H!Find(heap, q, j)
         /\ DOMAIN heap' = DOMAIN heap /\ Len(heap') = Len(heap)
         /\ \A q \in Nodes \ {n} : heap'[q] = heap[q]
         /\ heap'[n].index = heap[n].index
         /\ DOMAIN heap'[n].data = DOMAIN heap[n].data
         /\ \A j \in DOMAIN heap[n].data \ {i} : heap'[n].data[j] = heap[n].data[j]
         /\ heap'[n].data[i].val = v
  <1>1. L!WellFormed(heap, Vals) /\ n \in DOMAIN heap /\ DOMAIN heap = Nodes
    BY HeapIsWellFormed
  <1>2. PICK g : g = heap'
    OBVIOUS
  <1>3. g = L!Written(heap, <<n, i>>, v)
    BY <1>2, SameOperators
  <1>4. L!EntryWritten(heap, g, n, i, v) /\ g \in Seq(L!NodeOf(Vals))
    BY <1>1, <1>3, L!WrittenWrites
  <1>5. \A q \in DOMAIN heap, j \in Keys : L!Find(g, q, j) = L!Find(heap, q, j)
    BY <1>1, <1>4, L!WrittenSees
  <1>6. \A q \in Nodes, j \in Keys : H!Find(g, q, j) = H!Find(heap, q, j)
    BY <1>1, <1>5, SameOperators
  <1>7. g[n].data[i].val = v
    <2>1. g[n].data[i] = [key |-> heap[n].data[i].key, val |-> v]
      BY <1>4 DEF L!EntryWritten
    <2> QED BY <2>1
  <1>8. /\ DOMAIN g = DOMAIN heap /\ Len(g) = Len(heap)
        /\ \A q \in Nodes \ {n} : g[q] = heap[q]
        /\ g[n].index = heap[n].index
        /\ DOMAIN g[n].data = DOMAIN heap[n].data
        /\ \A j \in DOMAIN heap[n].data \ {i} : g[n].data[j] = heap[n].data[j]
    BY <1>1, <1>4 DEF L!EntryWritten
  <1> QED BY <1>2, <1>6, <1>7, <1>8

LEMMA WritePromised ==
  ASSUME Inv, Bounded, NEW m \in Maps, NEW k \in Keys, NEW v \in Vals, Write(m, k, v)
  PROVE  Promise!Write(m, k, v)
  <1>1. PICK c : c = H!Find(heap, state[m], k)
    OBVIOUS
  <1>2. /\ TypeOK /\ m \in Live /\ state[m] \in Nodes /\ state' = state
        /\ c # H!NoCell /\ heap' = H!Written(heap, c, v)
    BY <1>1 DEF Write, Inv, TypeOK, Live, Nodes, Dead
  <1>3. c = <<c[1], c[2]>> /\ c[1] \in Nodes /\ c[2] \in DOMAIN heap[c[1]].data
    BY <1>1, <1>2, FindType
  <1>n. PICK n \in Nodes : c[1] = n
    BY <1>3
  <1>4. PICK i \in DOMAIN heap[n].data : c = <<n, i>>
    BY <1>3, <1>n
  <1>5. /\ \A q \in Nodes, j \in Keys : H!Find(heap', q, j) = H!Find(heap, q, j)
        /\ Nodes' = Nodes
        /\ \A q \in Nodes \ {n} : heap'[q] = heap[q]
        /\ heap'[n].index = heap[n].index
        /\ DOMAIN heap'[n].data = DOMAIN heap[n].data
        /\ \A j \in DOMAIN heap[n].data \ {i} : heap'[n].data[j] = heap[n].data[j]
        /\ heap'[n].data[i].val = v
    BY <1>2, <1>4, WrittenFinds DEF Nodes
  <1>6. \A q \in Nodes : heap'[q].index = heap[q].index
    BY <1>5
  <1>7. Live' = Live /\ \A q \in Live : state[q] \in Nodes
    BY <1>2 DEF Live, TypeOK, Nodes, Dead
  <1>8. ASSUME NEW q \in Maps PROVE View'[q] = View[q]
    <2>1. View'[q] = [j \in Keys |-> IF q \in Live THEN H!Find(heap', state[q], j) ELSE H!NoCell]
      BY <1>2, <1>7 DEF View
    <2>2. View[q] = [j \in Keys |-> IF q \in Live THEN H!Find(heap, state[q], j) ELSE H!NoCell]
      BY DEF View
    <2> QED BY <1>5, <1>7, <2>1, <2>2
  <1>9. \A q \in Maps : Own'[q] = Own[q]
    BY <1>2, <1>6, <1>7 DEF Own
  <1>10. UNCHANGED <<Live, View, Own>>
    BY <1>7, <1>8, <1>9, ViewsAreFunctions
  <1>11. View[m][k] = c
    BY <1>1, <1>2, ViewOf
  <1>12. c \in Cells
    BY <1>4, CellOf
  <1>13. ASSUME NEW d \in Cells PROVE Store'[d] = IF d = c THEN v ELSE Store[d]
    <2>1. CASE d = c
      BY <1>4, <1>5, <2>1 DEF Store, Stored
    <2>2. CASE d # c /\ d[1] = n
      <3>1. d = <<d[1], d[2]>> /\ d[2] # i
        BY <1>4, <2>2 DEF Cells
      <3>2. d[2] \in DOMAIN heap[n].data => heap'[n].data[d[2]] = heap[n].data[d[2]]
        BY <1>5, <3>1
      <3> QED BY <1>5, <2>2, <3>2 DEF Store, Stored
    <2>3. CASE d # c /\ d[1] # n
      BY <1>5, <2>3 DEF Store, Stored
    <2> QED BY <2>1, <2>2, <2>3
  <1>14. Store' = [Store EXCEPT ![c] = v]
    <2>1. Store = [d \in Cells |-> Store[d]] /\ Store' = [d \in Cells |-> Store'[d]]
      BY DEF Store
    <2> QED BY <1>12, <1>13, <2>1
  <1> QED BY <1>2, <1>10, <1>11, <1>14 DEF Promise!Write

\* A level with room for an entry: no level has more entries than all have.
LEMMA RoomForEntry ==
  ASSUME Inv, Bounded, Cardinality(Places) < MaxEntries, NEW n \in Nodes
  PROVE  Len(heap[n].data) + 1 <= MaxEntries
  <1>1. PICK len \in Nat : len = Len(heap[n].data) /\ DOMAIN heap[n].data = 1..len
    <2>1. heap[n].data \in Seq(Entry)
      BY NodeType DEF Inv
    <2> QED BY <2>1
  <1>2. IsFiniteSet(Places)
    <2>1. Places \subseteq (1..MaxNodes) \X (1..MaxEntries)
      <3>1. ASSUME NEW q \in Nodes PROVE {q} \X DOMAIN heap[q].data \subseteq Cells
        BY CellOf
      <3> QED BY <3>1 DEF Places, Cells
    <2>2. IsFiniteSet(1..MaxNodes) /\ IsFiniteSet(1..MaxEntries)
      BY BoundsAssumption, FS_Interval
    <2>3. IsFiniteSet((1..MaxNodes) \X (1..MaxEntries))
      BY <2>2, FS_Product
    <2> QED BY <2>1, <2>3, FS_Subset
  <1>3. {n} \X (1..len) \in SUBSET Places
    BY <1>1 DEF Places
  <1>4. Cardinality({n} \X (1..len)) = len
    <2>1. IsFiniteSet({n}) /\ Cardinality({n}) = 1
      BY FS_Singleton
    <2>2. IsFiniteSet(1..len) /\ Cardinality(1..len) = len
      BY FS_Interval
    <2>3. Cardinality({n} \X (1..len)) = Cardinality({n}) * Cardinality(1..len)
      BY <2>1, <2>2, FS_Product
    <2>4. 1 * len = len
      OBVIOUS
    <2> QED BY <2>1, <2>2, <2>3, <2>4
  <1>5. len <= Cardinality(Places) /\ Cardinality(Places) \in Nat
    BY <1>2, <1>3, <1>4, FS_Subset, FS_CardinalityType
  <1> QED BY <1>1, <1>5, BoundsAssumption

LEMMA TryEmplacePromised ==
  ASSUME Inv, Bounded, NEW m \in Maps, NEW k \in Keys, NEW v \in Vals, TryEmplace(m, k, v)
  PROVE  Promise!TryEmplace(m, k, v) \/ UNCHANGED <<Live, View, Own, Store>>
  <1>1. /\ TypeOK /\ m \in Live /\ state' = state /\ Cardinality(Places) < MaxEntries
        /\ heap' = H!Emplaced(heap, state[m], k, v) /\ \A q \in Live : state[q] \in Nodes
        /\ OwnersDistinct
    BY DEF TryEmplace, Inv, HeapSound, TypeOK, Live, Nodes, Dead
  <1>2. PICK n \in Nodes : n = state[m]
    BY <1>1
  <1>3. CASE heap[n].index[k] # 0
    <2>1. UNCHANGED <<heap, state>>
      BY <1>1, <1>2, <1>3 DEF H!Emplaced, H!Absent
    <2> QED BY <2>1 DEF Live, View, Own, Store, Stored, Nodes
  <1>4. CASE heap[n].index[k] = 0
    <2>1. PICK len \in Nat : /\ len = Len(heap[n].data) /\ heap[n].data \in Seq(Entry)
                            /\ DOMAIN heap[n].data = 1..len /\ len + 1 <= MaxEntries
      <3>1. heap[n].data \in Seq(Entry)
        BY <1>1, NodeType
      <3>2. Len(heap[n].data) + 1 <= MaxEntries
        BY <1>1, RoomForEntry
      <3> QED BY <3>1, <3>2
    <2>2. /\ Nodes' = Nodes
          /\ \A p \in Nodes \ {n} : heap'[p] = heap[p]
          /\ heap'[n].data = Append(heap[n].data, [key |-> k, val |-> v])
          /\ heap'[n].index = [heap[n].index EXCEPT ![k] = len + 1]
      <3>1. heap[n].index[k] = H!Absent /\ heap' = H!Emplaced(heap, n, k, v)
        BY <1>1, <1>2, <1>4 DEF H!Absent
      <3>2. /\ Len(heap') = Len(heap)
            /\ \A p \in Nodes \ {n} : heap'[p] = heap[p]
            /\ heap'[n].data = Append(heap[n].data, [key |-> k, val |-> v])
            /\ heap'[n].index = [heap[n].index EXCEPT ![k] = Len(heap[n].data) + 1]
        BY <3>1, EmplacedSound
      <3> QED BY <2>1, <3>2 DEF Nodes
    <2>3. /\ DOMAIN heap'[n].data = 1..(len + 1)
          /\ heap'[n].data[len + 1] = [key |-> k, val |-> v]
          /\ \A i \in 1..len : heap'[n].data[i] = heap[n].data[i]
      BY <2>1, <2>2
    <2>4. /\ H!Find(heap', n, k) = <<n, len + 1>>
          /\ \A q \in Nodes, j \in Keys :
               ~(q = n /\ j = k) => H!Find(heap', q, j) = H!Find(heap, q, j)
      BY <1>1, <1>2, <1>4, <2>1, AddedFinds
    <2>5. PICK c \in Cells : c = <<n, len + 1>>
      <3>1. n \in 1..MaxNodes /\ len + 1 \in 1..MaxEntries
        BY <1>1, <2>1, BoundsAssumption DEF Bounded, Nodes, TypeOK
      <3> QED BY <3>1 DEF Cells
    <2>6. Store[c] = Free
      BY <2>1, <2>5, FreeOf
    <2>7. Live' = Live
      BY <1>1 DEF Live
    <2>8. ASSUME NEW q \in Maps PROVE View'[q] = IF q = m THEN [View[m] EXCEPT ![k] = c] ELSE View[q]
      <3>1. View'[q] = [j \in Keys |-> IF q \in Live THEN H!Find(heap', state[q], j) ELSE H!NoCell]
        BY <1>1, <2>7 DEF View
      <3>2. View[q] = [j \in Keys |-> IF q \in Live THEN H!Find(heap, state[q], j) ELSE H!NoCell]
        BY DEF View
      <3>3. CASE q = m
        <4>1. \A j \in Keys : View'[q][j] = IF j = k THEN c ELSE View[q][j]
          BY <1>1, <1>2, <2>4, <2>5, <3>1, <3>2, <3>3
        <4> QED BY <3>1, <3>2, <3>3, <4>1
      <3>4. CASE q # m
        <4>1. q \in Live => state[q] \in Nodes /\ state[q] # n
          BY <1>1, <1>2, <3>4 DEF OwnersDistinct
        <4>2. \A j \in Keys : View'[q][j] = View[q][j]
          BY <2>4, <3>1, <3>2, <4>1
        <4> QED BY <3>1, <3>2, <3>4, <4>2
      <3> QED BY <3>3, <3>4
    <2>9. View' = [View EXCEPT ![m][k] = c]
      <3>1. View' = [View EXCEPT ![m] = [View[m] EXCEPT ![k] = c]]
        BY <2>8, ViewsAreFunctions
      <3> QED BY <3>1
    <2>10. ASSUME NEW q \in Maps PROVE Own'[q] = IF q = m THEN Own[m] \union {k} ELSE Own[q]
      <3>1. CASE q = m
        <4>1. Own[q] = {j \in Keys : heap[n].index[j] # 0}
          BY <1>1, <1>2, <3>1 DEF Own, H!Absent
        <4>2. Own'[q] = {j \in Keys : heap'[n].index[j] # 0}
          BY <1>1, <1>2, <2>7, <3>1 DEF Own, H!Absent
        <4>3. \A j \in Keys : heap'[n].index[j] = IF j = k THEN len + 1 ELSE heap[n].index[j]
          <5>1. heap[n].index \in [Keys -> Nat]
            BY <1>1, NodeType
          <5> QED BY <2>2, <5>1
        <4> QED BY <2>1, <3>1, <4>1, <4>2, <4>3
      <3>2. CASE q # m
        <4>1. q \in Live => state[q] \in Nodes /\ state[q] # n
          BY <1>1, <1>2, <3>2 DEF OwnersDistinct
        <4>2. q \in Live => heap'[state[q]] = heap[state[q]]
          BY <2>2, <4>1
        <4> QED BY <1>1, <2>7, <3>2, <4>2 DEF Own
      <3> QED BY <3>1, <3>2
    <2>11. Own' = [Own EXCEPT ![m] = @ \union {k}]
      BY <2>10, ViewsAreFunctions
    <2>12. ASSUME NEW d \in Cells PROVE Store'[d] = IF d = c THEN v ELSE Store[d]
      <3>1. CASE d = c
        <4>1. c[1] \in Nodes' /\ c[2] \in DOMAIN heap'[c[1]].data
              /\ heap'[c[1]].data[c[2]].val = v
          BY <2>1, <2>2, <2>3, <2>5
        <4> QED BY <3>1, <4>1 DEF Store, Stored
      <3>2. CASE d # c /\ d[1] = n
        <4>1. d = <<d[1], d[2]>> /\ d[2] # len + 1 /\ d[2] \in Nat
          BY <2>5, <3>2 DEF Cells
        <4>2. d[2] \in 1..(len + 1) <=> d[2] \in 1..len
          BY <2>1, <4>1
        <4> QED BY <2>1, <2>2, <2>3, <3>2, <4>2 DEF Store, Stored
      <3>3. CASE d # c /\ d[1] # n
        BY <2>2, <3>3 DEF Store, Stored
      <3> QED BY <3>1, <3>2, <3>3
    <2>13. Store' = [Store EXCEPT ![c] = v]
      <3>1. Store = [d \in Cells |-> Store[d]] /\ Store' = [d \in Cells |-> Store'[d]]
        BY DEF Store
      <3> QED BY <2>12, <3>1
    <2>14. k \notin Own[m]
      BY <1>1, <1>2, <1>4 DEF Own, H!Absent
    <2> QED BY <1>1, <2>5, <2>6, <2>7, <2>9, <2>11, <2>13, <2>14 DEF Promise!TryEmplace
  <1> QED BY <1>3, <1>4

-----------------------------------------------------------------------------
(* The bounds of the model are kept.                                       *)

LEMMA NewNodesBounded ==
  ASSUME NEW m, NEW ns, NewMap(m, ns), \A j \in 1..Len(ns) : Len(ns[j].data) <= MaxEntries
  PROVE  Bounded'
  <1>1. /\ Len(heap') = Len(heap) + Len(ns) /\ Len(heap) + Len(ns) <= MaxNodes
        /\ Len(heap) \in Nat /\ Len(ns) \in Nat /\ Bounded
        /\ \A n \in Nodes : heap'[n] = heap[n]
        /\ \A j \in 1..Len(ns) : heap'[Len(heap) + j] = ns[j]
    <2>1. /\ TypeOK /\ Len(heap') = Len(heap) + Len(ns)
          /\ \A n \in Nodes : heap'[n] = heap[n]
          /\ \A j \in 1..Len(ns) : heap'[Len(heap) + j] = ns[j]
      BY NewMapParts
    <2>2. ns \in Seq(Node) /\ Len(heap) + Len(ns) <= MaxNodes /\ Bounded
      BY DEF NewMap
    <2>3. Len(ns) \in Nat
      BY <2>2
    <2> QED BY <2>1, <2>2, <2>3 DEF TypeOK
  <1>2. ASSUME NEW n \in Nodes' PROVE Len(heap'[n].data) <= MaxEntries
    <2>1. CASE n \in Nodes
      BY <1>1, <2>1 DEF Bounded
    <2>2. CASE n \notin Nodes
      <3>1. PICK j \in 1..Len(ns) : n = Len(heap) + j
        <4>1. n - Len(heap) \in 1..Len(ns) /\ n = Len(heap) + (n - Len(heap))
          BY <1>1, <1>2, <2>2 DEF Nodes
        <4> QED BY <4>1
      <3> QED BY <1>1, <3>1
    <2> QED BY <2>1, <2>2
  <1> QED BY <1>1, <1>2 DEF Bounded

LEMMA NewNodeBounded ==
  ASSUME Inv, Bounded, NEW m \in Maps, NEW x \in Node, Build(m, x), Len(x.data) <= MaxEntries
  PROVE  Bounded'
  <1>1. NewNode(m, x)
    BY BuildIsNewMap
  <1> DEFINE ns == <<x>>
  <1>2. NewMap(m, ns) /\ \A j \in 1..Len(ns) : Len(ns[j].data) <= MaxEntries
    BY <1>1 DEF NewNode
  <1> HIDE DEF ns
  <1> QED BY <1>2, NewNodesBounded

LEMMA NextBounded ==
  ASSUME Inv, Bounded, [Next]_vars
  PROVE  Bounded'
  <1>0. /\ TypeOK /\ \A p \in Maps : state[p] # Dead => state[p] \in Nodes
        /\ \A n \in Nodes : heap[n] \in Node /\ Len(heap[n].data) <= MaxEntries
    BY NodeType DEF Inv, TypeOK, Nodes, Dead, Bounded
  <1>1. ASSUME NEW m \in Maps, Construct(m) PROVE Bounded'
    <2>1. PICK x \in Node : x = H!RootNode
      <3>1. <<>> \in Seq(Level)
        OBVIOUS
      <3> QED BY <3>1, EmptyNodeType DEF H!RootNode
    <2>2. Build(m, x) /\ Len(x.data) <= MaxEntries
      BY <1>1, <2>1, BoundsAssumption DEF Construct, H!RootNode, H!EmptyNode
    <2> QED BY <2>2, NewNodeBounded
  <1>2. ASSUME NEW p \in Maps, NEW m \in Maps, Extend(p, m) PROVE Bounded'
    <2>1. PICK x \in Node : x = H!ChildNode(heap, state[p])
      <3>1. state[p] \in Nodes
        BY <1>0, <1>2 DEF Extend
      <3> QED BY <1>0, <3>1, LevelsType, EmptyNodeType DEF H!ChildNode
    <2>2. Build(m, x) /\ Len(x.data) <= MaxEntries
      BY <1>2, <2>1, BoundsAssumption DEF Extend, H!ChildNode, H!EmptyNode
    <2> QED BY <2>2, NewNodeBounded
  <1>3. ASSUME NEW p \in Maps, NEW m \in Maps, InnermostCopy(p, m) PROVE Bounded'
    <2>1. PICK x \in Node : x = heap[state[p]] /\ Len(x.data) <= MaxEntries
      BY <1>0, <1>3 DEF InnermostCopy
    <2>2. Build(m, x)
      BY <1>3, <2>1 DEF InnermostCopy
    <2> QED BY <2>1, <2>2, NewNodeBounded
  <1>4. ASSUME NEW p \in Maps, NEW m \in Maps, DeepCopy(p, m) PROVE Bounded'
    <2>1. PICK n \in Nodes : n = state[p]
      BY <1>0, <1>4 DEF DeepCopy
    <2>2. PICK nb, cs : nb = Len(H!Levels(heap, n)) /\ cs = H!DeepCopied(heap, n)
      OBVIOUS
    <2>3. /\ state[m] = Dead /\ heap' = heap \o cs /\ Len(heap) + Len(cs) <= MaxNodes
          /\ state' = [state EXCEPT ![m] = Len(heap) + Len(cs)]
      BY <1>4, <2>1, <2>2 DEF DeepCopy
    <2>4. cs \in Seq(Node) /\ Len(cs) = nb /\ nb > 0 /\ nb \in Nat
      <3>1. cs \in Seq(Node) /\ Len(cs) = nb
        BY <2>2, <2>3, CopiesParts
      <3>2. nb = Len(heap[n].outer) + 1
        BY <1>0, <2>2, LevelsType
      <3>3. heap[n].outer \in Seq(Level)
        BY <1>0, NodeType
      <3>4. Len(heap[n].outer) \in Nat
        BY <3>3
      <3> QED BY <3>1, <3>2, <3>4
    <2>5. NewMap(m, cs)
      BY <2>3, <2>4 DEF NewMap
    <2>6. \A j \in 1..Len(cs) : Len(cs[j].data) <= MaxEntries
      <3> TAKE j \in 1..Len(cs)
      <3>1. nb + 1 - j \in 1..nb /\ j \in 1..nb
        BY <2>4
      <3>2. /\ heap'[Len(heap) + j].data = heap[H!Levels(heap, n)[nb + 1 - j].node].data
            /\ H!Levels(heap, n)[nb + 1 - j].node \in Nodes
        BY <2>2, <2>3, <3>1, CopiesParts
      <3>3. heap'[Len(heap) + j] = cs[j]
        BY <2>5, NewMapParts
      <3> QED BY <1>0, <3>2, <3>3
    <2> QED BY <2>5, <2>6, NewNodesBounded
  <1>5. ASSUME NEW m \in Maps, NEW k \in Keys, NEW v \in Vals, TryEmplace(m, k, v)
        PROVE  Bounded'
    <2>1. PICK n \in Nodes : n = state[m]
      BY <1>0, <1>5 DEF TryEmplace
    <2>2. heap' = H!Emplaced(heap, n, k, v) /\ Cardinality(Places) < MaxEntries
      BY <1>5, <2>1 DEF TryEmplace
    <2>3. CASE heap[n].index[k] # H!Absent
      BY <2>2, <2>3 DEF H!Emplaced, Bounded, Nodes
    <2>4. CASE heap[n].index[k] = H!Absent
      <3>1. /\ Len(heap') = Len(heap)
            /\ \A p \in Nodes \ {n} : heap'[p] = heap[p]
            /\ heap'[n].data = Append(heap[n].data, [key |-> k, val |-> v])
        BY <2>2, <2>4, EmplacedSound
      <3>2. Len(heap[n].data) + 1 <= MaxEntries
        BY <2>2, RoomForEntry
      <3>3. heap[n].data \in Seq(Entry)
        BY <1>0, NodeType
      <3>4. Len(heap'[n].data) = Len(heap[n].data) + 1
        BY <3>1, <3>3
      <3> QED BY <1>0, <3>1, <3>2, <3>4 DEF Bounded, Nodes
    <2> QED BY <2>3, <2>4
  <1>6. ASSUME NEW m \in Maps, NEW k \in Keys, NEW v \in Vals, Write(m, k, v)
        PROVE  Bounded'
    <2>1. PICK c : c = H!Find(heap, state[m], k)
      OBVIOUS
    <2>2. state[m] \in Nodes /\ c # H!NoCell /\ heap' = H!Written(heap, c, v)
      BY <1>0, <1>6, <2>1 DEF Write
    <2>3. c = <<c[1], c[2]>> /\ c[1] \in Nodes /\ c[2] \in DOMAIN heap[c[1]].data
      BY <2>1, <2>2, FindType
    <2>4. PICK n \in Nodes : c[1] = n
      BY <2>3
    <2>5. PICK i \in DOMAIN heap[n].data : c = <<n, i>>
      BY <2>3, <2>4
    <2>6. /\ Len(heap') = Len(heap)
          /\ \A q \in Nodes \ {n} : heap'[q] = heap[q]
          /\ Len(heap'[n].data) = Len(heap[n].data)
      BY <2>2, <2>5, WrittenSound
    <2> QED BY <1>0, <2>6 DEF Bounded, Nodes
  <1>7. CASE UNCHANGED heap
    BY <1>7 DEF Bounded, Nodes
  <1> QED BY <1>1, <1>2, <1>3, <1>4, <1>5, <1>6, <1>7 DEF Next, Move, Destroy, vars

-----------------------------------------------------------------------------
(* The refinement.                                                         *)

LEMMA InitPromised == Init => Promise!Init
  <1> SUFFICES ASSUME Init PROVE Promise!Init
    OBVIOUS
  <1>1. Live = {} /\ Nodes = {}
    BY DEF Init, Live, Nodes, Dead
  <1>2. /\ View = [m \in Maps |-> [k \in Keys |-> H!NoCell]]
        /\ Own = [m \in Maps |-> {}]
    BY <1>1 DEF View, Own
  <1>3. Store = [c \in Cells |-> Free]
    BY <1>1 DEF Store, Stored
  <1> QED BY <1>1, <1>2, <1>3 DEF Promise!Init

\* Every step is a step of the promise or changes nothing a user sees, and a
\* copy is the kind of copy that the promise has for it.
LEMMA NextPromised ==
  ASSUME Inv, Bounded, [Next]_vars
  PROVE  [Promise!Next]_<<Live, View, Own, Store>>
  <1>1. ASSUME NEW m \in Maps, Construct(m) PROVE Promise!Next
    BY <1>1, ConstructPromised DEF Promise!Next
  <1>2. ASSUME NEW m \in Maps, Destroy(m) PROVE Promise!Next
    BY <1>2, DestroyPromised DEF Promise!Next
  <1>3. ASSUME NEW p \in Maps, NEW m \in Maps, Extend(p, m) PROVE Promise!Next
    BY <1>3, ExtendPromised DEF Promise!Next
  <1>4. ASSUME NEW p \in Maps, NEW m \in Maps, InnermostCopy(p, m) PROVE Promise!Next
    BY <1>4, InnermostCopyPromised DEF Promise!Next
  <1>5. ASSUME NEW p \in Maps, NEW m \in Maps, DeepCopy(p, m) PROVE Promise!Next
    BY <1>5, DeepCopyPromised DEF Promise!Next
  <1>6. ASSUME NEW p \in Maps, NEW m \in Maps, Move(p, m) PROVE Promise!Next
    BY <1>6, MovePromised DEF Promise!Next
  <1>7. ASSUME NEW m \in Maps, NEW k \in Keys, NEW v \in Vals, TryEmplace(m, k, v)
        PROVE  Promise!Next \/ UNCHANGED <<Live, View, Own, Store>>
    BY <1>7, TryEmplacePromised DEF Promise!Next
  <1>8. ASSUME NEW m \in Maps, NEW k \in Keys, NEW v \in Vals, Write(m, k, v)
        PROVE  Promise!Next
    BY <1>8, WritePromised DEF Promise!Next
  <1>9. CASE UNCHANGED vars
    BY <1>9 DEF vars, Live, View, Own, Store, Stored, Nodes
  <1> QED BY <1>1, <1>2, <1>3, <1>4, <1>5, <1>6, <1>7, <1>8, <1>9 DEF Next

LEMMA InitBounded == Init => Bounded
  BY BoundsAssumption DEF Init, Bounded, Nodes

LEMMA AlwaysBounded == Spec => []Bounded
  <1>1. Init => Bounded
    BY InitBounded
  <1>2. Inv /\ Bounded /\ [Next]_vars => Bounded'
    BY NextBounded
  <1> QED BY <1>1, <1>2, AlwaysInv, PTL DEF Spec

\* ImplementsPromise, for any number of maps, keys, values, nodes and entries:
\* that scope maps share levels cannot be seen by their users.
THEOREM SharingIsInvisible == Spec => ImplementsPromise
  <1>1. Init => Promise!Init
    BY InitPromised
  <1>2. Inv /\ Bounded /\ [Next]_vars => [Promise!Next]_<<Live, View, Own, Store>>
    BY NextPromised
  <1>3. Promise!vars = <<Live, View, Own, Store>>
    BY DEF Promise!vars
  <1> QED BY <1>1, <1>2, <1>3, AlwaysInv, AlwaysBounded, PTL
          DEF Spec, ImplementsPromise, Promise!Spec, Promise!vars

\* CopiesSeparate, for any number of them: what deep_copy() and
\* innermost_copy() give shares no more with the original than they say.
THEOREM CopiesAreSeparate == Spec => CopiesSeparate
  <1>1. Inv /\ Bounded /\ [Next]_vars =>
          [\A p, m \in Maps : /\ DeepCopy(p, m) => Promise!DeepCopy(p, m)
                              /\ InnermostCopy(p, m) => Promise!InnermostCopy(p, m)]_vars
    BY DeepCopyPromised, InnermostCopyPromised
  <1> QED BY <1>1, AlwaysInv, AlwaysBounded, PTL DEF Spec, CopiesSeparate
=============================================================================
