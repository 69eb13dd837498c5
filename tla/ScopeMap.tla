------------------------------ MODULE ScopeMap ------------------------------
(***************************************************************************)
(* dep0::scope_map (lib/00_core/include/dep0/scope_map.hpp): a dictionary  *)
(* that can be inherited, so that inner scopes shadow the names of outer   *)
(* ones.  Contexts, environments and usage counts are all built on it.     *)
(*                                                                         *)
(* Several maps share the levels they inherit: a child keeps a pointer to  *)
(* its parent's node and the number of entries the parent had at the time. *)
(* `heap` is the nodes ever built (see ScopeHeap), `state` the node each   *)
(* scope_map object owns, 0 for an object that is not constructed, was     *)
(* moved from or is destroyed.                                             *)
(***************************************************************************)
EXTENDS Integers, Sequences, SequencesExt, FiniteSets

CONSTANTS
  Maps,        \* the scope_map objects
  Keys,        \* the keys
  Vals,        \* the values
  MaxNodes,    \* bound: nodes ever built
  MaxEntries   \* bound: entries of all levels, when one is added

ASSUME BoundsAssumption == MaxNodes \in Nat /\ MaxEntries \in Nat

VARIABLES heap, state

vars == <<heap, state>>

H == INSTANCE ScopeHeap

Dead == 0
Live == {m \in Maps : state[m] # Dead}
Nodes == 1..Len(heap)

Entry == [key : Keys, val : Vals]
Level == [node : Nat, limit : Nat]
Node  == [outer : Seq(Level), data : Seq(Entry), index : [Keys -> Nat]]

TypeOK ==
  /\ heap \in Seq(Node)
  /\ state \in [Maps -> 0..Len(heap)]

Init == heap = <<>> /\ state = [m \in Maps |-> Dead]

\* Give the new object m the new node n.
Build(m, n) ==
  /\ state[m] = Dead
  /\ Len(heap) < MaxNodes
  /\ heap' = Append(heap, n)
  /\ state' = [state EXCEPT ![m] = Len(heap) + 1]

Construct(m) == Build(m, H!RootNode)

Extend(p, m) == state[p] # Dead /\ Build(m, H!ChildNode(heap, state[p]))

InnermostCopy(p, m) == state[p] # Dead /\ Build(m, heap[state[p]])

DeepCopy(p, m) ==
  /\ state[p] # Dead /\ state[m] = Dead
  /\ LET copies == H!DeepCopied(heap, state[p])
     IN  /\ Len(heap) + Len(copies) <= MaxNodes
         /\ heap' = heap \o copies
         /\ state' = [state EXCEPT ![m] = Len(heap) + Len(copies)]

\* The places of the entries: level and position.
Places == UNION {{n} \X DOMAIN heap[n].data : n \in Nodes}

TryEmplace(m, k, v) ==
  /\ state[m] # Dead
  /\ Cardinality(Places) < MaxEntries
  /\ heap' = H!Emplaced(heap, state[m], k, v)
  /\ UNCHANGED state

\* An assignment through the pointer that a lookup of k from m returns; the
\* entry may belong to an outer scope, then every map that sees it sees v.
Write(m, k, v) ==
  /\ state[m] # Dead
  /\ H!Find(heap, state[m], k) # H!NoCell
  /\ heap' = H!Written(heap, H!Find(heap, state[m], k), v)
  /\ UNCHANGED state

\* Mutant: copying the shared_ptr instead of moving it.
Move_keepsSource(p, m) ==
  /\ p # m /\ state[p] # Dead
  /\ state' = [state EXCEPT ![m] = state[p]]
  /\ UNCHANGED heap

\* Move construction (m is Dead) or move assignment (m drops its own node).
Move(p, m) ==
  /\ p # m /\ state[p] # Dead
  /\ state' = [state EXCEPT ![m] = state[p], ![p] = Dead]
  /\ UNCHANGED heap

Destroy(m) ==
  /\ state[m] # Dead
  /\ state' = [state EXCEPT ![m] = Dead]
  /\ UNCHANGED heap

Next ==
  \/ \E m \in Maps : Construct(m) \/ Destroy(m)
  \/ \E p, m \in Maps :
       Extend(p, m) \/ InnermostCopy(p, m) \/ DeepCopy(p, m) \/ Move(p, m)
  \/ \E m \in Maps, k \in Keys, v \in Vals : TryEmplace(m, k, v) \/ Write(m, k, v)

Spec == Init /\ [][Next]_vars

-----------------------------------------------------------------------------
\* Mutant: cbegin() without `safe_max`.
VisibleEntries_all(l) == heap[l.node].data

\* What iteration returns, cbegin() to cend(): the visible entries of every
\* level, from the outermost scope to the innermost, in insertion order.
VisibleEntries(l) ==
  LET nb == Len(heap[l.node].data)
  IN  SubSeq(heap[l.node].data, 1, IF l.limit < nb THEN l.limit ELSE nb)

Entries(n) ==
  FlattenSeq(Reverse([i \in DOMAIN H!Levels(heap, n) |->
                        VisibleEntries(H!Levels(heap, n)[i])]))

-----------------------------------------------------------------------------
(* The structure of the heap.                                              *)

\* No two objects own one node: copies and children get nodes of their own
\* and a move empties its source.
OwnersDistinct == \A m, p \in Live : state[m] = state[p] => m = p

\* The i-th of the levels `o` around node n is an older node, which holds at
\* least the entries visible through it, and the levels around that node are
\* the rest of `o`.
SoundLevel(h, n, o, i) ==
  /\ o[i].node \in 1..(n - 1)
  /\ o[i].limit <= Len(h[o[i].node].data)
  /\ Len(h[o[i].node].outer) = Len(o) - i
  /\ \A j \in DOMAIN h[o[i].node].outer : h[o[i].node].outer[j] = o[i + j]

\* The followed levels of node n are those that following `parent` gives.
Follows(h, n) == \A i \in DOMAIN h[n].outer : SoundLevel(h, n, h[n].outer, i)

OuterFollowsParent == \A n \in Nodes : Follows(heap, n)

\* `index` and `data` of node n agree: an entry is indexed at its place and
\* nothing else is indexed, so no key has two entries at one level.
Indexed(h, n) ==
  /\ \A i \in DOMAIN h[n].data : h[n].index[h[n].data[i].key] = i
  /\ \A k \in Keys : h[n].index[k] # H!Absent =>
       /\ h[n].index[k] \in DOMAIN h[n].data
       /\ h[n].data[h[n].index[k]].key = k

IndexAgrees == \A n \in Nodes : Indexed(heap, n)

\* What the members of every state_t keep to, whatever shares it: the
\* inductive part of what lookup and iteration rely on.
HeapSound == OwnersDistinct /\ OuterFollowsParent /\ IndexAgrees

\* Lookup and iteration agree about shadowing and about entries added to an
\* outer scope after it was extended: a lookup returns the last entry of the
\* iteration that has the key, and fails exactly when there is none.
LookupIsLastVisible ==
  \A m \in Live, k \in Keys :
    LET es == SelectSeq(Entries(state[m]), LAMBDA e : e.key = k)
        c  == H!Find(heap, state[m], k)
    IN  IF es = <<>> THEN c = H!NoCell
        ELSE c # H!NoCell /\ heap[c[1]].data[c[2]] = Last(es)
-----------------------------------------------------------------------------
(* The promise of the header's comments (ScopeSnapshot).                   *)

\* What a map finds for a key never changes under it: not by what is added to
\* the scope it extends or to a scope that extends it, not by copies, moves or
\* the end of other maps.  It changes only when the map itself gets an entry.
LookupsStay ==
  [][\A p \in Live : state'[p] = state[p] => \A k \in Keys :
       H!Find(heap', state[p], k) \in
         {H!Find(heap, state[p], k), <<state[p], Len(heap[state[p]].data) + 1>>}]_vars

Cells == (1..MaxNodes) \X (1..MaxEntries)
Free == "free"

Stored(c) ==
  IF c[1] \in Nodes /\ c[2] \in DOMAIN heap[c[1]].data
  THEN heap[c[1]].data[c[2]].val ELSE Free

\* What a user sees of each map, and of the cells.
View ==
  [m \in Maps |-> [k \in Keys |->
     IF m \in Live THEN H!Find(heap, state[m], k) ELSE H!NoCell]]

Own ==
  [m \in Maps |->
     IF m \in Live THEN {k \in Keys : heap[state[m]].index[k] # H!Absent} ELSE {}]

Store == [c \in Cells |-> Stored(c)]

Promise == INSTANCE ScopeSnapshot WITH
  NoCell <- H!NoCell, live <- Live, view <- View, own <- Own, store <- Store

\* scope_map implements the promise: sharing levels cannot be told from
\* giving every map a flat copy of what was visible when it was created.
ImplementsPromise == Promise!Spec

\* A copy separates what it promises to separate: after deep_copy() nothing is
\* shared with the original at any level, after innermost_copy() nothing at
\* the innermost one.  (Each kind of copy alone would be allowed the other's
\* steps by ImplementsPromise.)
CopiesSeparate ==
  [][\A p, m \in Maps : /\ DeepCopy(p, m) => Promise!DeepCopy(p, m)
                        /\ InnermostCopy(p, m) => Promise!InnermostCopy(p, m)]_vars
=============================================================================
