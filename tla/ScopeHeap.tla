----------------------------- MODULE ScopeHeap -----------------------------
(***************************************************************************)
(* The heap of state nodes behind dep0::scope_map, as operators over one   *)
(* sequence `h` of nodes.  A node is named by its place in the heap.       *)
(*                                                                         *)
(*   data   the entries of this level, in insertion order                  *)
(*   index  for every key, the place of its entry in `data` (0: no entry)  *)
(*   outer  the levels around this one, nearest first: which node, and how *)
(*          many of its entries are visible from here                      *)
(*                                                                         *)
(* In the code a node holds `parent` and `max_parent_index` and the levels *)
(* around it are found by following `parent`.  Both are written when the   *)
(* node is built and never again, so the levels are kept here already      *)
(* followed: outer[1] is <<parent, max_parent_index>> and the rest is the  *)
(* parent's own `outer` (ScopeMap states it as OuterFollowsParent).        *)
(***************************************************************************)
LOCAL INSTANCE Naturals
LOCAL INSTANCE Sequences

CONSTANT Keys

Absent == 0        \* the place of a key that has no entry at a level

\* The levels visible from node n, innermost first.  At its own level a map
\* sees every entry: the loops of the code start with the largest index.
Levels(h, n) == <<[node |-> n, limit |-> Len(h[n].data)]>> \o h[n].outer

\* A state_t with no entry, inside the given levels: state_t() with none,
\* state_t(parent, max_parent_index) with those its parent has now.
EmptyNode(levels) ==
  [outer |-> levels, data |-> <<>>, index |-> [k \in Keys |-> Absent]]

\* Mutant: remember the place of the parent's last entry, not how many it has.
ChildNode_lastIndex(h, n) ==
  EmptyNode(<<[node |-> n, limit |-> Len(h[n].data) - 1]>> \o h[n].outer)

RootNode == EmptyNode(<<>>)
ChildNode(h, n) == EmptyNode(Levels(h, n))

\* Mutant: operator[] without `it->second < max_index`.
PlaceAt_anyIndex(h, l, k) == h[l.node].index[k]

\* The place of key k at level l, if it is one of the entries visible there.
PlaceAt(h, l, k) ==
  IF h[l.node].index[k] <= l.limit THEN h[l.node].index[k] ELSE Absent

\* The levels of node n at which a lookup of k would stop.
HitLevels(h, n, k) ==
  {i \in DOMAIN Levels(h, n) : PlaceAt(h, Levels(h, n)[i], k) # Absent}

NoCell == <<0, 0>>

\* operator[]: the cell <<node, place>> of the innermost visible entry of k.
Find(h, n, k) ==
  IF HitLevels(h, n, k) = {} THEN NoCell
  ELSE LET i == CHOOSE i \in HitLevels(h, n, k) :
                  \A j \in HitLevels(h, n, k) : i <= j
           l == Levels(h, n)[i]
       IN  <<l.node, PlaceAt(h, l, k)>>

\* Mutant: new entries go to the front of the deque.
Emplaced_front(h, n, k, v) ==
  IF h[n].index[k] # Absent THEN h
  ELSE [h EXCEPT ![n] =
          [outer |-> h[n].outer,
           data  |-> <<[key |-> k, val |-> v]>> \o h[n].data,
           index |-> [h[n].index EXCEPT ![k] = 1]]]

\* try_emplace at node n: nothing if the key is already at this level.
Emplaced(h, n, k, v) ==
  IF h[n].index[k] # Absent THEN h
  ELSE [h EXCEPT ![n] =
          [outer |-> h[n].outer,
           data  |-> Append(h[n].data, [key |-> k, val |-> v]),
           index |-> [h[n].index EXCEPT ![k] = Len(h[n].data) + 1]]]

\* *p = v through the pointer or the iterator to cell c.
Written(h, c, v) ==
  [h EXCEPT ![c[1]] =
     [outer |-> h[c[1]].outer,
      data  |-> [h[c[1]].data EXCEPT
                   ![c[2]] = [key |-> h[c[1]].data[c[2]].key, val |-> v]],
      index |-> h[c[1]].index]]

\* Mutant: the copy keeps sharing its parent, as innermost_copy() does.
DeepCopied_sharedParent(h, n) == <<h[n]>>

\* state_t::deep_copy(): a copy of every level of n, the outermost built
\* first, each keeping its entries, its index and its max_parent_index.
DeepCopied(h, n) ==
  LET ls == Levels(h, n)
      nb == Len(ls)
      src(j) == ls[nb + 1 - j].node
  IN  [j \in 1..nb |->
         [outer |-> [i \in 1..(j - 1) |->
                       [node  |-> Len(h) + j - i,
                        limit |-> ls[nb + 1 - j + i].limit]],
          data  |-> h[src(j)].data,
          index |-> h[src(j)].index]]
=============================================================================
