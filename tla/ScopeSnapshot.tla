--------------------------- MODULE ScopeSnapshot ----------------------------
(***************************************************************************)
(* What dep0::scope_map promises to its users, without levels, parents or  *)
(* indices: every map is a flat dictionary of its own, from names to cells.*)
(* A new map starts from what another one sees at that moment, and from    *)
(* then on a name added to either is not seen by the other; what they      *)
(* share is only the cells, so a write through one is seen by the other.   *)
(* A cell never moves (the "stable pointer" of operator[]).                *)
(***************************************************************************)
CONSTANTS Maps, Keys, Vals, Cells, NoCell, Free

VARIABLES
  live,    \* the maps in use
  view,    \* the cell each map finds for each key, or NoCell
  own,     \* the keys of the innermost scope of each map
  store    \* what each cell holds; Free if nothing was ever put there

vars == <<live, view, own, store>>

Init ==
  /\ live = {}
  /\ view = [m \in Maps |-> [k \in Keys |-> NoCell]]
  /\ own = [m \in Maps |-> {}]
  /\ store = [c \in Cells |-> Free]

\* No cell in use changes; new ones may come into use.
StoreGrows == \A c \in Cells : store[c] # Free => store'[c] = store[c]

\* Cell d is new and holds what c held.
CopyOf(c, d) == store[d] = Free /\ store'[d] = store[c]

\* Map m comes to life, and nothing changes for the others.
Born(m, w, names) ==
  /\ m \notin live
  /\ live' = live \union {m}
  /\ view' = [view EXCEPT ![m] = w]
  /\ own' = [own EXCEPT ![m] = names]
  /\ StoreGrows

Construct(m) == Born(m, [k \in Keys |-> NoCell], {}) /\ UNCHANGED store

Extend(p, m) == p \in live /\ Born(m, view[p], {}) /\ UNCHANGED store

\* The names of the innermost scope get cells of their own in the copy, the
\* inherited ones remain shared.
InnermostCopy(p, m) ==
  /\ p \in live
  /\ Born(m, view'[m], own[p])
  /\ \A k \in own[p] : CopyOf(view[p][k], view'[m][k])
  /\ \A k \in Keys \ own[p] : view'[m][k] = view[p][k]

\* Every name gets a cell of its own in the copy.
DeepCopy(p, m) ==
  /\ p \in live
  /\ Born(m, view'[m], own[p])
  /\ \A k \in Keys :
       IF view[p][k] = NoCell THEN view'[m][k] = NoCell
       ELSE CopyOf(view[p][k], view'[m][k])

\* A name is added to the innermost scope unless it is there already; only
\* m sees it.
TryEmplace(m, k, v) ==
  /\ m \in live
  /\ k \notin own[m]
  /\ \E c \in Cells :
       /\ store[c] = Free
       /\ store' = [store EXCEPT ![c] = v]
       /\ view' = [view EXCEPT ![m][k] = c]
  /\ own' = [own EXCEPT ![m] = @ \union {k}]
  /\ UNCHANGED live

Write(m, k, v) ==
  /\ m \in live
  /\ view[m][k] # NoCell
  /\ store' = [store EXCEPT ![view[m][k]] = v]
  /\ UNCHANGED <<live, view, own>>

\* m stops being usable: it is destroyed.
Died(m, w, names) ==
  /\ view' = [w EXCEPT ![m] = [k \in Keys |-> NoCell]]
  /\ own' = [names EXCEPT ![m] = {}]
  /\ UNCHANGED store

Destroy(m) ==
  /\ m \in live
  /\ live' = live \ {m}
  /\ Died(m, view, own)

\* m takes over all of p, which cannot be used any more.
Move(p, m) ==
  /\ p # m /\ p \in live
  /\ live' = (live \ {p}) \union {m}
  /\ Died(p, [view EXCEPT ![m] = view[p]], [own EXCEPT ![m] = own[p]])

Next ==
  \/ \E m \in Maps : Construct(m) \/ Destroy(m)
  \/ \E p, m \in Maps :
       Extend(p, m) \/ InnermostCopy(p, m) \/ DeepCopy(p, m) \/ Move(p, m)
  \/ \E m \in Maps, k \in Keys, v \in Vals : TryEmplace(m, k, v) \/ Write(m, k, v)

Spec == Init /\ [][Next]_vars
=============================================================================
