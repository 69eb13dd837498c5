------------------------------ MODULE CtxTable ------------------------------
(***************************************************************************)
(* dep0::typecheck::ctx_t: the local variables.  A context has two         *)
(* scope_maps, one from names to variables and one from variables to their *)
(* declarations, so it is a pair of nodes in a memory of two heaps:        *)
(*                                                                         *)
(*   memory   [index, values]                                              *)
(*   context  [scoped, id, index, values]                                  *)
(*   variable [name, shadow], its shadow_id telling it apart from others   *)
(*            of that name                                                 *)
(*                                                                         *)
(* The type of a declaration is only whether it mentions a condition that  *)
(* may become known ("cond"), what is left of that when it is ("known"),   *)
(* or neither ("plain").                                                   *)
(***************************************************************************)
EXTENDS Integers, Sequences, FiniteSetsExt

CONSTANTS
  Names,     \* of variables in the source
  MaxShadow  \* bound: the highest shadow_id

Auto == "auto"  \* the name of those that have none in the source
Vars == [name : Names \union {Auto}, shadow : 0..MaxShadow]

I == INSTANCE ScopeHeap WITH Keys <- Names
V == INSTANCE ScopeHeap WITH Keys <- Vars

Unscoped == -1
NoVar == [name |-> "none", shadow |-> 0]
NoDecl == [type |-> "none", scope |-> Unscoped]

EmptyMemory == [index |-> <<I!RootNode>>, values |-> <<V!RootNode>>]
EmptyContext == [scoped |-> TRUE, id |-> 0, index |-> 1, values |-> 1]

Scope(c) == IF c.scoped THEN c.id ELSE Unscoped

VarOf(m, c, name) ==
  LET cell == I!Find(m.index, c.index, name)
  IN  IF cell = I!NoCell THEN NoVar ELSE m.index[cell[1]].data[cell[2]].val

DeclOf(m, c, var) ==
  LET cell == V!Find(m.values, c.values, var)
  IN  IF cell = V!NoCell THEN NoDecl ELSE m.values[cell[1]].data[cell[2]].val

\* Mutant: the new scope is given the identifier of the old one.
Extended_sameScope(m, c, scoped) ==
  [memory  |-> [index  |-> Append(m.index, I!ChildNode(m.index, c.index)),
                values |-> Append(m.values, V!ChildNode(m.values, c.values))],
   context |-> [scoped |-> scoped, id |-> c.id,
                index  |-> Len(m.index) + 1, values |-> Len(m.values) + 1]]

\* extend, extend_scoped and extend_unscoped
Extended(m, c, scoped) ==
  [memory  |-> [index  |-> Append(m.index, I!ChildNode(m.index, c.index)),
                values |-> Append(m.values, V!ChildNode(m.values, c.values))],
   context |-> [scoped |-> scoped, id |-> c.id + 1,
                index  |-> Len(m.index) + 1, values |-> Len(m.values) + 1]]

RewrittenType(type) == IF type = "cond" THEN "known" ELSE type

RewrittenDecl(d) == [d EXCEPT !.type = RewrittenType(d.type)]

RewrittenNode(node) ==
  [node EXCEPT !.data =
     [i \in DOMAIN node.data |-> [node.data[i] EXCEPT !.val = RewrittenDecl(node.data[i].val)]]]

\* rewrite: with all declarations copied, and one more level of names.
Rewritten(m, c) ==
  LET copies == V!DeepCopied(m.values, c.values)
  IN  [memory  |-> [index  |-> Append(m.index, I!ChildNode(m.index, c.index)),
                    values |-> m.values \o [n \in DOMAIN copies |-> RewrittenNode(copies[n])]],
       context |-> [c EXCEPT !.index = Len(m.index) + 1,
                             !.values = Len(m.values) + Len(copies)]]

\* Mutant: only declarations of the same level are told apart.
NewVar_ownLevel(m, c, name) == [name |-> name, shadow |-> 0]

\* The shadow_id follows that of the variable the name stands for so far.
NewVar(m, c, name) ==
  LET prev == VarOf(m, c, name)
  IN  [name |-> name, shadow |-> IF prev = NoVar THEN 0 ELSE prev.shadow + 1]

Decl(c, type) == [type |-> type, scope |-> Scope(c)]

\* try_emplace, of a name that is not at this level yet
CanDeclare(m, c, name) == m.index[c.index].index[name] = I!Absent

\* MaxShadow is not reached.
HasShadow(m, c, name) == NewVar(m, c, name).shadow <= MaxShadow

Declared(m, c, name, type) ==
  LET var == NewVar(m, c, name)
  IN  [index  |-> I!Emplaced(m.index, c.index, name, var),
       values |-> V!Emplaced(m.values, c.values, var, Decl(c, type))]

\* add_unnamed: the number of the variable is one that was never used before;
\* here it may be one that is no longer used.
Unused(m) ==
  {i \in 0..MaxShadow :
     \A n \in DOMAIN m.values : m.values[n].index[[name |-> Auto, shadow |-> i]] = V!Absent}
UnnamedVar(m) == [name |-> Auto, shadow |-> Min(Unused(m))]
UnnamedAdded(m, c, type) ==
  [m EXCEPT !.values = V!Emplaced(@, c.values, UnnamedVar(m), Decl(c, type))]

-----------------------------------------------------------------------------
\* max_scope of an expression about some variables that may call a function,
\* whose result is a temporary value of the current scope.
HasScope(m, c, e) ==
  /\ \A v \in e.vars : DeclOf(m, c, v) # NoDecl /\ DeclOf(m, c, v).scope # Unscoped
  /\ e.calls => c.scoped

MaxScope(m, c, e) ==
  Max({0} \union {DeclOf(m, c, v).scope : v \in e.vars} \union (IF e.calls THEN {c.id} ELSE {}))

\* scopeof(y) for a variable: that of its declaration, if it has one.
ScopeOf(m, c, y) == DeclOf(m, c, y).scope

\* check_expr: the address of e may be stored where references to what lives
\* as long as y are expected.
AddressFits(m, c, e, y) ==
  /\ HasScope(m, c, e)
  /\ ScopeOf(m, c, y) # Unscoped
  /\ MaxScope(m, c, e) <= ScopeOf(m, c, y)
=============================================================================
