---------------------------- MODULE ModuleCheck -----------------------------
(***************************************************************************)
(* dep0::typecheck::check(): the entries of a parsed module are checked in *)
(* the order in which they are written, each against the environment the   *)
(* previous ones have built, and the declarations are accounted for at the *)
(* end.  Modules are checked one after the other against one base          *)
(* environment, which check() takes by reference: the tests share one, the *)
(* program makes one for every file.                                       *)
(*                                                                         *)
(* An entry is [kind, name, sig, builtin, types, body, result]:            *)
(*   types   the types in its signature or of its fields; a type is        *)
(*           [shape, name, arg]: the global `name`, a tuple or a box with  *)
(*           that element, or the call of a function with a type for its   *)
(*           argument                                                      *)
(*   body    the globals the body names, each with whether it is erased    *)
(*   result  for a function from types to types, the type it returns or    *)
(*           ItsArgument                                                   *)
(***************************************************************************)
EXTENDS Naturals, Sequences

CONSTANTS
  Globals,     \* qualified names
  Prelude,     \* the module imported in the base environment: [global, def]
  Entries,     \* the entries a module may have
  TypeSig,     \* the signature of the functions from types to types
  MaxEntries   \* bound: entries of one module

PreludeNames == {Prelude[i].global : i \in DOMAIN Prelude}

\* The prelude has axioms, builtin functions and functions that are defined.
\* What those call is looked up in the prelude's own environment, none of the
\* heap, and is left out.
ASSUME PreludeAssumption ==
  /\ Prelude \in Seq([global : Globals, def : {Prelude[i].def : i \in DOMAIN Prelude}])
  /\ \A i, j \in DOMAIN Prelude : Prelude[i].global = Prelude[j].global => i = j
  /\ \A i \in DOMAIN Prelude :
       LET s == Prelude[i].def
       IN  /\ s.kind \in {"type", "axiom", "decl", "def"}
           /\ s.kind = "decl" => s.builtin
           /\ s.kind = "def" => s.calls = {}

\* Every entry of the module gets a name without a module: global_t{nullopt, name}.
ASSUME EntriesAssumption ==
  \A e \in Entries :
    /\ e.kind \in {"typedef", "struct", "axiom", "extern", "decl", "def"}
    /\ e.name \in Globals \ PreludeNames /\ e.builtin \in BOOLEAN
    /\ \A t \in e.types : t.name \in Globals /\ (t.shape = "call" => t.arg \in Globals)
    /\ \A u \in e.body : u.name \in Globals /\ u.erased \in BOOLEAN
    /\ e.kind = "typedef" => e.types = {}
    /\ e.kind # "def" => e.body = {}

VARIABLES
  heap,      \* node 1: the base environment; node 2: the module's own; then
             \* one for every function body
  entries,   \* the entries read so far, the last one maybe rejected
  decls,     \* the functions declared so far
  status     \* "open", "accepted" or "rejected"

vars == <<heap, entries, decls, status>>

T == INSTANCE EnvTable

BaseEnv == 1
Env == 2

Extended(h, n) == Append(h, T!H!ChildNode(h, n))

MakeBaseEnv == T!Imported(<<T!H!RootNode>>, BaseEnv, Prelude).heap

Init ==
  /\ heap = Extended(MakeBaseEnv, BaseEnv)
  /\ entries = <<>>
  /\ decls = {}
  /\ status = "open"

-----------------------------------------------------------------------------
Symbol(kind, sig, builtin) == [kind |-> kind, sig |-> sig, builtin |-> builtin]
IncompleteType == Symbol("incomplete", TypeSig, FALSE)
SymbolOf(e) ==
  Symbol(IF e.kind \in {"typedef", "struct"} THEN "type" ELSE e.kind, e.sig, e.builtin)

IsType(h, n, g) == T!Lookup(h, n, g).kind \in {"incomplete", "type"}
IsTypeFunction(h, n, g) ==
  LET s == T!Lookup(h, n, g) IN s.kind \in {"axiom", "decl", "def"} /\ s.sig = TypeSig
\* A definition keeps its body, checked in environment env.
Definition(e, env) ==
  [kind |-> "def", sig |-> e.sig, builtin |-> e.builtin, calls |-> {u.name : u \in e.body}, env |-> env]

\* check_type: types and axioms alike can be named where nothing is used.
ValidType(h, n, t) ==
  IF t.shape = "call" THEN IsTypeFunction(h, n, t.name) /\ IsType(h, n, t.arg)
                      ELSE IsType(h, n, t.name)

\* Mutant: the elements of a tuple are not looked at.
IsCompleteType_outermost(h, n, t) ==
  t.shape = "global" => T!Lookup(h, n, t.name).kind # "incomplete"

\* is_complete_type: a box is complete, and so is every call.
IsCompleteType(h, n, t) ==
  t.shape \in {"global", "tuple"} => T!Lookup(h, n, t.name).kind # "incomplete"

\* Mutant: only erased names are looked at with care.
ValidUse_anyAxiom(h, n, u) == T!Lookup(h, n, u.name) # T!Undefined

\* type_assign_global
ValidUse(h, n, u) ==
  LET s == T!Lookup(h, n, u.name)
  IN  s # T!Undefined /\ (s.kind = "axiom" => u.erased)

\* Mutant: a function's own declaration goes to the environment of the module.
BodyEnv_ofModule(e) ==
  LET f == T!TryEmplaced(heap, Env, e.name, Symbol("decl", e.sig, FALSE))
  IN  [f EXCEPT !.heap = Extended(@, Env)]

\* type_assign_abs: the body may call the function itself, declared in an
\* environment of its own, which every call in the body refers to ever after.
BodyEnv(e) ==
  T!TryEmplaced(Extended(heap, Env), Len(heap) + 1, e.name, Symbol("decl", e.sig, FALSE))

ValidBody(e) ==
  BodyEnv(e).ok /\ \A u \in e.body : ValidUse(BodyEnv(e).heap, Len(heap) + 1, u)

ValidSignature(e) == \A t \in e.types : ValidType(heap, Env, t)

\* check_type_def for a struct: in its fields the struct is an incomplete type.
ValidFields(e) ==
  LET s == T!TryEmplaced(Extended(heap, Env), Len(heap) + 1, e.name, IncompleteType)
  IN  /\ s.ok
      /\ \A t \in e.types : /\ ValidType(s.heap, Len(heap) + 1, t)
                            /\ IsCompleteType(s.heap, Len(heap) + 1, t)

-----------------------------------------------------------------------------
\* delta_unfold: a call in the body of function definition s is replaced by
\* the definition of what it calls, looked up where the body was checked.
Unfolded(s) == {g \in s.calls : T!Lookup(heap, s.env, g).kind = "def"}

-----------------------------------------------------------------------------
\* Mutant: what is added goes to the environment all modules share.
AddTo_base(h, e, symbol, valid) ==
  LET r == T!TryEmplaced(h, BaseEnv, e.name, symbol)
  IN  /\ entries' = Append(entries, e)
      /\ IF valid /\ r.ok THEN heap' = r.heap /\ UNCHANGED status
                          ELSE status' = "rejected" /\ UNCHANGED heap

\* An entry that is valid is added to the environment; checking stops at the
\* first that is not, or whose name is taken.
AddTo(h, e, symbol, valid) ==
  LET r == T!TryEmplaced(h, Env, e.name, symbol)
  IN  /\ entries' = Append(entries, e)
      /\ IF valid /\ r.ok THEN heap' = r.heap /\ UNCHANGED status
                          ELSE status' = "rejected" /\ UNCHANGED heap

Add(e, valid) == AddTo(heap, e, SymbolOf(e), valid)

CheckInteger(e) ==
  /\ e.kind = "typedef"
  /\ Add(e, TRUE)
  /\ UNCHANGED decls

CheckStruct(e) ==
  /\ e.kind = "struct"
  /\ Add(e, ValidFields(e))
  /\ UNCHANGED decls

CheckAxiom(e) ==
  /\ e.kind = "axiom"
  /\ Add(e, ValidSignature(e))
  /\ UNCHANGED decls

\* is_c_func_type: neither types nor what the module names.
IsCFuncType(e) == e.sig # TypeSig /\ e.types = {}

CheckExternDecl(e) ==
  /\ e.kind = "extern"
  /\ Add(e, IsCFuncType(e) /\ ValidSignature(e))
  /\ UNCHANGED decls

CheckFuncDecl(e) ==
  /\ e.kind = "decl"
  /\ Add(e, ValidSignature(e))
  /\ decls' = IF status' = "open" /\ ~e.builtin THEN decls \union {e.name} ELSE decls

CheckFuncDef(e) ==
  /\ e.kind = "def"
  /\ AddTo(BodyEnv(e).heap, e, Definition(e, Len(heap) + 1), ValidSignature(e) /\ ValidBody(e))
  /\ UNCHANGED decls

CheckEntry ==
  /\ status = "open"
  /\ Len(entries) < MaxEntries
  /\ \E e \in Entries :
       \/ CheckInteger(e) \/ CheckStruct(e) \/ CheckAxiom(e)
       \/ CheckExternDecl(e) \/ CheckFuncDecl(e) \/ CheckFuncDef(e)

\* All that was declared must be defined.
EndModule ==
  /\ status = "open"
  /\ status' = IF \A g \in decls : T!Lookup(heap, Env, g).kind = "def"
               THEN "accepted" ELSE "rejected"
  /\ UNCHANGED <<heap, entries, decls>>

\* The next module, again in an environment that extends the base one.
NextModule ==
  /\ status # "open"
  /\ heap' = Extended(<<heap[BaseEnv]>>, BaseEnv)
  /\ entries' = <<>>
  /\ decls' = {}
  /\ status' = "open"

Next == CheckEntry \/ EndModule \/ NextModule

Spec == Init /\ [][Next]_vars
=============================================================================
