---------------------------- MODULE ModuleRules -----------------------------
(***************************************************************************)
(* What it means for a module to be accepted, said of its entries alone:   *)
(* no environment, no order of checking, no other module.                  *)
(***************************************************************************)
EXTENDS ModuleCheck

Functions == {"decl", "def"}

Prior(i, g) == {j \in 1..(i - 1) : entries[j].name = g}

\* A name is used again only for a function declared or defined before, with
\* the same signature, and is defined once.
NameMayBeUsed(i) ==
  \A j \in Prior(i, entries[i].name) :
    /\ entries[i].kind \in Functions /\ entries[j].kind \in Functions
    /\ entries[i].sig = entries[j].sig
    /\ ~(entries[i].kind = "def" /\ entries[j].kind = "def")

PreludeHas(g, kinds) == \E k \in DOMAIN Prelude : Prelude[k].global = g /\ Prelude[k].def.kind \in kinds

NamesType(i, g) ==
  \/ \E j \in Prior(i, g) : entries[j].kind \in {"typedef", "struct"}
  \/ g = entries[i].name /\ entries[i].kind = "struct"
  \/ PreludeHas(g, {"type"})

NamesTypeFunction(i, g) ==
  \/ \E j \in Prior(i, g) : entries[j].kind \in Functions \union {"axiom"} /\ entries[j].sig = TypeSig
  \/ \E k \in DOMAIN Prelude :
       /\ Prelude[k].global = g /\ Prelude[k].def.sig = TypeSig
       /\ Prelude[k].def.kind \in Functions \union {"axiom"}

TypesAreKnown(i) ==
  \A t \in entries[i].types :
    IF t.shape = "call" THEN NamesTypeFunction(i, t.name) /\ NamesType(i, t.arg)
                        ELSE NamesType(i, t.name)

\* A struct is not a field of itself, nor an element of a tuple that is.
FieldsAreComplete(i) ==
  entries[i].kind = "struct" =>
    \A t \in entries[i].types : t.shape \in {"global", "tuple"} => t.name # entries[i].name

\* What a body names is written before it or is the function itself, and only
\* erased code names axioms.
BodyIsKnown(i) ==
  \A u \in entries[i].body :
    /\ \/ Prior(i, u.name) # {}
       \/ u.name = entries[i].name
       \/ u.name \in PreludeNames
    /\ ~u.erased => /\ \A j \in Prior(i, u.name) : entries[j].kind # "axiom"
                    /\ ~PreludeHas(u.name, {"axiom"})

CallableFromC(i) ==
  entries[i].kind = "extern" => entries[i].sig # TypeSig /\ entries[i].types = {}

DeclaredIsDefined ==
  \A i \in DOMAIN entries :
    entries[i].kind = "decl" /\ ~entries[i].builtin =>
      \E j \in DOMAIN entries : entries[j].name = entries[i].name /\ entries[j].kind = "def"

EveryEntryIsGood ==
  \A i \in DOMAIN entries :
    /\ NameMayBeUsed(i) /\ TypesAreKnown(i) /\ FieldsAreComplete(i)
    /\ BodyIsKnown(i) /\ CallableFromC(i)

\* A module is accepted if it obeys the rules and only then, whatever modules
\* were checked before it.
RulesDecide ==
  status # "open" => (status = "accepted" <=> EveryEntryIsGood /\ DeclaredIsDefined)

\* What an accepted module names at run-time can be linked or is a type: a
\* function that is defined, extern or builtin, and never an axiom or a
\* declaration that was forgotten.
RuntimeIsDefined ==
  status = "accepted" =>
    \A i \in DOMAIN entries : \A u \in {u \in entries[i].body : ~u.erased} :
      LET s == T!Lookup(heap, Env, u.name)
      IN  s.kind \in {"def", "extern", "type"} \/ (s.kind = "decl" /\ s.builtin)

-----------------------------------------------------------------------------
\* The structs a field of type t holds by value; a box or a call hides them.
HeldByValue(t) == IF t.shape \in {"global", "tuple"} THEN {t.name} ELSE {}

HeldBy(s) ==
  UNION {HeldByValue(t) : t \in UNION {entries[i].types :
           i \in {i \in DOMAIN entries : entries[i].kind = "struct" /\ entries[i].name = s}}}

\* No value of an accepted struct contains another of its own type, not even
\* through other structs, if no field has a computed type.
WrittenStructsAreFinite ==
  status = "accepted" =>
    \A loop \in (SUBSET Globals) \ {{}} : \E s \in loop : HeldBy(s) \intersect loop = {}

\* What a name stands for in some environment, that of a body that was checked
\* before included, is final, but for a declared function, which may become
\* defined with the signature it was declared with: what was checked against
\* it holds for ever.
MeaningIsFinal ==
  [][entries' # <<>> => \A n \in DOMAIN heap : \A g \in T!Visible(heap, n) :
       LET old == T!Lookup(heap, n, g)
           new == T!Lookup(heap', n, g)
       IN  \/ new = old
           \/ old.kind = "decl" /\ new.kind = "def" /\ new.sig = old.sig]_vars

-----------------------------------------------------------------------------
\* Declared first, and then defined.
DeclaredBefore(g) ==
  \E i \in DOMAIN entries :
    entries[i].name = g /\ entries[i].kind = "def" /\ \E j \in Prior(i, g) : entries[j].kind = "decl"

Defined == {g \in Globals : T!Lookup(heap, Env, g).kind = "def"}

\* Unfolding calls comes to an end, for all that a body may call itself: only
\* through a function that was declared before it was defined, and so is found
\* by older environments too, does it ever come back to where it was.
UnfoldingEnds ==
  \A loop \in (SUBSET {g \in Defined : ~DeclaredBefore(g)}) \ {{}} :
    \E g \in loop : Unfolded(T!Lookup(heap, Env, g)) \intersect loop = {}
=============================================================================
