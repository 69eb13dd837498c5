----------------------------- MODULE Contexts -------------------------------
(***************************************************************************)
(* The contexts that are alive while the checker is inside of nested       *)
(* functions, types, branches and because-expressions.                     *)
(*                                                                         *)
(*   memory   the heaps of the two scope_maps                              *)
(*   frames   the constructs the checker is in, the outermost first; `ctx` *)
(*            is the construct's context and `ret` the one in which its    *)
(*            return type is checked; memory allocated since a construct   *)
(*            was entered is given back when it is left                    *)
(*   binders  what is declared around here, in the order of the source,    *)
(*            as a reader of the source would list it                      *)
(***************************************************************************)
EXTENDS Integers, Sequences, SequencesExt, FiniteSets, FiniteSetsExt

CONSTANTS
  Names,
  MaxShadow,  \* bound: see CtxTable
  Types,      \* of declarations: "plain" or "cond"
  MaxFrames,  \* bound: constructs inside one another
  MaxParams,  \* bound: parameters of one construct
  MaxFacts    \* bound: how often what is known grows in one construct

\* A name of the source is a word; those without a name and missing variables
\* have names that are none.
ASSUME NamesAssumption ==
  /\ Names \intersect {"auto", "none"} = {} /\ Types \subseteq {"plain", "cond"}
  /\ {MaxShadow, MaxFrames, MaxParams, MaxFacts} \subseteq Nat

VARIABLES memory, frames, binders

vars == <<memory, frames, binders>>

C == INSTANCE CtxTable

Top == Last(frames)
Current == IF Top.phase = "ret" THEN Top.ret ELSE Top.ctx

Frame(kind, phase, ctx, ret) ==
  [kind |-> kind, phase |-> phase, ctx |-> ctx, ret |-> ret, params |-> 0,
   facts |-> 0, known |-> 0,
   before |-> [index |-> Len(memory.index), values |-> Len(memory.values), binders |-> Len(binders)]]

\* check_func_def and the other checks of an entry start with no variables.
Init ==
  /\ memory = C!EmptyMemory
  /\ binders = <<>>
  /\ frames = <<[kind |-> "entry", phase |-> "expr", ctx |-> C!EmptyContext,
                 ret |-> C!EmptyContext, params |-> 0, facts |-> 0, known |-> 0,
                 before |-> [index |-> 1, values |-> 1, binders |-> 0]]>>

\* There is a number for the next variable without a name.
CanAddUnnamed(m) == C!Unused(m) # {}

Enter(m, frame) ==
  /\ Len(frames) < MaxFrames
  /\ memory' = m
  /\ frames' = Append(frames, frame)

\* The context for a return type: it never has a scope of its own.
RetScoped == FALSE

\* type_assign_abs, and type_assign for a pi_t: check_pi_type begins.
BeginSignature(kind) ==
  LET own == C!Extended(memory, Current, TRUE)
      ret == C!Extended(own.memory, own.context, RetScoped)
  IN  /\ Enter(ret.memory, Frame(kind, "params", own.context, ret.context))
      /\ UNCHANGED binders

BeginSigma ==
  LET own == C!Extended(memory, Current, Current.scoped)
  IN  /\ Enter(own.memory, Frame("sigma", "params", own.context, own.context))
      /\ UNCHANGED binders

Binder(name, var, type) ==
  [name |-> name, var |-> var, type |-> type, depth |-> Len(frames)]

HasRet(f) == f.kind \in {"function", "pi"}

\* Mutant: the context for the return type is made anew after each parameter.
InBoth_nested(f, name, type) ==
  LET m == C!Declared(memory, f.ctx, name, type)
  IN  IF HasRet(f) THEN C!Declared(m, [f.ret EXCEPT !.values = f.ctx.values], name, type) ELSE m

\* Each parameter is declared twice.
InBoth(f, name, type) ==
  LET m == C!Declared(memory, f.ctx, name, type)
  IN  IF HasRet(f) THEN C!Declared(m, f.ret, name, type) ELSE m

AddParam(name, type) ==
  /\ Top.phase = "params"
  /\ Top.params < MaxParams
  /\ C!CanDeclare(memory, Top.ctx, name) /\ C!HasShadow(memory, Top.ctx, name)
  /\ memory' = InBoth(Top, name, type)
  /\ binders' = Append(binders, Binder(name, C!NewVar(memory, Top.ctx, name), type))
  /\ frames' = [frames EXCEPT ![Len(frames)].params = @ + 1]

AddUnnamedParam(type) ==
  LET m == C!UnnamedAdded(memory, Top.ctx, type)
  IN  /\ Top.phase = "params"
      /\ Top.params < MaxParams
      /\ CanAddUnnamed(memory) /\ (HasRet(Top) => CanAddUnnamed(m))
      /\ memory' = IF HasRet(Top) THEN C!UnnamedAdded(m, Top.ret, type) ELSE m
      /\ frames' = [frames EXCEPT ![Len(frames)].params = @ + 1]
      /\ UNCHANGED binders

EndParams ==
  /\ Top.phase = "params" /\ HasRet(Top)
  /\ frames' = [frames EXCEPT ![Len(frames)].phase = "ret"]
  /\ UNCHANGED <<memory, binders>>

BeginBody ==
  /\ Top.phase = "ret" /\ Top.kind = "function"
  /\ frames' = [frames EXCEPT ![Len(frames)].phase = "body"]
  /\ UNCHANGED <<memory, binders>>

\* A because-expression, or an impossible statement: what the reason proves is
\* added to a context of its own.
BeginBecause(type) ==
  LET own == C!Extended(memory, Current, Current.scoped)
  IN  /\ CanAddUnnamed(own.memory)
      /\ Enter(C!UnnamedAdded(own.memory, own.context, type),
               Frame("because", "expr", own.context, own.context))
      /\ UNCHANGED binders

\* A reason that is itself a type proves nothing.
BeginBecauseOfType ==
  LET own == C!Extended(memory, Current, Current.scoped)
  IN  /\ Enter(own.memory, Frame("because", "expr", own.context, own.context))
      /\ UNCHANGED binders

\* check_stmt for an if: in a branch the condition is known.
BeginBranch ==
  LET own == C!Extended(memory, Current, Current.scoped)
      new == C!Rewritten(own.memory, own.context)
  IN  /\ Top.phase = "body" /\ CanAddUnnamed(new.memory)
      /\ Enter(C!UnnamedAdded(new.memory, new.context, "cond"),
               [Frame("branch", "body", new.context, new.context)
                  EXCEPT !.facts = 1, !.known = Len(binders)])
      /\ UNCHANGED binders

\* check_stmt: and after it, if the branch returns.
FactAfterIf ==
  LET new == C!Rewritten(memory, Top.ctx)
  IN  /\ Top.phase = "body"
      /\ Top.facts < MaxFacts /\ CanAddUnnamed(new.memory)
      /\ memory' = C!UnnamedAdded(new.memory, new.context, "cond")
      /\ frames' = [frames EXCEPT ![Len(frames)].ctx = new.context,
                                  ![Len(frames)].facts = @ + 1,
                                  ![Len(frames)].known = Len(binders)]
      /\ UNCHANGED binders

Leave ==
  /\ Len(frames) > 1
  /\ Top.phase = "params" => Top.kind = "sigma"
  /\ Top.phase = "ret" => Top.kind = "pi"
  /\ memory' = [index  |-> SubSeq(memory.index, 1, Top.before.index),
                values |-> SubSeq(memory.values, 1, Top.before.values)]
  /\ binders' = SubSeq(binders, 1, Top.before.binders)
  /\ frames' = Front(frames)

Next ==
  \/ \E kind \in {"function", "pi"} : BeginSignature(kind)
  \/ BeginSigma
  \/ \E name \in Names, type \in Types : AddParam(name, type)
  \/ \E type \in Types : AddUnnamedParam(type)
  \/ EndParams
  \/ BeginBody
  \/ \E type \in Types : BeginBecause(type)
  \/ BeginBecauseOfType
  \/ BeginBranch
  \/ FactAfterIf
  \/ Leave

Spec == Init /\ [][Next]_vars

-----------------------------------------------------------------------------
\* The binders that construct k can see, and what is known of their types.
Around(k) == {i \in DOMAIN binders : binders[i].depth <= k}
TypeFrom(k, i) ==
  IF \E j \in 1..k : i <= frames[j].known THEN C!RewrittenType(binders[i].type)
                                          ELSE binders[i].type

Innermost(k, name) ==
  LET named == {i \in Around(k) : binders[i].name = name}
  IN  IF named = {} THEN C!NoVar ELSE binders[Max(named)].var

\* A context as one should be: every name stands for what is bound innermost
\* and every variable, hidden or not, is still declared as it was.
SeesRightly(c, k) ==
  /\ \A name \in Names : C!VarOf(memory, c, name) = Innermost(k, name)
  /\ \A i \in Around(k) :
       LET d == C!DeclOf(memory, c, binders[i].var)
       IN  d # C!NoDecl /\ d.type = TypeFrom(k, i)

\* No two variables around one place are the same, and in every construct that
\* is being checked, outer ones included, names and variables mean what the
\* source says, whatever was declared, hidden or rewritten further inside.
ContextsFollowSource ==
  /\ \A i, j \in DOMAIN binders : binders[i].var = binders[j].var => i = j
  /\ \A k \in DOMAIN frames : SeesRightly(frames[k].ctx, k)

\* A return type is checked in a context apart, and the parameters it is about
\* are the very variables that the parameter list binds.
ReturnTypeSeesParameters ==
  \A k \in DOMAIN frames :
    frames[k].phase \in {"params", "ret"} /\ HasRet(frames[k]) => SeesRightly(frames[k].ret, k)

Expressions ==
  [vars : {vs \in SUBSET {binders[i].var : i \in DOMAIN binders} : Cardinality(vs) <= 2},
   calls : BOOLEAN]

\* Where the parts of an expression live: temporary values in the construct
\* that is being checked.
LivesUntil(e) ==
  {binders[i].depth : i \in {j \in DOMAIN binders : binders[j].var \in e.vars}}
    \union (IF e.calls THEN {Len(frames)} ELSE {})

\* An address is only accepted where it is gone before what it refers to; and
\* what a function returns never refers to its own parameters.
NoAddressOutlives ==
  \A i \in DOMAIN binders, e \in Expressions :
    C!AddressFits(memory, Current, e, binders[i].var) =>
      /\ \A depth \in LivesUntil(e) : depth <= binders[i].depth
      /\ Top.phase = "ret" => binders[i].depth < Len(frames)
=============================================================================
