-------------------------- MODULE ConstantFolding ---------------------------
(***************************************************************************)
(* Constant expressions, from the literals up: what the checker accepts,   *)
(* what it folds them to and what they are when they are executed as       *)
(* written (with -s, or where a normal form is only used for checking).    *)
(* The expression is in postfix order, which is the order of checking.     *)
(*                                                                         *)
(*   type     the integer type of the numbers                              *)
(*   stack    the numbers checked so far: for each the constant it is      *)
(*            folded to and the value it has when executed                 *)
(*   truths   the same for booleans, where true is 1                       *)
(*   status   checking, rejected; or trapped, when executing what was      *)
(*            accepted has no defined result                               *)
(***************************************************************************)
EXTENDS FixedWidth, Sequences, SequencesExt

CONSTANTS
  Types,        \* the integer types
  Literals,     \* the numbers written in the program
  MaxOperands,  \* bound: operands waiting at a time
  MaxSteps      \* bound: literals and operators of an expression

ASSUME FixedWidthAssumption ==
  /\ Types \subseteq [signed : BOOLEAN, half : Nat \ {0}]
  /\ Literals \subseteq Int
  /\ IntMax \in Nat /\ MaxOperands \in Nat /\ MaxSteps \in Nat

VARIABLES type, stack, truths, status, steps

vars == <<type, stack, truths, status, steps>>

Operators == {"plus", "minus", "mult", "div"}
Relations == {"eq", "neq", "gt", "gte", "lt", "lte"}

Init ==
  /\ type \in Types
  /\ stack = <<>> /\ truths = <<>> /\ status = "checking" /\ steps = 0

Counts == status = "checking" /\ steps < MaxSteps /\ steps' = steps + 1

\* check_numeric_expr: the number must fit the type.
Literal(n) ==
  /\ Counts
  /\ Len(stack) < MaxOperands
  /\ IF n \in ValuesOf(type)
     THEN /\ stack' = Append(stack, [folded |-> n, executed |-> n])
          /\ UNCHANGED status
     ELSE status' = "rejected" /\ UNCHANGED stack
  /\ UNCHANGED <<type, truths>>

Rhs == stack[Len(stack)]
Lhs == stack[Len(stack) - 1]

\* Mutant: signed types need no second proof.
Proved_nonZeroOnly(t, a, b) == b # 0

\* The proofs a division needs, `b != 0` and for a signed type
\* `not (a == min and b == -1)`; they are found if they fold to true.
Proved(t, a, b) ==
  /\ Related("neq", b, 0)
  /\ t.signed => ~(Related("eq", a, MinOf(t)) /\ Related("eq", b, -1))

Operate(op) ==
  /\ Counts
  /\ Len(stack) >= 2
  /\ \/ /\ op = "div" /\ ~Proved(type, Lhs.folded, Rhs.folded)
        /\ status' = "rejected"
        /\ UNCHANGED stack
     \/ /\ op = "div" => Proved(type, Lhs.folded, Rhs.folded)
        /\ IF op = "div" /\ ~Divides(type, Lhs.executed, Rhs.executed)
           THEN status' = "trapped" /\ UNCHANGED stack
           ELSE /\ \E c \in Folded(op, type, Lhs.folded, Rhs.folded) :
                     stack' = Append(Front(Front(stack)),
                       [folded |-> c, executed |-> Executed(op, type, Lhs.executed, Rhs.executed)])
                /\ UNCHANGED status
  /\ UNCHANGED <<type, truths>>

Truth(p) == IF p THEN 1 ELSE 0

\* `true` and `false`.
Boolean(p) ==
  /\ Counts
  /\ Len(truths) < MaxOperands
  /\ truths' = Append(truths, [folded |-> Truth(p), executed |-> Truth(p)])
  /\ UNCHANGED <<type, stack, status>>

\* Two numbers are compared.
Compare(rel) ==
  /\ Counts
  /\ Len(stack) >= 2
  /\ Len(truths) < MaxOperands
  /\ stack' = Front(Front(stack))
  /\ truths' = Append(truths,
       [folded   |-> Truth(Related(rel, Lhs.folded, Rhs.folded)),
        executed |-> Truth(Compared(rel, type, Lhs.executed, Rhs.executed))])
  /\ UNCHANGED <<type, status>>

Joined(op, x, y) ==
  \/ op = "and" /\ x = 1 /\ y = 1
  \/ op = "or" /\ (x = 1 \/ y = 1)
  \/ op \in Relations /\ Related(op, x, y)

\* Two booleans are joined or compared; both are always evaluated.
Connect(op) ==
  LET a == truths[Len(truths) - 1]
      b == truths[Len(truths)]
  IN  /\ Counts
      /\ Len(truths) >= 2
      /\ truths' = Append(Front(Front(truths)),
           [folded   |-> Truth(Joined(op, a.folded, b.folded)),
            executed |-> Truth(Joined(op, a.executed, b.executed))])
      /\ UNCHANGED <<type, stack, status>>

Negate ==
  /\ Counts
  /\ truths # <<>>
  /\ truths' = Append(Front(truths),
       [folded |-> 1 - Last(truths).folded, executed |-> 1 - Last(truths).executed])
  /\ UNCHANGED <<type, stack, status>>

Next ==
  \/ \E n \in Literals : Literal(n)
  \/ \E op \in Operators : Operate(op)
  \/ \E p \in BOOLEAN : Boolean(p)
  \/ \E rel \in Relations : Compare(rel)
  \/ \E op \in Relations \cup {"and", "or"} : Connect(op)
  \/ Negate

Spec == Init /\ [][Next]_vars

-----------------------------------------------------------------------------
\* Every folded constant and every value fits the type: the next operation
\* converts it without loss, and LLVM takes it for a constant of the type.
TypeOK ==
  /\ type \in Types
  /\ stack \in Seq([folded : ValuesOf(type), executed : ValuesOf(type)])
  /\ truths \in Seq([folded : {0, 1}, executed : {0, 1}])
  /\ Len(stack) <= MaxOperands /\ Len(truths) <= MaxOperands
  /\ status \in {"checking", "rejected", "trapped"}
  /\ steps \in 0..MaxSteps

Agrees(e) == e.folded = e.executed

\* The operations that are folded to what they are executed to: all but a
\* signed division of or by a negative number, and a product that overflows
\* int.
FoldsTruly(op) ==
  /\ op = "div" => Lhs.folded >= 0 /\ Rhs.folded >= 0
  /\ ~OverflowsInt(op, type, ToBits(type, Lhs.folded), ToBits(type, Rhs.folded))

\* Folding is execution, one operation or comparison at a time and so for any
\* expression built from such operations: normalising changes no result, takes
\* no other branch, and what was proved by folding is true when it runs.
FoldingFollowsExecution ==
  [][/\ \A op \in Operators :
          Operate(op) /\ stack' # stack /\ Agrees(Lhs) /\ Agrees(Rhs) /\ FoldsTruly(op)
          => Agrees(Last(stack'))
     /\ \A rel \in Relations :
          Compare(rel) /\ Agrees(Lhs) /\ Agrees(Rhs) => Agrees(Last(truths'))]_vars

\* Nothing that was accepted divides by zero or overflows in a division when
\* it runs, unless an operand was folded to something else before.
DivisionsAreDefined ==
  status = "trapped" => ~Agrees(Lhs) \/ ~Agrees(Rhs)

\* cpp_int_div.hpp: "Compute the wrap-around division of two signed `NumBits`
\* integers".  As above, for every operation.
FoldingIsExecution == \A i \in DOMAIN stack : Agrees(stack[i])
=============================================================================
