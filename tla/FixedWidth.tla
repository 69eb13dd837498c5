---------------------------- MODULE FixedWidth ------------------------------
(***************************************************************************)
(* Integers of a fixed width, folded by the type checker (cpp_int_add,     *)
(* _sub, _mult and _div) and computed by the generated program.            *)
(*                                                                         *)
(* A type is [signed, half] where half is 2^(width - 1): what holds here   *)
(* for every `half` holds for every width.  IntMax is the largest `int` of *)
(* the compiler that built dep0: C++ computes with narrower types in int.  *)
(***************************************************************************)
EXTENDS Integers

CONSTANT IntMax

Modulus(t) == 2 * t.half

MinOf(t) == IF t.signed THEN -t.half ELSE 0
MaxOf(t) == IF t.signed THEN t.half - 1 ELSE Modulus(t) - 1
ValuesOf(t) == MinOf(t)..MaxOf(t)

\* std::bit_cast to the unsigned type of the same width, and back.
ToBits(t, a) == a % Modulus(t)

\* Mutant: the greatest pattern of a positive value is taken for a negative one.
FromBits_early(t, z) ==
  IF t.signed /\ z >= t.half - 1 THEN z - Modulus(t) ELSE z

FromBits(t, z) == IF t.signed /\ z >= t.half THEN z - Modulus(t) ELSE z

\* Mutant: what was copied from addition was not changed.
OfBits_copied(op, x, y) ==
  CASE op \in {"plus", "minus"} -> x + y
    [] op = "mult"  -> x * y
    [] op = "div"   -> x \div y

OfBits(op, x, y) ==
  CASE op = "plus"  -> x + y
    [] op = "minus" -> x - y
    [] op = "mult"  -> x * y
    [] op = "div"   -> x \div y

\* Types narrower than int are promoted to it; a product may overflow there,
\* which is undefined.
OverflowsInt(op, t, x, y) == op = "mult" /\ Modulus(t) <= IntMax /\ x * y > IntMax

\* The constants that `a op b` may be folded to; y # 0 for a division.
Folded(op, t, a, b) ==
  LET x == ToBits(t, a)
      y == ToBits(t, b)
  IN  IF OverflowsInt(op, t, x, y) THEN ValuesOf(t)
      ELSE {FromBits(t, OfBits(op, x, y) % Modulus(t))}

\* A relation between two numbers, or between two booleans taken for 0 and 1.
Related(rel, a, b) ==
  CASE rel = "eq"  -> a = b
    [] rel = "neq" -> a # b
    [] rel = "gt"  -> a > b
    [] rel = "gte" -> a >= b
    [] rel = "lt"  -> a < b
    [] rel = "lte" -> a <= b

-----------------------------------------------------------------------------
(* The instructions gen_val() chooses, as LLVM defines them.               *)

\* `icmp` compares bit patterns, for a signed type with a signed predicate.
Compared(rel, t, a, b) == Related(rel, FromBits(t, ToBits(t, a)), FromBits(t, ToBits(t, b)))

Abs(a) == IF a < 0 THEN -a ELSE a

\* `sdiv` and `udiv` round towards zero.
Quotient(a, b) ==
  LET q == Abs(a) \div Abs(b)
  IN  IF (a < 0) = (b < 0) THEN q ELSE -q

\* The value of t with the same last bits as a.
Wrapped(t, a) == CHOOSE v \in ValuesOf(t) : (v - a) % Modulus(t) = 0

Executed(op, t, a, b) ==
  CASE op = "plus"  -> Wrapped(t, a + b)
    [] op = "minus" -> Wrapped(t, a - b)
    [] op = "mult"  -> Wrapped(t, a * b)
    [] op = "div"   -> Quotient(a, b)

\* A division that is defined.
Divides(t, a, b) == b # 0 /\ (t.signed => ~(a = MinOf(t) /\ b = -1))
=============================================================================
