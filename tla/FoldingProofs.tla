--------------------------- MODULE FoldingProofs ----------------------------
(***************************************************************************)
(* For every width: folding stays inside the type, a division that was     *)
(* accepted is defined, and but for the operations FoldsTruly leaves out,  *)
(* folding is execution.                                                   *)
(* No axiom of the prelude is false either: comparing values is comparing  *)
(* the numbers they stand for, and adding or subtracting one is exact as   *)
(* long as the result is between two values of the type.                   *)
(***************************************************************************)
EXTENDS Prelude, SequenceTheorems, TLAPS

Kind == [signed : BOOLEAN, half : Nat \ {0}]

-----------------------------------------------------------------------------
(* Remainders.                                                             *)

\* a and b differ by a multiple of m.
Congruent(m, a, b) == \E q \in Int : a = b + m * q

\* Having no remainder is being a multiple.
LEMMA NoRemainder ==
  ASSUME NEW m \in Nat \ {0}, NEW a \in Int, NEW b \in Int
  PROVE  (a - b) % m = 0 <=> Congruent(m, a, b)
<1>1. ASSUME (a - b) % m = 0 PROVE Congruent(m, a, b)
  <2> DEFINE q == (a - b) \div m
  <2>1. q \in Int /\ a - b = m * q
    BY <1>1
  <2> HIDE DEF q
  <2> QED BY <2>1 DEF Congruent
<1>2. ASSUME NEW q \in Int, a = b + m * q PROVE (a - b) % m = 0
  <2>1. a - b = m * q
    BY <1>2
  <2>2. (m * q) % m = 0  OBVIOUS
  <2> QED BY <2>1, <2>2
<1> QED BY <1>1, <1>2 DEF Congruent

\* A remainder is in range and congruent to the number.
LEMMA Remainder ==
  ASSUME NEW m \in Nat \ {0}, NEW a \in Int
  PROVE  a % m \in 0..(m - 1) /\ Congruent(m, a % m, a)
<1> DEFINE q == -(a \div m)
<1>1. a % m \in 0..(m - 1)  OBVIOUS
<1>2. q \in Int /\ a % m = a + m * q  OBVIOUS
<1> HIDE DEF q
<1> QED BY <1>1, <1>2 DEF Congruent

\* Congruence is symmetric and transitive.
LEMMA Equivalence ==
  ASSUME NEW m \in Nat \ {0}, NEW a \in Int, NEW b \in Int, NEW c \in Int,
         Congruent(m, a, b)
  PROVE  /\ Congruent(m, b, a)
         /\ Congruent(m, b, c) => Congruent(m, a, c)
<1>1. PICK q \in Int : a = b + m * q
  BY DEF Congruent
<1>2. Congruent(m, b, a)
  <2>1. b = a + m * (-q) /\ -q \in Int
    BY <1>1
  <2> QED BY <2>1 DEF Congruent
<1>3. ASSUME NEW r \in Int, b = c + m * r PROVE Congruent(m, a, c)
  <2>1. a = c + m * (q + r) /\ q + r \in Int
    BY <1>1, <1>3
  <2> QED BY <2>1 DEF Congruent
<1> QED BY <1>2, <1>3 DEF Congruent

\* Sums, differences and products of congruent numbers are congruent.
LEMMA Arithmetic ==
  ASSUME NEW m \in Nat \ {0},
         NEW a \in Int, NEW b \in Int, NEW x \in Int, NEW y \in Int,
         Congruent(m, x, a), Congruent(m, y, b)
  PROVE  /\ Congruent(m, x + y, a + b)
         /\ Congruent(m, x - y, a - b)
         /\ Congruent(m, x * y, a * b)
<1>1. PICK q \in Int : x = a + m * q
  BY DEF Congruent
<1>2. PICK r \in Int : y = b + m * r
  BY DEF Congruent
<1>3. Congruent(m, x + y, a + b)
  <2>1. x + y = (a + b) + m * (q + r) /\ q + r \in Int
    BY <1>1, <1>2
  <2> QED BY <2>1 DEF Congruent
<1>4. Congruent(m, x - y, a - b)
  <2>1. x - y = (a - b) + m * (q - r) /\ q - r \in Int
    BY <1>1, <1>2
  <2> QED BY <2>1 DEF Congruent
<1>5. Congruent(m, x * y, a * b)
  <2> DEFINE s == a * r + q * y
  <2>1. x * y = a * y + (m * q) * y
    BY <1>1
  <2>2. a * y = a * b + a * (m * r)
    BY <1>2
  <2>3. a * (m * r) = m * (a * r)  OBVIOUS
  <2>4. (m * q) * y = m * (q * y)  OBVIOUS
  <2>5. m * (a * r) + m * (q * y) = m * (a * r + q * y)  OBVIOUS
  <2>6. s \in Int /\ x * y = a * b + m * s
    BY <2>1, <2>2, <2>3, <2>4, <2>5
  <2> HIDE DEF s
  <2> QED BY <2>6 DEF Congruent
<1> QED BY <1>3, <1>4, <1>5

\* Congruent numbers less than the modulus apart are equal.
LEMMA NearIsEqual ==
  ASSUME NEW m \in Nat \ {0}, NEW a \in Int, NEW b \in Int,
         Congruent(m, a, b), -m < a - b, a - b < m
  PROVE  a = b
<1>1. PICK q \in Int : a = b + m * q
  BY DEF Congruent
<1>2. -m < m * q /\ m * q < m
  BY <1>1
<1>3. q < 1
  BY <1>2
<1>4. -1 < q
  BY <1>2
<1>5. q = 0
  BY <1>3, <1>4
<1> QED BY <1>1, <1>5

-----------------------------------------------------------------------------
(* The values of a type.                                                   *)

\* There are as many values as bit patterns, in one range.
LEMMA Values ==
  ASSUME NEW t \in Kind
  PROVE  /\ Modulus(t) \in Nat \ {0}
         /\ ValuesOf(t) \subseteq Int
         /\ \A v, w \in ValuesOf(t) : -Modulus(t) < v - w /\ v - w < Modulus(t)
<1>1. t.half \in Nat \ {0} /\ t.signed \in BOOLEAN
  BY DEF Kind
<1>2. MinOf(t) \in Int /\ MaxOf(t) \in Int /\ MaxOf(t) - MinOf(t) = Modulus(t) - 1
  BY <1>1 DEF MinOf, MaxOf, Modulus
<1>3. Modulus(t) \in Nat \ {0}
  BY <1>1 DEF Modulus
<1> QED BY <1>2, <1>3 DEF ValuesOf

\* Reading a bit pattern as a value of the type keeps it, modulo 2^width.
LEMMA Reading ==
  ASSUME NEW t \in Kind, NEW z \in 0..(Modulus(t) - 1)
  PROVE  FromBits(t, z) \in ValuesOf(t) /\ Congruent(Modulus(t), FromBits(t, z), z)
<1>1. t.half \in Nat \ {0} /\ t.signed \in BOOLEAN /\ z \in Int
  BY Values DEF Kind
<1>2. FromBits(t, z) \in ValuesOf(t)
  BY <1>1 DEF FromBits, ValuesOf, MinOf, MaxOf, Modulus
<1>3. FromBits(t, z) = z + Modulus(t) * 0 \/ FromBits(t, z) = z + Modulus(t) * (-1)
  BY <1>1 DEF FromBits, Modulus
<1>4. 0 \in Int /\ -1 \in Int  OBVIOUS
<1> QED BY <1>2, <1>3, <1>4 DEF Congruent

\* Wrapping is the only value of the type that is congruent to the number.
LEMMA Wrapping ==
  ASSUME NEW t \in Kind, NEW a \in Int
  PROVE  /\ Wrapped(t, a) \in ValuesOf(t)
         /\ \A v \in ValuesOf(t) : Congruent(Modulus(t), v, a) => Wrapped(t, a) = v
<1> DEFINE m == Modulus(t)
           z == a % m
           Fits(v) == (v - a) % m = 0
<1>1. m \in Nat \ {0} /\ ValuesOf(t) \subseteq Int
  BY Values
<1>2. z \in 0..(m - 1) /\ Congruent(m, z, a)
  BY <1>1, Remainder
<1>3. FromBits(t, z) \in ValuesOf(t) /\ Congruent(m, FromBits(t, z), z)
  BY <1>2, Reading
<1>4. \E v \in ValuesOf(t) : Fits(v)
  <2>1. FromBits(t, z) \in Int /\ z \in Int
    BY <1>1, <1>2, <1>3
  <2>2. Congruent(m, FromBits(t, z), a)
    BY <1>1, <1>2, <1>3, <2>1, Equivalence
  <2>3. Fits(FromBits(t, z))
    BY <1>1, <2>1, <2>2, NoRemainder
  <2> QED BY <1>3, <2>3
<1>5. Wrapped(t, a) \in ValuesOf(t) /\ Fits(Wrapped(t, a))
  BY <1>4 DEF Wrapped
<1>6. ASSUME NEW v \in ValuesOf(t), Congruent(m, v, a) PROVE Wrapped(t, a) = v
  <2> DEFINE w == Wrapped(t, a)
  <2>1. w \in Int /\ v \in Int
    BY <1>1, <1>5
  <2>2. Congruent(m, w, a)
    BY <1>1, <1>5, <2>1, NoRemainder
  <2>3. Congruent(m, w, v)
    BY <1>1, <1>6, <2>1, <2>2, Equivalence
  <2>4. -m < w - v /\ w - v < m
    BY <1>5, Values
  <2> HIDE DEF w, m
  <2>5. w = v
    BY <1>1, <2>1, <2>3, <2>4, NearIsEqual
  <2> QED BY <2>5 DEF w
<1> QED BY <1>5, <1>6

-----------------------------------------------------------------------------
(* Division.                                                               *)

\* Division of natural numbers does not grow, and shrinks unless by one.
LEMMA NaturalDivision ==
  ASSUME NEW a \in Nat, NEW b \in Nat \ {0}
  PROVE  a \div b \in 0..a /\ (a \div b = a => a = 0 \/ b = 1)
<1> DEFINE q == a \div b
<1>1. q \in Nat /\ b * q <= a  OBVIOUS
<1> HIDE DEF q
<1>2. q <= b * q
  <2>1. b * q = q + (b - 1) * q
    BY <1>1
  <2>2. (b - 1) * q >= 0
    BY <1>1
  <2> QED BY <1>1, <2>1, <2>2
<1>3. ASSUME q = a, b # 1 PROVE a = 0
  <2>1. b * q = q + q + (b - 2) * q
    BY <1>1
  <2>2. b - 2 \in Nat
    BY <1>3
  <2>3. (b - 2) * q >= 0
    BY <1>1, <2>2
  <2>4. q + q <= a
    BY <1>1, <2>1, <2>3
  <2> QED BY <1>1, <1>3, <2>4
<1>4. q \in 0..a
  BY <1>1, <1>2
<1> QED BY <1>3, <1>4 DEF q

\* A division that is defined has its quotient in the type.
LEMMA QuotientFits ==
  ASSUME NEW t \in Kind, NEW a \in ValuesOf(t), NEW b \in ValuesOf(t), Divides(t, a, b)
  PROVE  Quotient(a, b) \in ValuesOf(t)
<1> DEFINE q == Abs(a) \div Abs(b)
<1>1. t.half \in Nat \ {0} /\ t.signed \in BOOLEAN /\ a \in Int /\ b \in Int /\ b # 0
  BY Values DEF Kind, Divides
<1>2. Abs(a) \in Nat /\ Abs(b) \in Nat \ {0}
  BY <1>1 DEF Abs
<1>3. q \in 0..Abs(a) /\ (q = Abs(a) => Abs(a) = 0 \/ Abs(b) = 1)
  BY <1>2, NaturalDivision
<1> HIDE DEF q
<1>4. Quotient(a, b) = IF (a < 0) = (b < 0) THEN q ELSE -q
  BY DEF Quotient, q
<1>5. CASE ~t.signed
  <2>1. a \in 0..(2 * t.half - 1) /\ b \in 0..(2 * t.half - 1)
    BY <1>5 DEF ValuesOf, MinOf, MaxOf, Modulus
  <2>2. Quotient(a, b) \in 0..(2 * t.half - 1)
    BY <1>1, <1>3, <1>4, <2>1 DEF Abs
  <2> QED BY <1>5, <2>2 DEF ValuesOf, MinOf, MaxOf, Modulus
<1>6. CASE t.signed
  <2>1. a \in (-t.half)..(t.half - 1) /\ b \in (-t.half)..(t.half - 1)
    BY <1>6 DEF ValuesOf, MinOf, MaxOf
  <2>2. ~(a = -t.half /\ b = -1)
    BY <1>6 DEF Divides, MinOf
  <2>3. q \in 0..t.half
    BY <1>1, <1>3, <2>1 DEF Abs
  <2>4. (a < 0) = (b < 0) => q # t.half
    <3> SUFFICES ASSUME (a < 0) = (b < 0), q = t.half PROVE FALSE
      OBVIOUS
    <3>1. Abs(a) = t.half /\ a = -t.half
      BY <1>1, <1>3, <2>1 DEF Abs
    <3>2. Abs(b) = 1 /\ b < 0
      BY <1>1, <1>3, <3>1
    <3> QED BY <1>1, <2>2, <3>1, <3>2 DEF Abs
  <2>5. Quotient(a, b) \in (-t.half)..(t.half - 1)
    BY <1>1, <1>4, <2>3, <2>4
  <2> QED BY <1>6, <2>5 DEF ValuesOf, MinOf, MaxOf
<1> QED BY <1>1, <1>5, <1>6

-----------------------------------------------------------------------------
(* Folding and execution.                                                  *)

\* What an operation makes of two bit patterns is a number.
LEMMA BitsAreNumbers ==
  ASSUME NEW op \in Operators, NEW x \in Nat, NEW y \in Nat, op = "div" => y # 0
  PROVE  OfBits(op, x, y) \in Int
<1>1. CASE op = "div"
  <2>1. x \div y \in Int
    BY <1>1
  <2> QED BY <1>1, <2>1 DEF OfBits
<1>2. CASE op \in {"plus", "minus", "mult"}
  BY <1>2 DEF OfBits
<1> QED BY <1>1, <1>2 DEF Operators

\* The bit pattern of a value is a remainder, and zero for zero only.
LEMMA Patterns ==
  ASSUME NEW t \in Kind, NEW a \in ValuesOf(t)
  PROVE  /\ ToBits(t, a) \in 0..(Modulus(t) - 1) /\ ToBits(t, a) \in Nat
         /\ Congruent(Modulus(t), ToBits(t, a), a)
         /\ a # 0 => ToBits(t, a) # 0
         /\ a >= 0 => ToBits(t, a) = a
<1> DEFINE m == Modulus(t)
<1>1. m \in Nat \ {0} /\ a \in Int /\ -m < a /\ a < m
  <2>1. t.half \in Nat \ {0} /\ t.signed \in BOOLEAN
    BY DEF Kind
  <2> QED BY <2>1 DEF ValuesOf, MinOf, MaxOf, Modulus
<1> HIDE DEF m
<1>2. a % m \in 0..(m - 1) /\ Congruent(m, a % m, a)
  BY <1>1, Remainder
<1>3. a >= 0 => a % m = a
  BY <1>1
<1>4. a % m = 0 => a = 0
  <2> SUFFICES ASSUME a % m = 0 PROVE a = 0
    OBVIOUS
  <2>1. Congruent(m, a, 0)
    BY <1>1, <1>2, Equivalence
  <2> QED BY <1>1, <2>1, NearIsEqual
<1> QED BY <1>1, <1>2, <1>3, <1>4 DEF ToBits, m

\* A folded constant fits the type.
LEMMA FoldedFits ==
  ASSUME NEW t \in Kind, NEW op \in Operators, NEW a \in ValuesOf(t), NEW b \in ValuesOf(t),
         op = "div" => b # 0
  PROVE  Folded(op, t, a, b) \subseteq ValuesOf(t)
<1> DEFINE x == ToBits(t, a)
           y == ToBits(t, b)
           z == OfBits(op, x, y) % Modulus(t)
<1>1. x \in Nat /\ y \in Nat /\ (op = "div" => y # 0)
  BY Patterns
<1>2. OfBits(op, x, y) \in Int /\ Modulus(t) \in Nat \ {0}
  BY <1>1, BitsAreNumbers, Values
<1>3. z \in 0..(Modulus(t) - 1)
  BY <1>2, Remainder
<1>4. FromBits(t, z) \in ValuesOf(t)
  BY <1>3, Reading
<1> QED BY <1>4 DEF Folded

\* A value computed by the program fits the type.
LEMMA ExecutedFits ==
  ASSUME NEW t \in Kind, NEW op \in Operators, NEW a \in ValuesOf(t), NEW b \in ValuesOf(t),
         op = "div" => Divides(t, a, b)
  PROVE  Executed(op, t, a, b) \in ValuesOf(t)
<1>1. a \in Int /\ b \in Int
  BY Values
<1>2. a + b \in Int /\ a - b \in Int /\ a * b \in Int
  BY <1>1
<1>3. CASE op = "div"
  BY <1>3, QuotientFits DEF Executed
<1>4. CASE op = "plus"
  BY <1>2, <1>4, Wrapping DEF Executed
<1>5. CASE op = "minus"
  BY <1>2, <1>5, Wrapping DEF Executed
<1>6. CASE op = "mult"
  BY <1>2, <1>6, Wrapping DEF Executed
<1> QED BY <1>3, <1>4, <1>5, <1>6 DEF Operators

\* Adding, subtracting and multiplying bit patterns is what the wrapping
\* instructions do; so is dividing, if nothing is negative.
LEMMA FoldingIsExecuting ==
  ASSUME NEW t \in Kind, NEW op \in Operators, NEW a \in ValuesOf(t), NEW b \in ValuesOf(t),
         op = "div" => b # 0 /\ a >= 0 /\ b >= 0,
         ~OverflowsInt(op, t, ToBits(t, a), ToBits(t, b))
  PROVE  Folded(op, t, a, b) = {Executed(op, t, a, b)}
<1> DEFINE m == Modulus(t)
           x == ToBits(t, a)
           y == ToBits(t, b)
           z == OfBits(op, x, y) % m
<1>1. Folded(op, t, a, b) = {FromBits(t, z)}
  BY DEF Folded
<1>2. /\ m \in Nat \ {0} /\ a \in Int /\ b \in Int
      /\ x \in 0..(m - 1) /\ x \in Nat /\ y \in 0..(m - 1) /\ y \in Nat
      /\ Congruent(m, x, a) /\ Congruent(m, y, b)
      /\ (b # 0 => y # 0) /\ (a >= 0 => x = a) /\ (b >= 0 => y = b)
  BY Patterns, Values
<1> HIDE DEF x, y
<1>3. OfBits(op, x, y) \in Int
  BY <1>2, BitsAreNumbers
<1>4. z \in 0..(m - 1) /\ z \in Int /\ Congruent(m, z, OfBits(op, x, y))
  <2>1. z \in 0..(m - 1) /\ Congruent(m, z, OfBits(op, x, y))
    BY <1>2, <1>3, Remainder
  <2> HIDE DEF z
  <2> QED BY <2>1
<1>5. FromBits(t, z) \in ValuesOf(t) /\ FromBits(t, z) \in Int /\ Congruent(m, FromBits(t, z), z)
  BY <1>4, Reading, Values
<1> HIDE DEF m, z
<1>6. ASSUME NEW c \in Int, Congruent(m, OfBits(op, x, y), c), m = Modulus(t)
      PROVE  FromBits(t, z) = Wrapped(t, c)
  <2>1. Congruent(m, z, c)
    BY <1>2, <1>3, <1>4, <1>6, Equivalence
  <2>2. Congruent(m, FromBits(t, z), c)
    BY <1>2, <1>4, <1>5, <2>1, Equivalence
  <2> QED BY <1>5, <1>6, <2>2, Wrapping
<1>7. m = Modulus(t)
  BY DEF m
<1>8. /\ Congruent(m, x + y, a + b)
      /\ Congruent(m, x - y, a - b)
      /\ Congruent(m, x * y, a * b)
  BY <1>2, Arithmetic
<1>9. CASE op = "plus"
  BY <1>1, <1>2, <1>6, <1>7, <1>8, <1>9 DEF OfBits, Executed
<1>10. CASE op = "minus"
  BY <1>1, <1>2, <1>6, <1>7, <1>8, <1>10 DEF OfBits, Executed
<1>11. CASE op = "mult"
  BY <1>1, <1>2, <1>6, <1>7, <1>8, <1>11 DEF OfBits, Executed
<1>12. CASE op = "div"
  <2>1. a \in Nat /\ b \in Nat \ {0} /\ x = a /\ y = b
    BY <1>2, <1>12
  <2> DEFINE q == a \div b
  <2>2. q \in 0..a
    BY <2>1, NaturalDivision
  <2>3. Executed(op, t, a, b) = q
    BY <1>12, <2>1 DEF Executed, Quotient, Abs
  <2>4. OfBits(op, x, y) = q
    BY <1>12, <2>1 DEF OfBits
  <2> HIDE DEF q
  <2>5. z = q
    BY <1>2, <2>1, <2>2, <2>4 DEF z
  <2>6. FromBits(t, q) = q
    <3>1. t.half \in Nat \ {0} /\ t.signed \in BOOLEAN
      BY DEF Kind
    <3>2. a <= MaxOf(t)
      BY DEF ValuesOf
    <3> QED BY <2>1, <2>2, <3>1, <3>2 DEF MaxOf, FromBits, Modulus
  <2> QED BY <1>1, <2>3, <2>5, <2>6
<1> QED BY <1>9, <1>10, <1>11, <1>12 DEF Operators

\* A value keeps its bit pattern, so comparing patterns compares values.
LEMMA ComparingIsExecuting ==
  ASSUME NEW t \in Kind, NEW a \in ValuesOf(t), NEW b \in ValuesOf(t), NEW rel \in Relations
  PROVE  Compared(rel, t, a, b) = Related(rel, a, b)
<1>1. ASSUME NEW v \in ValuesOf(t) PROVE FromBits(t, ToBits(t, v)) = v
  <2> DEFINE m == Modulus(t)
             z == ToBits(t, v)
             w == FromBits(t, z)
  <2>1. m \in Nat \ {0} /\ v \in Int
    BY Values
  <2>2. z \in 0..(m - 1) /\ z \in Int /\ Congruent(m, z, v)
    BY Patterns
  <2>3. w \in ValuesOf(t) /\ w \in Int /\ Congruent(m, w, z)
    BY <2>2, Reading, Values
  <2> HIDE DEF z, w
  <2>4. Congruent(m, w, v)
    BY <2>1, <2>2, <2>3, Equivalence
  <2>5. -m < w - v /\ w - v < m
    BY <2>3, Values
  <2>6. w = v
    <3> HIDE DEF m
    <3> QED BY <2>1, <2>3, <2>4, <2>5, NearIsEqual
  <2> QED BY <2>6 DEF w, z
<1> QED BY <1>1 DEF Compared

-----------------------------------------------------------------------------
(* The machine.                                                            *)

Operand == [folded : ValuesOf(type), executed : ValuesOf(type)]

\* The two operands on top of the stack fit the type.
LEMMA Tops ==
  ASSUME TypeOK, Len(stack) >= 2
  PROVE  Lhs \in Operand /\ Rhs \in Operand
<1>1. stack \in Seq(Operand)
  BY DEF TypeOK, Operand
<1>2. Len(stack) - 1 \in 1..Len(stack) /\ Len(stack) \in 1..Len(stack)
  BY <1>1
<1> QED BY <1>1, <1>2 DEF Lhs, Rhs

\* What replaces them.
LEMMA Replaced ==
  ASSUME TypeOK, Len(stack) >= 2, NEW e \in Operand,
         stack' = Append(Front(Front(stack)), e)
  PROVE  stack' \in Seq(Operand) /\ Len(stack') <= MaxOperands /\ Last(stack') = e
<1>1. stack \in Seq(Operand) /\ Len(stack) <= MaxOperands
  BY DEF TypeOK, Operand
<1> DEFINE f == Front(stack)
           g == Front(f)
<1>2. f \in Seq(Operand) /\ Len(f) = Len(stack) - 1
  BY <1>1 DEF Front
<1>3. g \in Seq(Operand) /\ Len(g) = Len(stack) - 2
  <2> HIDE DEF f
  <2> QED BY <1>2 DEF Front
<1>4. stack' = Append(g, e)
  OBVIOUS
<1> HIDE DEF f, g
<1>5. stack' \in Seq(Operand) /\ Len(stack') = Len(stack) - 1 /\ stack'[Len(stack')] = e
  BY <1>3, <1>4
<1> QED BY <1>1, <1>5, FixedWidthAssumption DEF Last

\* A type of the program is one of the types these lemmas are about.
LEMMA TypesAreKinds == ASSUME TypeOK PROVE type \in Kind
BY FixedWidthAssumption DEF TypeOK, Kind

\* What an operation leaves on the stack, if it leaves anything new.
LEMMA Result ==
  ASSUME TypeOK, NEW op \in Operators, Operate(op), stack' # stack
  PROVE  \E c \in Folded(op, type, Lhs.folded, Rhs.folded) :
           LET e == [folded |-> c, executed |-> Executed(op, type, Lhs.executed, Rhs.executed)]
           IN  /\ e \in Operand
               /\ stack' \in Seq(Operand) /\ Len(stack') <= MaxOperands /\ Last(stack') = e
<1>1. Len(stack) >= 2 /\ (op = "div" => Proved(type, Lhs.folded, Rhs.folded))
  BY DEF Operate
<1>2. /\ op = "div" => Divides(type, Lhs.executed, Rhs.executed)
      /\ \E c \in Folded(op, type, Lhs.folded, Rhs.folded) :
           stack' = Append(Front(Front(stack)),
             [folded |-> c, executed |-> Executed(op, type, Lhs.executed, Rhs.executed)])
  BY DEF Operate
<1>3. PICK c \in Folded(op, type, Lhs.folded, Rhs.folded) :
        stack' = Append(Front(Front(stack)),
          [folded |-> c, executed |-> Executed(op, type, Lhs.executed, Rhs.executed)])
  BY <1>2
<1> DEFINE e == [folded |-> c, executed |-> Executed(op, type, Lhs.executed, Rhs.executed)]
<1>4. /\ Lhs.folded \in ValuesOf(type) /\ Rhs.folded \in ValuesOf(type)
      /\ Lhs.executed \in ValuesOf(type) /\ Rhs.executed \in ValuesOf(type)
  BY <1>1, Tops DEF Operand
<1>5. c \in ValuesOf(type)
  BY <1>1, <1>4, FoldedFits, TypesAreKinds DEF Proved, Related
<1>6. Executed(op, type, Lhs.executed, Rhs.executed) \in ValuesOf(type)
  BY <1>2, <1>4, ExecutedFits, TypesAreKinds
<1>7. e \in Operand
  BY <1>5, <1>6 DEF Operand
<1>8. stack' = Append(Front(Front(stack)), e)
  BY <1>3
<1> HIDE DEF e
<1>9. stack' \in Seq(Operand) /\ Len(stack') <= MaxOperands /\ Last(stack') = e
  BY <1>1, <1>7, <1>8, Replaced
<1> QED BY <1>7, <1>9 DEF e

Boole == [folded : {0, 1}, executed : {0, 1}]

\* All but the last of a sequence.
LEMMA Shorter ==
  ASSUME NEW S, NEW s \in Seq(S), Len(s) >= 1
  PROVE  Front(s) \in Seq(S) /\ Len(Front(s)) = Len(s) - 1
<1> DEFINE n == Len(s) - 1
<1>1. n \in Nat /\ \A i \in 1..n : s[i] \in S
  OBVIOUS
<1> HIDE DEF n
<1>2. SubSeq(s, 1, n) \in Seq(S) /\ Len(SubSeq(s, 1, n)) = n
  BY <1>1, SubSeqProperties
<1> QED BY <1>2 DEF Front, n

\* An operation on booleans replaces one or two of them.
LEMMA Popped ==
  ASSUME TypeOK, NEW e \in Boole,
         \/ Len(truths) >= 1 /\ truths' = Append(Front(truths), e)
         \/ Len(truths) >= 2 /\ truths' = Append(Front(Front(truths)), e)
  PROVE  truths' \in Seq(Boole) /\ Len(truths') <= MaxOperands
<1>1. truths \in Seq(Boole) /\ Len(truths) <= MaxOperands /\ MaxOperands \in Nat
  BY FixedWidthAssumption DEF TypeOK, Boole
<1>2. Front(truths) \in Seq(Boole) /\ Len(Front(truths)) = Len(truths) - 1
  BY <1>1, Shorter
<1>3. CASE Len(truths) >= 1 /\ truths' = Append(Front(truths), e)
  BY <1>1, <1>2, <1>3
<1>4. CASE Len(truths) >= 2 /\ truths' = Append(Front(Front(truths)), e)
  <2>1. /\ Front(Front(truths)) \in Seq(Boole)
        /\ Len(Front(Front(truths))) = Len(truths) - 2
    BY <1>1, <1>2, <1>4, Shorter
  <2> QED BY <1>1, <1>4, <2>1
<1> QED BY <1>3, <1>4

\* Without the last two numbers, the rest fit the type.
LEMMA Fronts ==
  ASSUME TypeOK, Len(stack) >= 2
  PROVE  Front(Front(stack)) \in Seq(Operand) /\ Len(Front(Front(stack))) <= MaxOperands
<1>1. stack \in Seq(Operand) /\ Len(stack) <= MaxOperands
  BY DEF TypeOK, Operand
<1>2. Front(stack) \in Seq(Operand) /\ Len(Front(stack)) = Len(stack) - 1
  BY <1>1, Shorter
<1>3. /\ Front(Front(stack)) \in Seq(Operand)
      /\ Len(Front(Front(stack))) = Len(Front(stack)) - 1
  BY <1>1, <1>2, Shorter
<1> QED BY <1>1, <1>2, <1>3, FixedWidthAssumption

\* Every step keeps constants and values inside the type.
LEMMA TypeStep == TypeOK /\ [Next]_vars => TypeOK'
<1> SUFFICES ASSUME TypeOK, [Next]_vars PROVE TypeOK'
  OBVIOUS
<1>1. ASSUME NEW n \in Literals, Literal(n) PROVE TypeOK'
  <2>1. /\ type' = type /\ truths' = truths
        /\ status' \in {"checking", "rejected", "trapped"} /\ steps' \in 0..MaxSteps
    BY <1>1, FixedWidthAssumption DEF Literal, Counts, TypeOK
  <2>2. CASE stack' = stack
    BY <2>1, <2>2 DEF TypeOK
  <2>3. CASE n \in ValuesOf(type) /\ stack' = Append(stack, [folded |-> n, executed |-> n])
    <3>1. [folded |-> n, executed |-> n] \in Operand
      BY <2>3 DEF Operand
    <3>2. stack \in Seq(Operand) /\ Len(stack) < MaxOperands /\ MaxOperands \in Nat
      BY <1>1, FixedWidthAssumption DEF TypeOK, Literal, Operand
    <3>3. stack' \in Seq(Operand) /\ Len(stack') <= MaxOperands
      BY <2>3, <3>1, <3>2
    <3> QED BY <2>1, <3>3 DEF TypeOK, Operand
  <2> QED BY <1>1, <2>2, <2>3 DEF Literal
<1>2. ASSUME NEW op \in Operators, Operate(op) PROVE TypeOK'
  <2>1. /\ type' = type /\ truths' = truths
        /\ status' \in {"checking", "rejected", "trapped"} /\ steps' \in 0..MaxSteps
    BY <1>2, FixedWidthAssumption DEF Operate, Counts, TypeOK
  <2>2. CASE stack' = stack
    BY <2>1, <2>2 DEF TypeOK
  <2>3. CASE stack' # stack
    <3>1. stack' \in Seq(Operand) /\ Len(stack') <= MaxOperands
      BY <1>2, <2>3, Result
    <3> QED BY <2>1, <3>1 DEF TypeOK, Operand
  <2> QED BY <2>2, <2>3
<1>3. ASSUME type' = type, status' = status, Counts,
             stack' \in Seq(Operand), Len(stack') <= MaxOperands,
             truths' \in Seq(Boole), Len(truths') <= MaxOperands
      PROVE  TypeOK'
  <2>1. steps' \in 0..MaxSteps
    BY <1>3, FixedWidthAssumption DEF Counts, TypeOK
  <2> QED BY <1>3, <2>1 DEF TypeOK, Operand, Boole
<1>4. /\ stack \in Seq(Operand) /\ Len(stack) <= MaxOperands
      /\ truths \in Seq(Boole) /\ Len(truths) <= MaxOperands /\ MaxOperands \in Nat
  BY FixedWidthAssumption DEF TypeOK, Operand, Boole
<1>5. ASSUME NEW p \in BOOLEAN, Boolean(p) PROVE TypeOK'
  <2> DEFINE e == [folded |-> Truth(p), executed |-> Truth(p)]
  <2>1. e \in Boole
    BY DEF Boole, Truth
  <2>2. /\ Len(truths) < MaxOperands /\ truths' = Append(truths, e)
        /\ type' = type /\ stack' = stack /\ status' = status /\ Counts
    BY <1>5 DEF Boolean
  <2> HIDE DEF e
  <2>3. truths' \in Seq(Boole) /\ Len(truths') <= MaxOperands
    BY <1>4, <2>1, <2>2
  <2> QED BY <1>3, <1>4, <2>2, <2>3
<1>6. ASSUME NEW rel \in Relations, Compare(rel) PROVE TypeOK'
  <2> DEFINE x == Related(rel, Lhs.folded, Rhs.folded)
             y == Compared(rel, type, Lhs.executed, Rhs.executed)
             e == [folded |-> Truth(x), executed |-> Truth(y)]
  <2>1. e \in Boole
    BY DEF Boole, Truth
  <2>2. /\ Len(stack) >= 2 /\ stack' = Front(Front(stack))
        /\ Len(truths) < MaxOperands /\ truths' = Append(truths, e)
        /\ type' = type /\ status' = status /\ Counts
    BY <1>6 DEF Compare
  <2> HIDE DEF e
  <2>3. truths' \in Seq(Boole) /\ Len(truths') <= MaxOperands
    BY <1>4, <2>1, <2>2
  <2>4. stack' \in Seq(Operand) /\ Len(stack') <= MaxOperands
    BY <2>2, Fronts
  <2> QED BY <1>3, <2>2, <2>3, <2>4
<1>7. ASSUME NEW op \in Relations \cup {"and", "or"}, Connect(op) PROVE TypeOK'
  <2> DEFINE a == truths[Len(truths) - 1]
             b == truths[Len(truths)]
             e == [folded   |-> Truth(Joined(op, a.folded, b.folded)),
                   executed |-> Truth(Joined(op, a.executed, b.executed))]
  <2>1. e \in Boole /\ truths' = Append(Front(Front(truths)), e)
    <3>1. e \in Boole
      BY DEF Boole, Truth
    <3>2. truths' = Append(Front(Front(truths)), e)
      BY <1>7 DEF Connect
    <3> QED BY <3>1, <3>2
  <2>2. /\ Len(truths) >= 2 /\ Counts
        /\ type' = type /\ stack' = stack /\ status' = status
    BY <1>7 DEF Connect
  <2>3. truths' \in Seq(Boole) /\ Len(truths') <= MaxOperands
    BY <2>1, <2>2, Popped
  <2> QED BY <1>3, <1>4, <2>2, <2>3
<1>8. CASE Negate
  <2> DEFINE a == Last(truths)
             e == [folded |-> 1 - a.folded, executed |-> 1 - a.executed]
  <2>1. Len(truths) >= 1 /\ a \in Boole
    BY <1>4, <1>8 DEF Negate, Last
  <2>2. a.folded \in {0, 1} /\ a.executed \in {0, 1}
    BY <2>1 DEF Boole
  <2>3. e \in Boole
    BY <2>2 DEF Boole
  <2>4. /\ truths' = Append(Front(truths), e) /\ Counts
        /\ type' = type /\ stack' = stack /\ status' = status
    BY <1>8 DEF Negate
  <2> HIDE DEF a, e
  <2>5. truths' \in Seq(Boole) /\ Len(truths') <= MaxOperands
    BY <2>1, <2>3, <2>4, Popped
  <2> QED BY <1>3, <1>4, <2>4, <2>5
<1>9. CASE UNCHANGED vars
  BY <1>9 DEF vars, TypeOK
<1> QED BY <1>1, <1>2, <1>5, <1>6, <1>7, <1>8, <1>9 DEF Next

\* TypeOK for every width, literal and bound: a folded constant is one that
\* boost::multiprecision and LLVM may take for a constant of the type.
THEOREM ConstantsFit == Spec => []TypeOK
<1>1. Init => TypeOK
  BY FixedWidthAssumption DEF Init, TypeOK
<1> QED BY <1>1, TypeStep, PTL DEF Spec

\* DivisionsAreDefined: the proofs that the checker demands of a division
\* are those the instruction needs, for every width and signedness.
THEOREM AcceptedDivisions == Spec => []DivisionsAreDefined
<1>1. Init => DivisionsAreDefined
  BY DEF Init, DivisionsAreDefined
<1>2. DivisionsAreDefined /\ [Next]_vars => DivisionsAreDefined'
  <2> SUFFICES ASSUME DivisionsAreDefined, [Next]_vars, status' = "trapped"
               PROVE  (~Agrees(Lhs) \/ ~Agrees(Rhs))'
    BY DEF DivisionsAreDefined
  <2>1. ASSUME NEW n \in Literals, Literal(n) PROVE FALSE
    BY <2>1 DEF Literal, Counts
  <2>2. ASSUME NEW op \in Operators, Operate(op) PROVE (~Agrees(Lhs) \/ ~Agrees(Rhs))'
    <3>1. /\ Proved(type, Lhs.folded, Rhs.folded)
          /\ ~Divides(type, Lhs.executed, Rhs.executed)
          /\ stack' = stack
      BY <2>2 DEF Operate, Counts
    <3>2. ~Agrees(Lhs) \/ ~Agrees(Rhs)
      BY <3>1 DEF Proved, Related, Divides, Agrees
    <3> QED BY <3>1, <3>2 DEF Agrees, Lhs, Rhs
  <2>3. ASSUME Counts, status' = status PROVE FALSE
    BY <2>3 DEF Counts
  <2>4. ASSUME NEW p \in BOOLEAN, Boolean(p) PROVE FALSE
    BY <2>3, <2>4 DEF Boolean
  <2>5. ASSUME NEW rel \in Relations, Compare(rel) PROVE FALSE
    BY <2>3, <2>5 DEF Compare
  <2>6. ASSUME NEW op \in Relations \cup {"and", "or"}, Connect(op) PROVE FALSE
    BY <2>3, <2>6 DEF Connect
  <2>7. CASE Negate
    BY <2>3, <2>7 DEF Negate
  <2>8. CASE UNCHANGED vars
    BY <2>8 DEF vars, DivisionsAreDefined, Agrees, Lhs, Rhs
  <2> QED BY <2>1, <2>2, <2>4, <2>5, <2>6, <2>7, <2>8 DEF Next
<1> QED BY <1>1, <1>2, PTL DEF Spec

\* FoldingFollowsExecution: but for signed divisions with a negative operand
\* and products that overflow int, folding an operation gives what the
\* generated instruction gives, for every width and signedness.
THEOREM FoldingIsSound == Spec => FoldingFollowsExecution
<1> DEFINE Same(op) ==
      Operate(op) /\ stack' # stack /\ Agrees(Lhs) /\ Agrees(Rhs) /\ FoldsTruly(op)
      => Agrees(Last(stack'))
<1>1. ASSUME TypeOK, NEW op \in Operators PROVE Same(op)
  <2> SUFFICES ASSUME Operate(op), stack' # stack, Agrees(Lhs), Agrees(Rhs), FoldsTruly(op)
               PROVE  Agrees(Last(stack'))
    OBVIOUS
  <2>1. PICK c \in Folded(op, type, Lhs.folded, Rhs.folded) :
          Last(stack') = [folded |-> c,
                          executed |-> Executed(op, type, Lhs.executed, Rhs.executed)]
    BY <1>1, Result
  <2>2. Lhs.folded \in ValuesOf(type) /\ Rhs.folded \in ValuesOf(type)
    BY <1>1, Tops DEF Operate, Operand
  <2>3. Folded(op, type, Lhs.folded, Rhs.folded) = {Executed(op, type, Lhs.folded, Rhs.folded)}
    <3>1. op = "div" => Rhs.folded # 0 /\ Lhs.folded >= 0 /\ Rhs.folded >= 0
      BY DEF Operate, Proved, Related, FoldsTruly
    <3>2. ~OverflowsInt(op, type, ToBits(type, Lhs.folded), ToBits(type, Rhs.folded))
      BY DEF FoldsTruly
    <3> QED BY <1>1, <2>2, <3>1, <3>2, FoldingIsExecuting, TypesAreKinds
  <2>4. Lhs.executed = Lhs.folded /\ Rhs.executed = Rhs.folded
    BY DEF Agrees
  <2> QED BY <2>1, <2>3, <2>4 DEF Agrees
<1> DEFINE SameTruth(rel) ==
      Compare(rel) /\ Agrees(Lhs) /\ Agrees(Rhs) => Agrees(Last(truths'))
<1>2. ASSUME TypeOK, NEW rel \in Relations PROVE SameTruth(rel)
  <2> SUFFICES ASSUME Compare(rel), Agrees(Lhs), Agrees(Rhs) PROVE Agrees(Last(truths'))
    OBVIOUS
  <2> DEFINE x == Related(rel, Lhs.folded, Rhs.folded)
             y == Compared(rel, type, Lhs.executed, Rhs.executed)
             e == [folded |-> Truth(x), executed |-> Truth(y)]
  <2>1. Lhs.folded \in ValuesOf(type) /\ Rhs.folded \in ValuesOf(type)
    BY <1>2, Tops DEF Compare, Operand
  <2>2. Lhs.executed = Lhs.folded /\ Rhs.executed = Rhs.folded
    BY DEF Agrees
  <2>3. x = y
    BY <1>2, <2>1, <2>2, ComparingIsExecuting, TypesAreKinds
  <2>4. Agrees(e)
    BY <2>3 DEF Agrees
  <2>5. truths' = Append(truths, e) /\ truths \in Seq(Boole) /\ e \in Boole
    BY <1>2 DEF Compare, TypeOK, Boole, Truth
  <2> HIDE DEF e
  <2>6. Last(truths') = e
    BY <2>5 DEF Last
  <2> QED BY <2>4, <2>6
<1>3. TypeOK /\ [Next]_vars
      => [(\A op \in Operators : Same(op)) /\ (\A rel \in Relations : SameTruth(rel))]_vars
  BY <1>1, <1>2
<1> QED BY <1>3, ConstantsFit, PTL DEF Spec, FoldingFollowsExecution

-----------------------------------------------------------------------------
(* The axioms of the prelude.                                              *)

\* Each relation the program computes is that of the integers.
LEMMA RelationsAreTrue ==
  ASSUME NEW t \in Kind, NEW a \in ValuesOf(t), NEW b \in ValuesOf(t)
  PROVE  /\ Eq(t, a, b) <=> a = b
         /\ Neq(t, a, b) <=> a # b
         /\ Lt(t, a, b) <=> a < b
         /\ Lte(t, a, b) <=> a <= b
         /\ Gt(t, a, b) <=> a > b
         /\ Gte(t, a, b) <=> a >= b
<1>1. \A rel \in Relations : Compared(rel, t, a, b) = Related(rel, a, b)
  BY ComparingIsExecuting
<1>2. {"eq", "neq", "lt", "lte", "gt", "gte"} \subseteq Relations
  BY DEF Relations
<1>3. /\ Compared("eq", t, a, b) = Related("eq", a, b)
      /\ Compared("neq", t, a, b) = Related("neq", a, b)
      /\ Compared("lt", t, a, b) = Related("lt", a, b)
      /\ Compared("lte", t, a, b) = Related("lte", a, b)
      /\ Compared("gt", t, a, b) = Related("gt", a, b)
      /\ Compared("gte", t, a, b) = Related("gte", a, b)
  BY <1>1, <1>2
<1> QED BY <1>3 DEF Eq, Neq, Lt, Lte, Gt, Gte, Related

\* A number of the type is what it wraps to.
LEMMA WrappingKeeps ==
  ASSUME NEW t \in Kind, NEW v \in ValuesOf(t)
  PROVE  Wrapped(t, v) = v
<1>1. v \in Int /\ Modulus(t) \in Nat
  BY Values
<1>2. v = v + Modulus(t) * 0 /\ 0 \in Int
  BY <1>1
<1>3. Congruent(Modulus(t), v, v)
  BY <1>2 DEF Congruent
<1> QED BY <1>1, <1>3, Wrapping

\* The least and the greatest value of the type, and what is between.
LEMMA Bounds ==
  ASSUME NEW t \in Kind
  PROVE  /\ MinOf(t) \in ValuesOf(t) /\ MaxOf(t) \in ValuesOf(t)
         /\ \A v \in ValuesOf(t) : v \in Int /\ MinOf(t) <= v /\ v <= MaxOf(t)
         /\ \A v \in ValuesOf(t) : v < MaxOf(t) => v + 1 \in ValuesOf(t)
         /\ \A v \in ValuesOf(t) : v > MinOf(t) => v - 1 \in ValuesOf(t)
<1>1. t.half \in Nat \ {0} /\ t.signed \in BOOLEAN
  BY DEF Kind
<1>2. MinOf(t) \in Int /\ MaxOf(t) \in Int /\ MinOf(t) <= MaxOf(t)
  BY <1>1 DEF MinOf, MaxOf, Modulus
<1> QED BY <1>2 DEF ValuesOf

\* Below the greatest value adding one is exact, above the least subtracting.
LEMMA OneStepIsExact ==
  ASSUME NEW t \in Kind, NEW v \in ValuesOf(t)
  PROVE  /\ v < MaxOf(t) => Plus1(t, v) = v + 1
         /\ v > MinOf(t) => Minus1(t, v) = v - 1
<1>1. v < MaxOf(t) => Wrapped(t, v + 1) = v + 1
  BY Bounds, WrappingKeeps
<1>2. v > MinOf(t) => Wrapped(t, v - 1) = v - 1
  BY Bounds, WrappingKeeps
<1> QED BY <1>1, <1>2 DEF Plus1, Minus1, Executed

\* What the prelude claims of three numbers of one type.
LEMMA NumbersObey ==
  ASSUME NEW t \in Kind, NEW a \in ValuesOf(t), NEW b \in ValuesOf(t), NEW c \in ValuesOf(t)
  PROVE  Equalities(t, a, b, c) /\ Orders(t, a, b, c) /\ Steps(t, a, b)
<1>1. a \in Int /\ b \in Int /\ c \in Int
  BY Bounds
<1>2. Equalities(t, a, b, c)
  BY RelationsAreTrue DEF Equalities
<1>3. Orders(t, a, b, c)
  BY <1>1, RelationsAreTrue DEF Orders
<1>4. Steps(t, a, b)
  <2> DEFINE up == Plus1(t, a)
             down == Minus1(t, a)
  <2>1. MinOf(t) \in ValuesOf(t) /\ MinOf(t) \in Int /\ MaxOf(t) \in ValuesOf(t) /\ MaxOf(t) \in Int
    BY Bounds
  <2>2. MinOf(t) <= b /\ b <= MaxOf(t)
    BY Bounds
  <2>3. a < MaxOf(t) => up = a + 1 /\ up \in ValuesOf(t)
    BY Bounds, OneStepIsExact
  <2>4. a > MinOf(t) => down = a - 1 /\ down \in ValuesOf(t)
    BY Bounds, OneStepIsExact
  <2>5. /\ Lt(t, a, b) <=> a < b
        /\ Gt(t, a, b) <=> a > b
        /\ Lt(t, a, MaxOf(t)) <=> a < MaxOf(t)
        /\ Gt(t, a, MinOf(t)) <=> a > MinOf(t)
    BY <2>1, RelationsAreTrue
  <2>6. /\ up \in ValuesOf(t) => (Lte(t, up, b) <=> up <= b)
        /\ down \in ValuesOf(t) => (Gte(t, down, b) <=> down >= b)
    BY RelationsAreTrue
  <2> HIDE DEF up, down
  <2>7. /\ Lt(t, a, b) => Lte(t, up, b)
        /\ Lte(t, up, b) /\ Lt(t, a, MaxOf(t)) => Lt(t, a, b)
    BY <1>1, <2>1, <2>2, <2>3, <2>5, <2>6
  <2>8. /\ Gt(t, a, b) => Gte(t, down, b)
        /\ Gte(t, down, b) /\ Gt(t, a, MinOf(t)) => Gt(t, a, b)
    BY <1>1, <2>1, <2>2, <2>4, <2>5, <2>6
  <2> QED BY <2>7, <2>8 DEF Steps, up, down
<1> QED BY <1>2, <1>3, <1>4

-----------------------------------------------------------------------------
(* Truths.                                                                 *)

\* The connectives, for the four pairs of truths.
LEMMA ConnectivesCompute ==
  ASSUME NEW a \in {0, 1}, NEW b \in {0, 1}
  PROVE  /\ And(a, b) = (IF a = 1 /\ b = 1 THEN 1 ELSE 0)
         /\ Or(a, b) = (IF a = 1 \/ b = 1 THEN 1 ELSE 0)
         /\ Not(a) = (IF a = 1 THEN 0 ELSE 1)
         /\ Alike(a, b) = (IF a = b THEN 1 ELSE 0)
         /\ Differ(a, b) = (IF a = b THEN 0 ELSE 1)
         /\ Less(a, b) = (IF a = 0 /\ b = 1 THEN 1 ELSE 0)
         /\ LessEq(a, b) = (IF a = 1 /\ b = 0 THEN 0 ELSE 1)
         /\ More(a, b) = (IF a = 1 /\ b = 0 THEN 1 ELSE 0)
         /\ MoreEq(a, b) = (IF a = 0 /\ b = 1 THEN 0 ELSE 1)
<1>1. {"eq", "neq", "lt", "lte", "gt", "gte"} \subseteq Relations
  BY DEF Relations
<1>2. "and" \notin Relations /\ "or" \notin Relations
  BY DEF Relations
<1>3. /\ And(a, b) = (IF a = 1 /\ b = 1 THEN 1 ELSE 0)
      /\ Or(a, b) = (IF a = 1 \/ b = 1 THEN 1 ELSE 0)
      /\ Not(a) = (IF a = 1 THEN 0 ELSE 1)
  BY <1>2 DEF And, Or, Not, Joined, Truth
<1>4. /\ Joined("eq", a, b) <=> a = b
      /\ Joined("neq", a, b) <=> a # b
      /\ Joined("lt", a, b) <=> a < b
      /\ Joined("lte", a, b) <=> a <= b
      /\ Joined("gt", a, b) <=> a > b
      /\ Joined("gte", a, b) <=> a >= b
  BY <1>1 DEF Joined, Related
<1>5. /\ Alike(a, b) = (IF a = b THEN 1 ELSE 0)
      /\ Differ(a, b) = (IF a = b THEN 0 ELSE 1)
      /\ Less(a, b) = (IF a = 0 /\ b = 1 THEN 1 ELSE 0)
      /\ LessEq(a, b) = (IF a = 1 /\ b = 0 THEN 0 ELSE 1)
      /\ More(a, b) = (IF a = 1 /\ b = 0 THEN 1 ELSE 0)
      /\ MoreEq(a, b) = (IF a = 0 /\ b = 1 THEN 0 ELSE 1)
  BY <1>4 DEF Alike, Differ, Less, LessEq, More, MoreEq, Truth
<1> QED BY <1>3, <1>5

\* What the prelude claims of three truths.
LEMMA TruthsObey ==
  ASSUME NEW a \in {0, 1}, NEW b \in {0, 1}, NEW c \in {0, 1}
  PROVE  Logic(a, b, c) /\ Connectives(a, b, c) /\ Sameness(a, b, c) /\ TruthOrders(a, b, c)
<1>1. \A x \in {0, 1} : Not(x) \in {0, 1} /\ (Is(x) <=> x = 1) /\ (Is(Not(x)) <=> x = 0)
  BY ConnectivesCompute DEF Is
<1>2. \A x, y \in {0, 1} : /\ And(x, y) \in {0, 1} /\ (Is(And(x, y)) <=> x = 1 /\ y = 1)
                           /\ Or(x, y) \in {0, 1} /\ (Is(Or(x, y)) <=> x = 1 \/ y = 1)
  BY ConnectivesCompute DEF Is
<1>3. \A x, y \in {0, 1} : /\ Alike(x, y) \in {0, 1} /\ (Is(Alike(x, y)) <=> x = y)
                           /\ Differ(x, y) \in {0, 1} /\ (Is(Differ(x, y)) <=> x # y)
  BY ConnectivesCompute DEF Is
<1>4. \A x, y \in {0, 1} : /\ Less(x, y) \in {0, 1} /\ (Is(Less(x, y)) <=> x = 0 /\ y = 1)
                           /\ More(x, y) \in {0, 1} /\ (Is(More(x, y)) <=> x = 1 /\ y = 0)
  BY ConnectivesCompute DEF Is
<1>5. \A x, y \in {0, 1} : /\ LessEq(x, y) \in {0, 1} /\ (Is(LessEq(x, y)) <=> ~(x = 1 /\ y = 0))
                           /\ MoreEq(x, y) \in {0, 1} /\ (Is(MoreEq(x, y)) <=> ~(x = 0 /\ y = 1))
  BY ConnectivesCompute DEF Is
<1>6. 0 \in {0, 1} /\ 1 \in {0, 1} /\ 0 # 1
  OBVIOUS
<1>7. Logic(a, b, c)
  BY <1>1, <1>2, <1>6 DEF Logic
<1>8. Connectives(a, b, c)
  BY <1>1, <1>2, <1>6 DEF Connectives
<1>9. Sameness(a, b, c)
  BY <1>1, <1>3, <1>6 DEF Sameness
<1>10. TruthOrders(a, b, c)
  BY <1>1, <1>4, <1>5, <1>6 DEF TruthOrders
<1> QED BY <1>7, <1>8, <1>9, <1>10

-----------------------------------------------------------------------------
\* AxiomsAreTrue: for every width and signedness, what is on the stack of an
\* expression is within its type, and the axioms are true of such values.
THEOREM PreludeIsSound == Spec => []AxiomsAreTrue
<1>1. TypeOK => AxiomsAreTrue
  <2> SUFFICES ASSUME TypeOK PROVE AxiomsAreTrue
    OBVIOUS
  <2>1. ASSUME Len(stack) >= 3
        PROVE  \A n \in 1..3 : stack[n].executed \in ValuesOf(type)
    <3>1. stack \in Seq(Operand) /\ DOMAIN stack = 1..Len(stack) /\ Len(stack) \in Nat
      BY DEF TypeOK, Operand
    <3>2. \A n \in 1..3 : stack[n] \in Operand
      BY <2>1, <3>1
    <3> QED BY <3>2 DEF Operand
  <2>2. ASSUME Len(truths) >= 3
        PROVE  \A n \in 1..3 : truths[n].executed \in {0, 1}
    <3> DEFINE Pair == [folded : {0, 1}, executed : {0, 1}]
    <3>1. truths \in Seq(Pair) /\ DOMAIN truths = 1..Len(truths) /\ Len(truths) \in Nat
      BY DEF TypeOK
    <3> HIDE DEF Pair
    <3>2. \A n \in 1..3 : truths[n] \in Pair
      BY <2>2, <3>1
    <3> QED BY <3>2 DEF Pair
  <2>3. 1 \in 1..3 /\ 2 \in 1..3 /\ 3 \in 1..3
    OBVIOUS
  <2>4. Len(stack) >= 3 =>
          /\ Equalities(type, stack[1].executed, stack[2].executed, stack[3].executed)
          /\ Orders(type, stack[1].executed, stack[2].executed, stack[3].executed)
          /\ Steps(type, stack[1].executed, stack[2].executed)
    BY <2>1, <2>3, TypesAreKinds, NumbersObey
  <2>5. Len(truths) >= 3 =>
          /\ Logic(truths[1].executed, truths[2].executed, truths[3].executed)
          /\ Connectives(truths[1].executed, truths[2].executed, truths[3].executed)
          /\ Sameness(truths[1].executed, truths[2].executed, truths[3].executed)
          /\ TruthOrders(truths[1].executed, truths[2].executed, truths[3].executed)
    BY <2>2, <2>3, TruthsObey
  <2> QED BY <2>4, <2>5 DEF AxiomsAreTrue
<1> QED BY <1>1, ConstantsFit, PTL
=============================================================================
