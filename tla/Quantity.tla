------------------------------ MODULE Quantity ------------------------------
(* dep0::ast::qty_t: how often something may be, or is, used.               *)
EXTENDS Naturals

zero == 0
one  == 1
many == 2

Qty == {zero, one, many}

\* operator+ and operator*: min(2, x + y) and min(2, x * y).
Plus(a, b)  == IF a + b < many THEN a + b ELSE many
Times(a, b) == IF a * b < many THEN a * b ELSE many

QtyMax(a, b) == IF a < b THEN b ELSE a
=============================================================================
