------------------------- MODULE MCConstantFolding --------------------------
(* The widths 8, 16 and 32 scaled to a quarter, and int with them; 64 is to  *)
(* int as 32 is.  The literals are those around the boundaries, in range     *)
(* and out of it.                                                            *)
EXTENDS Prelude

MCTypes == [signed : BOOLEAN, half : {2, 8, 128}]
MCIntMax == 127
MCLiterals == {-129, -128, -8, -3, -2, -1, 0, 1, 2, 3, 7, 8, 15, 16, 127, 128, 255, 256}

\* The numbers of testfiles/0019_div_expr/pass_001.depc, 2 / -1, in 8 bits and
\* in either order.
MCTestTypes == [signed : {TRUE}, half : {128}]
MCTestLiterals == {2, -1}
=============================================================================
