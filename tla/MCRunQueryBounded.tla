------------------------- MODULE MCRunQueryBounded -------------------------
(***************************************************************************)
(* Finite instances of RunQueryBounded, in units that keep the proportions   *)
(* of BigQuery's prices: a MiB of 18 bytes costs six micro-dollars of three  *)
(* bytes each (5.96 in fact), and the smallest bill is two MiB.              *)
(***************************************************************************)
EXTENDS RunQueryBounded

\* Below, at and above the minimum and the steps of the bill, with the sizes
\* that the rounding of the dollar figure brings back to a cap.
MCSizes    == {0, 17, 36, 37, 54, 55, 90}
MCUsdCaps  == {0, 35, 50, 54, 120}
MCByteCaps == {0, 36, 71, 107, 108}
MCFigures  == {0, 54, 60}

=============================================================================
