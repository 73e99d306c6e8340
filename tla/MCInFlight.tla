----------------------------- MODULE MCInFlight -----------------------------
(***************************************************************************)
(* Finite instances of InFlight.                                           *)
(***************************************************************************)
EXTENDS InFlight, TLC

CallSymmetry == Permutations(Calls)

=============================================================================
