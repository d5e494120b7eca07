------------------------------ MODULE MCEscrow ------------------------------
(* Instances of Escrow for TLC.                                             *)
EXTENDS Escrow, TLC

Symmetry == Permutations(Orders) \cup Permutations(Calls)
=============================================================================
