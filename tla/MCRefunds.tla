----------------------------- MODULE MCRefunds -----------------------------
(* Instances of Refunds for TLC.                                            *)
EXTENDS Refunds, TLC

Symmetry == Permutations(Handlers) \cup Permutations(Reasons)
=============================================================================
