------------------------------ MODULE MCWallet ------------------------------
(* Instances of Wallet for TLC: identical handlers may be permuted.         *)
EXTENDS Wallet, TLC

HandlerSymmetry == Permutations(Calls) \cup Permutations(Withdrawals)
=============================================================================
