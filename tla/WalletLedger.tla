---------------------------- MODULE WalletLedger ----------------------------
(***************************************************************************)
(* What the wallet promises: every movement of a trafficker's balance is   *)
(* posted, in the same step, as one ledger row that carries the balance    *)
(* before and after it, and no balance goes below zero.  The comments on   *)
(* processWithdrawal and recordTransaction in wallet.service.ts state this *)
(* contract; Wallet and Escrow are shown to implement it.                  *)
(***************************************************************************)
EXTENDS Integers, Sequences

CONSTANTS Traffickers

VARIABLES balance,  \* Trafficker.walletBalance
          ledger    \* per trafficker, the rows posted, oldest first

LInit == /\ balance = [t \in Traffickers |-> 0]
         /\ ledger = [t \in Traffickers |-> <<>>]

(* The new balance is any natural number, and the row posted names the old  *)
(* and the new one.                                                         *)
Post(t) ==
  /\ balance'[t] \in Nat
  /\ balance' = [balance EXCEPT ![t] = balance'[t]]
  /\ ledger' = [ledger EXCEPT ![t] =
                  Append(@, [before |-> balance[t], after |-> balance'[t]])]

LNext == \E t \in Traffickers : Post(t)

LSpec == LInit /\ [][LNext]_<<balance, ledger>>
=============================================================================
