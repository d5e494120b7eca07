---------------------------- MODULE RefundLedger ----------------------------
(***************************************************************************)
(* What the Refund ledger of one order promises, without routes or their   *)
(* steps: a row keeps the amount it was asked for, the gateway gives it    *)
(* back once and in that amount, within the order's total; a row that was  *)
(* paid stays in the ledger, and the order is marked refunded only after   *)
(* something was given back.  The header of refund/route.ts states it.     *)
(***************************************************************************)
EXTENDS Integers

CONSTANTS Rows, Total

VARIABLES
  status,         \* Refund.status by row
  amount,         \* Refund.amount by row
  gateway,        \* what the gateway has given back
  moved,          \* rows it gave back
  paymentStatus   \* Order.paymentStatus

lvars == <<status, amount, gateway, moved, paymentStatus>>

LInit ==
  /\ status = [r \in Rows |-> "absent"] /\ amount = [r \in Rows |-> 0]
  /\ gateway = 0 /\ moved = {} /\ paymentStatus = "paid"

Ask(r, a) ==
  /\ status[r] = "absent"
  /\ status' = [status EXCEPT ![r] = "pending"]
  /\ amount' = [amount EXCEPT ![r] = a]
  /\ UNCHANGED <<gateway, moved, paymentStatus>>

GiveBack(r) ==
  /\ status[r] \in {"pending", "processed"} /\ r \notin moved
  /\ gateway + amount[r] <= Total
  /\ gateway' = gateway + amount[r]
  /\ moved' = moved \cup {r}
  /\ UNCHANGED <<status, amount, paymentStatus>>

(* The routes that keep no row give back too, within the same total.        *)
GiveBackUnrecorded(a) ==
  /\ gateway + a <= Total
  /\ gateway' = gateway + a
  /\ UNCHANGED <<status, amount, moved, paymentStatus>>

Settle(r) ==
  /\ gateway > 0 /\ status[r] # "absent"
  /\ status' = [status EXCEPT ![r] = "processed"]
  /\ paymentStatus' \in {paymentStatus, "refunded"}
  /\ UNCHANGED <<amount, gateway, moved>>

Refuse(r) ==
  /\ status[r] \in {"pending", "processed"} /\ r \notin moved
  /\ status' = [status EXCEPT ![r] = "failed"]
  /\ UNCHANGED <<amount, gateway, moved, paymentStatus>>

(* A refund that the gateway began gets a row, of what it has given back.   *)
Register(r, a) ==
  /\ status[r] = "absent" /\ a <= gateway
  /\ status' = [status EXCEPT ![r] = "processed"]
  /\ amount' = [amount EXCEPT ![r] = a]
  /\ UNCHANGED <<gateway, moved, paymentStatus>>

Mark ==
  /\ gateway > 0
  /\ paymentStatus' = "refunded"
  /\ UNCHANGED <<status, amount, gateway, moved>>

LNext ==
  \/ \E r \in Rows : GiveBack(r) \/ Settle(r) \/ Refuse(r)
  \/ \E r \in Rows, a \in 1..Total : Ask(r, a) \/ Register(r, a)
  \/ \E a \in 1..Total : GiveBackUnrecorded(a)
  \/ Mark

LSpec == LInit /\ [][LNext]_lvars
=============================================================================
