------------------------- MODULE MCPaymentWebhooks -------------------------
(* Instances of PaymentWebhooks for TLC: a payment with the right amount, a *)
(* second notification of it (authorised and captured, say), one the        *)
(* gateway calls successful without an amount or a status we know, one with *)
(* a wrong amount, one whose CVV failed, one that the payment is pending    *)
(* and a refund.                                                            *)
EXTENDS PaymentWebhooks, TLC

CONSTANTS approved, again, silent, wrong, card, pending, refund

MCStatus == [n \in Notifications |->
  CASE n \in {approved, again, wrong, card} -> "paid"
    [] n = silent -> "other"
    [] n = pending -> "pending_payment"
    [] n = refund -> "refunded"]
MCSuccess == Notifications \cap {approved, again, silent, wrong, card}
MCAmount == [n \in Notifications |->
  CASE n \in {silent, refund} -> "none"
    [] n = wrong -> "differs"
    [] n \in {approved, again, card, pending} -> "equal"]
MCCardFails == Notifications \cap {card}

Symmetry == Permutations(Instances) \cup Permutations(Handlers)
=============================================================================
