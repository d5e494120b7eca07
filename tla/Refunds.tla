------------------------------ MODULE Refunds ------------------------------
(***************************************************************************)
(* Everything that gives money back for one order: the refund route of the *)
(* back office, the ACP refund route, the consumer's retracto, the         *)
(* refund-retry job and the gateway's notification of a refund.  They share*)
(* the order, its Refund ledger and the gateway, and interleave at every   *)
(* await.                                                                  *)
(***************************************************************************)
EXTENDS Integers, FiniteSetsExt

CONSTANTS
  Total,         \* Order.total
  Amounts,       \* partial amounts asked for
  Reasons,       \* REFUND_REASONS
  Handlers,      \* requests, notifications and jobs in progress at once
  Routes,        \* which of AllRoutes are in use
  OwnRefs,       \* the adapter returns the refund's own id (Stripe) and not
                 \* the id of the payment (Mercado Pago, Wompi, PayU)
  Serializable,  \* transactions run one at a time (SQLite)
  LostAnswers,   \* the gateway's answer may be lost after it refunded
  MaxRows        \* bound: Refund rows of the order

AllRoutes == {"admin", "acp", "retracto", "retry", "notified"}
Rows == 1..MaxRows

ASSUME RefundAssumption ==
  /\ Total \in Nat \ {0}
  /\ Amounts \subseteq 1..Total
  /\ Routes \subseteq AllRoutes
  /\ OwnRefs \in BOOLEAN /\ Serializable \in BOOLEAN /\ LostAnswers \in BOOLEAN
  /\ MaxRows \in Nat
  /\ "gateway_initiated" \notin Reasons

VARIABLES
  paymentStatus,  \* Order.paymentStatus
  orderStatus,    \* Order.status
  status,         \* Refund.status by row
  detail,         \* Refund.amount and Refund.reason by row
  ref,            \* Refund.gatewayRef by row
  failed,         \* a refund_failed OrderEvent names the order
  step,           \* where each handler is
  route,          \* what each handler is
  ask,            \* what it asks for: amount, reason, partial
  mine,           \* the row it created, or found: 0 if none
  gateway,        \* what the gateway has given back
  moved,          \* history: rows whose refund the gateway accepted
  retractos       \* history: retractos accepted

ledger   == <<status, detail, ref>>
handler  == <<step, route, ask, mine>>
external == <<gateway, moved>>
vars == <<paymentStatus, orderStatus, ledger, failed, handler, external, retractos>>

RowStatuses == {"absent", "pending", "processed", "failed", "cancelled"}
Counting    == {"pending", "processed"}
Steps == {"idle", "find twin", "insert", "cancel", "gateway", "accepted", "refused",
          "record", "supersede", "find", "sync", "create", "mark"}

(* "own": an id no other row has; the id of the payment or of Stripe's      *)
(* charge is the same for every refund of the order.                        *)
Refs == {"none", "own", "payment"}

TypeOK ==
  /\ paymentStatus \in {"paid", "refunded"}
  /\ orderStatus \in {"confirmed", "cancelled", "returned"}
  /\ status \in [Rows -> RowStatuses]
  /\ detail \in [Rows -> [amount: 0..Total, reason: Reasons \cup {"none", "gateway_initiated"}]]
  /\ ref \in [Rows -> Refs]
  /\ failed \in BOOLEAN
  /\ step \in [Handlers -> Steps]
  /\ route \in [Handlers -> AllRoutes]
  /\ ask \in [Handlers -> [amount: 0..Total, reason: Reasons \cup {"none"}, partial: BOOLEAN]]
  /\ mine \in [Handlers -> Rows \cup {0}]
  /\ gateway \in 0..Total
  /\ moved \subseteq Rows
  /\ retractos \in Nat

(* The order has been paid.                                                 *)
Init ==
  /\ paymentStatus = "paid" /\ orderStatus = "confirmed"
  /\ status = [r \in Rows |-> "absent"]
  /\ detail = [r \in Rows |-> [amount |-> 0, reason |-> "none"]]
  /\ ref = [r \in Rows |-> "none"]
  /\ failed = FALSE
  /\ step = [h \in Handlers |-> "idle"]
  /\ route = [h \in Handlers |-> "admin"]
  /\ ask = [h \in Handlers |-> [amount |-> 0, reason |-> "none", partial |-> FALSE]]
  /\ mine = [h \in Handlers |-> 0]
  /\ gateway = 0 /\ moved = {} /\ retractos = 0

Sum(rows) == MapThenSumSet(LAMBDA r : detail[r].amount, rows)
Outstanding == Sum({r \in Rows : status[r] \in Counting})

GoTo(h, s) == step' = [step EXCEPT ![h] = s]

(* A handler begins as one of the routes in use.                            *)
Begin(h, name, s, asked) ==
  /\ step[h] = "idle" /\ name \in Routes
  /\ GoTo(h, s)
  /\ route' = [route EXCEPT ![h] = name]
  /\ ask' = [ask EXCEPT ![h] = asked]
  /\ mine' = [mine EXCEPT ![h] = 0]

Asked(amount, reason, partial) == [amount |-> amount, reason |-> reason, partial |-> partial]
Full == Asked(Total, "none", FALSE)

-----------------------------------------------------------------------------
(* "pending refunds reserve the budget"                                     *)
WithinRemaining(amount) == amount <= Total - Outstanding

(* POST /orders/[id]/refund: the order and its refunds are read, the state  *)
(* and the amount checked.                                                  *)
AskRefund(h, amount, reason, partial) ==
  /\ paymentStatus = "paid"
  /\ partial \/ amount = Total
  /\ WithinRemaining(amount)
  /\ Begin(h, "admin", "find twin", Asked(amount, reason, partial))
  /\ UNCHANGED <<paymentStatus, orderStatus, ledger, failed, external, retractos>>

Twin(h) == {r \in Rows : /\ status[r] \in Counting
                         /\ detail[r].amount = ask[h].amount
                         /\ detail[r].reason = ask[h].reason}

(* Mutant: only refunds that were processed count as duplicates.            *)
TwinProcessed(h) == {r \in Twin(h) : status[r] = "processed"}

Duplicates(h) == Twin(h)

(* The transaction's findFirst: a duplicate is answered with what exists.   *)
FindTwin(h) ==
  /\ step[h] = "find twin"
  /\ Serializable => \A g \in Handlers : step[g] # "insert"
  /\ GoTo(h, IF Duplicates(h) = {} THEN "insert" ELSE "idle")
  /\ UNCHANGED <<paymentStatus, orderStatus, ledger, failed, route, ask, mine,
                 external, retractos>>

NewRow(r) == status[r] = "absent" /\ \A q \in 1..(r - 1) : status[q] # "absent"

(* ... and its create.                                                      *)
Insert(h, r) ==
  /\ step[h] = "insert"
  /\ NewRow(r)
  /\ status' = [status EXCEPT ![r] = "pending"]
  /\ detail' = [detail EXCEPT ![r] = [amount |-> ask[h].amount, reason |-> ask[h].reason]]
  /\ mine' = [mine EXCEPT ![h] = r]
  /\ GoTo(h, "gateway")
  /\ UNCHANGED <<paymentStatus, orderStatus, ref, failed, route, ask, external, retractos>>

-----------------------------------------------------------------------------
(* Mutant: the gateway is not told how much, and gives all of it back.      *)
ChargesAll(h) == Total

Charge(h) == ask[h].amount

(* adapter.refund: the gateway gives back no more than it received.  Its    *)
(* answer may be lost, which the adapter reports as a failure.              *)
GatewayAccepts(h) ==
  /\ step[h] = "gateway"
  /\ gateway + Charge(h) <= Total
  /\ gateway' = gateway + Charge(h)
  /\ moved' = moved \cup (IF mine[h] = 0 THEN {} ELSE {mine[h]})
  /\ \/ GoTo(h, "accepted")
     \/ LostAnswers /\ GoTo(h, "refused")
  /\ UNCHANGED <<paymentStatus, orderStatus, ledger, failed, route, ask, mine, retractos>>

GatewayRefuses(h) ==
  /\ step[h] = "gateway"
  /\ GoTo(h, "refused")
  /\ UNCHANGED <<paymentStatus, orderStatus, ledger, failed, route, ask, mine,
                 external, retractos>>

-----------------------------------------------------------------------------
(* The refund route after a success: is there another row with the same     *)
(* gatewayRef?                                                              *)
SameRef(h) == IF OwnRefs THEN {} ELSE {r \in Rows \ {mine[h]} : ref[r] = "payment"}

CheckRef(h) ==
  /\ step[h] = "accepted" /\ route[h] = "admin"
  /\ GoTo(h, IF SameRef(h) = {} THEN "record" ELSE "supersede")
  /\ UNCHANGED <<paymentStatus, orderStatus, ledger, failed, route, ask, mine,
                 external, retractos>>

(* If there is, this refund's row is cancelled.                             *)
Supersede(h) ==
  /\ step[h] = "supersede"
  /\ \E r \in SameRef(h) :
       status' = [status EXCEPT ![mine[h]] = "cancelled",
                                ![r] = IF @ = "pending" THEN "processed" ELSE @]
  /\ GoTo(h, "idle")
  /\ UNCHANGED <<paymentStatus, orderStatus, detail, ref, failed, route, ask, mine,
                 external, retractos>>

(* Mutants: a refund is recorded under another name, or as cancelled.       *)
RecordMisnamed(h) == "completed"
RecordCancelled(h) == "cancelled"

Recorded(h) == "processed"

(* Mutant: a partial refund marks the order too.                            *)
MarksAlways(h) == TRUE

Marks(h) == ~ask[h].partial

(* If not, it is processed, and a full refund marks the order.              *)
Record(h) ==
  /\ step[h] = "record"
  /\ status' = [status EXCEPT ![mine[h]] = Recorded(h)]
  /\ ref' = [ref EXCEPT ![mine[h]] = IF OwnRefs THEN "own" ELSE "payment"]
  /\ paymentStatus' = IF Marks(h) THEN "refunded" ELSE paymentStatus
  /\ GoTo(h, "idle")
  /\ UNCHANGED <<orderStatus, detail, failed, route, ask, mine, external, retractos>>

(* The row fails whatever it has become, and an event is written whose note *)
(* may name the order (the operator's free text).                           *)
RecordFailure(h) ==
  /\ step[h] = "refused" /\ route[h] = "admin"
  /\ status' = [status EXCEPT ![mine[h]] = "failed"]
  /\ failed' \in {failed, TRUE}
  /\ GoTo(h, "idle")
  /\ UNCHANGED <<paymentStatus, orderStatus, detail, ref, route, ask, mine,
                 external, retractos>>

-----------------------------------------------------------------------------
(* POST /acp/v1/refunds: no Refund row, and no look at the refunds made.    *)
AskAcp(h, amount) ==
  /\ paymentStatus = "paid"
  /\ Begin(h, "acp", "gateway", Asked(amount, "none", amount < Total))
  /\ UNCHANGED <<paymentStatus, orderStatus, ledger, failed, external, retractos>>

FinishAcp(h) ==
  /\ step[h] \in {"accepted", "refused"} /\ route[h] = "acp"
  /\ IF step[h] = "accepted"
     THEN paymentStatus' = "refunded" /\ orderStatus' = "returned"
     ELSE UNCHANGED <<paymentStatus, orderStatus>>
  /\ GoTo(h, "idle")
  /\ UNCHANGED <<ledger, failed, route, ask, mine, external, retractos>>

(* processRetracto, inside its window, reads the order ...                  *)
AskRetracto(h) ==
  /\ orderStatus # "cancelled"
  /\ Begin(h, "retracto", "cancel",
           IF paymentStatus = "paid" THEN Full ELSE Asked(0, "none", FALSE))
  /\ UNCHANGED <<paymentStatus, orderStatus, ledger, failed, external, retractos>>

(* ... cancels it in a transaction, and if it had read it as paid goes on to*)
(* refund it.                                                               *)
CancelOrder(h) ==
  /\ step[h] = "cancel"
  /\ orderStatus' = "cancelled"
  /\ retractos' = retractos + 1
  /\ GoTo(h, IF ask[h].amount > 0 THEN "gateway" ELSE "idle")
  /\ UNCHANGED <<paymentStatus, ledger, failed, route, ask, mine, external>>

MarkRefunded(h) == step[h] = "accepted"

FinishRetracto(h) ==
  /\ step[h] \in {"accepted", "refused"} /\ route[h] = "retracto"
  /\ paymentStatus' = IF MarkRefunded(h) THEN "refunded" ELSE paymentStatus
  /\ failed' \in (IF step[h] = "refused" THEN {failed, TRUE} ELSE {failed})
  /\ GoTo(h, "idle")
  /\ UNCHANGED <<orderStatus, ledger, route, ask, mine, external, retractos>>

(* The refund-retry job refunds the whole order, and on success takes its   *)
(* event out of the way; it gives up after five failures.                   *)
AskRetry(h) ==
  /\ failed
  /\ Begin(h, "retry", "gateway", Full)
  /\ UNCHANGED <<paymentStatus, orderStatus, ledger, failed, external, retractos>>

FinishRetry(h) ==
  /\ step[h] \in {"accepted", "refused"} /\ route[h] = "retry"
  /\ failed' \in {failed, FALSE}
  /\ GoTo(h, "idle")
  /\ UNCHANGED <<paymentStatus, orderStatus, ledger, route, ask, mine, external, retractos>>

-----------------------------------------------------------------------------
(* The gateway notifies a refund, perhaps again, with the total it has given*)
(* back.  applyPaymentUpdate marks the order first, whatever the amount.    *)
Notify(h) ==
  /\ gateway > 0
  /\ Begin(h, "notified", "find", Asked(gateway, "none", FALSE))
  /\ paymentStatus' = IF OwnRefs THEN paymentStatus ELSE "refunded"
  /\ UNCHANGED <<orderStatus, ledger, failed, external, retractos>>

(* The newest row with the payment's reference, or pending.                 *)
Match == {r \in Rows : status[r] # "absent" /\ (ref[r] = "payment" \/ status[r] = "pending")}

Newest(rows) == {r \in rows : \A q \in rows : q <= r}

AfterSync == IF OwnRefs THEN "mark" ELSE "idle"

FindRow(h) ==
  /\ step[h] = "find"
  /\ IF \E r \in Newest(Match) : status[r] = "pending"
     THEN (\E r \in Newest(Match) : mine' = [mine EXCEPT ![h] = r]) /\ GoTo(h, "sync")
     ELSE UNCHANGED mine /\ GoTo(h, IF Match = {} /\ OwnRefs THEN "create" ELSE AfterSync)
  /\ UNCHANGED <<paymentStatus, orderStatus, ledger, failed, route, ask, external, retractos>>

SyncRow(h) ==
  /\ step[h] = "sync"
  /\ status' = [status EXCEPT ![mine[h]] = "processed"]
  /\ ref' = [ref EXCEPT ![mine[h]] = IF @ = "none" THEN "payment" ELSE @]
  /\ GoTo(h, AfterSync)
  /\ UNCHANGED <<paymentStatus, orderStatus, detail, failed, route, ask, mine,
                 external, retractos>>

(* Stripe's charge.refunded: a refund nobody here started gets a row.       *)
CreateRow(h, r) ==
  /\ step[h] = "create" /\ NewRow(r)
  /\ status' = [status EXCEPT ![r] = "processed"]
  /\ ref' = [ref EXCEPT ![r] = "payment"]
  /\ detail' = [detail EXCEPT ![r] = [amount |-> ask[h].amount, reason |-> "gateway_initiated"]]
  /\ GoTo(h, AfterSync)
  /\ UNCHANGED <<paymentStatus, orderStatus, failed, route, ask, mine, external, retractos>>

MarkNotified(h) ==
  /\ step[h] = "mark"
  /\ paymentStatus' = "refunded"
  /\ GoTo(h, "idle")
  /\ UNCHANGED <<orderStatus, ledger, failed, route, ask, mine, external, retractos>>

(* The process stops, or a read or write throws, between any two steps.     *)
Abort(h) ==
  /\ step[h] # "idle"
  /\ GoTo(h, "idle")
  /\ UNCHANGED <<paymentStatus, orderStatus, ledger, failed, route, ask, mine,
                 external, retractos>>

Admin(h) ==
  \/ \E amount \in Amounts \cup {Total}, reason \in Reasons, partial \in BOOLEAN :
       AskRefund(h, amount, reason, partial)
  \/ FindTwin(h) \/ \E r \in Rows : Insert(h, r)
  \/ CheckRef(h) \/ Supersede(h) \/ Record(h) \/ RecordFailure(h)

Others(h) ==
  \/ \E amount \in Amounts \cup {Total} : AskAcp(h, amount)
  \/ AskRetracto(h) \/ CancelOrder(h) \/ AskRetry(h)
  \/ FinishAcp(h) \/ FinishRetracto(h) \/ FinishRetry(h)

Notified(h) ==
  \/ Notify(h) \/ FindRow(h) \/ SyncRow(h) \/ MarkNotified(h)
  \/ \E r \in Rows : CreateRow(h, r)

Next == \E h \in Handlers :
  Admin(h) \/ Others(h) \/ Notified(h) \/ GatewayAccepts(h) \/ GatewayRefuses(h) \/ Abort(h)

Spec == Init /\ [][Next]_vars

-----------------------------------------------------------------------------
(* A double click does not refund twice: of one amount and reason at most   *)
(* one refund counts (refund/route.ts:215).                                 *)
NoTwinRefunds ==
  \A q, r \in Rows :
    status[q] \in Counting /\ status[r] \in Counting /\ detail[q] = detail[r]
    /\ detail[q].reason \in Reasons => q = r

(* "pending refunds reserve the budget so a concurrent operator can't       *)
(* double-spend" (refund/route.ts:154).                                     *)
LedgerWithinTotal == Outstanding <= Total

(* The row is persisted before the gateway is called (refund/route.ts:201): *)
(* what the gateway gave back still counts in the ledger, whoever crashed.  *)
MoneyIsRecorded == \A r \in moved : status[r] \in Counting

(* "no duplicate Refund row is ever persisted"                              *)
(* (payment-webhook-utils.ts:380): the rows processed were all given back.  *)
ProcessedWasPaid == Sum({r \in Rows : status[r] = "processed"}) <= gateway

(* The write of the admin's route after a notification "is idempotent"      *)
(* (payment-webhook-utils.ts:370): a processed refund stays processed.      *)
(* Violated: a request whose answer was lost sets its row to failed,        *)
(* whatever a notification has made of it (see KeepsLedger for what holds). *)
ProcessedStays ==
  [][\A r \in Rows : status[r] = "processed" => status'[r] = "processed"]_vars

(* "Order is already fully refunded" is the answer for a refunded order     *)
(* (refund/route.ts:147): where neither the ACP route nor a notification    *)
(* marks it for a partial refund, all of it went back.                      *)
RefundedMeansFully == paymentStatus = "refunded" => gateway = Total

(* An order is never marked refunded when nothing was given back, whichever *)
(* routes race for it.  KeepsLedger implies it where that holds.            *)
RefundedMeansPaidBack == paymentStatus = "refunded" => gateway > 0

(* processRetracto: "Reject if already cancelled", steps 1-4 "inside a      *)
(* single DB transaction" (retracto.ts:75).                                 *)
RetractoOnce == retractos <= 1

Ledger == INSTANCE RefundLedger WITH amount <- [r \in Rows |-> detail[r].amount]

(* Where the gateway names every refund and its answers arrive, the routes, *)
(* the job and the notifications implement RefundLedger together            *)
(* (refund/route.ts:18-29, payment-webhook-utils.ts:369-381).               *)
KeepsLedger == Ledger!LSpec
=============================================================================
