-------------------------- MODULE PaymentWebhooks --------------------------
(***************************************************************************)
(* Payment notifications of the gateways (app/api/webhooks), their two     *)
(* layers of deduplication (middleware/idempotency.ts) and what they do to *)
(* an order (adapters/payment-webhook-utils.ts).  One order: notifications *)
(* of different orders share nothing but the maps keyed by notification.   *)
(*                                                                         *)
(* A gateway repeats a notification, delays it, and sends it to any        *)
(* instance of the application; handlers interleave at every await.        *)
(***************************************************************************)
EXTENDS Naturals, FiniteSets

CONSTANTS
  Notifications,   \* distinct signed bodies (their hash is the webhookId)
  Status,          \* status each notification reports, normalised
  Success,         \* notifications whose handler passes success: true
  Amount,          \* what each says of the amount: see Amounts
  CardFails,       \* notifications whose CVV or AVS result is 'N'
  Instances,       \* running instances of the application
  Handlers,        \* requests that may be in progress at the same time
  TTLElapses,      \* deduplication entries may grow older than their TTL
  MaxApplied       \* bound: notifications applied in a behaviour

(* normalizePaymentStatus; "other" is a gateway status it does not know.    *)
Reported == {"paid", "rejected", "refunded", "pending_payment", "other"}

(* A finite amount within 1% of the order's total or further from it, or    *)
(* none that can be compared: absent, not finite, or an order without total.*)
Amounts == {"equal", "differs", "none"}

ASSUME WebhookAssumption ==
  /\ Status \in [Notifications -> Reported]
  /\ Success \subseteq Notifications
  /\ Amount \in [Notifications -> Amounts]
  /\ CardFails \subseteq Notifications
  /\ TTLElapses \in BOOLEAN
  /\ MaxApplied \in Nat

VARIABLES
  paymentStatus,  \* Order.paymentStatus
  paidAt,         \* Order.paidAt is set
  seen,           \* by instance: processedWebhooks, the in-memory map
  audited,        \* notifications with an AuditLog row younger than its TTL
  step,           \* where each handler is
  work,           \* <<instance, notification>> of each handler
  read,           \* what it read of the order: wasAlreadyPaid, paidAt
  firing,         \* by instance: fireCapiPurchaseEvent calls in flight
  applied,        \* history: times each notification was written to the order
  transitions,    \* history: times the order became paid
  fired,          \* history: CAPI Purchase events recorded for the order
  sound           \* history: a payment that nothing contradicts was written

order   == <<paymentStatus, paidAt>>
dedup   == <<seen, audited>>
history == <<applied, transitions, fired, sound>>
vars    == <<order, dedup, step, work, read, firing, history>>

Steps == {"idle", "audit lookup", "order lookup", "write", "audit"}
OrderStatuses == Reported \cup {"unpaid", "payment_mismatch"}

TypeOK ==
  /\ paymentStatus \in OrderStatuses
  /\ paidAt \in BOOLEAN
  /\ seen \in [Instances -> SUBSET Notifications]
  /\ audited \subseteq Notifications
  /\ step \in [Handlers -> Steps]
  /\ work \in [Handlers -> Instances \X Notifications]
  /\ read \in [Handlers -> [paid: BOOLEAN, dated: BOOLEAN]]
  /\ firing \in [Instances -> Nat]
  /\ applied \in [Notifications -> Nat]
  /\ transitions \in Nat /\ fired \in Nat
  /\ sound \in BOOLEAN

Init ==
  /\ paymentStatus = "unpaid" /\ paidAt = FALSE
  /\ seen = [i \in Instances |-> {}] /\ audited = {}
  /\ step = [h \in Handlers |-> "idle"]
  /\ work \in [Handlers -> Instances \X Notifications]
  /\ read = [h \in Handlers |-> [paid |-> FALSE, dated |-> FALSE]]
  /\ firing = [i \in Instances |-> 0]
  /\ applied = [n \in Notifications |-> 0]
  /\ transitions = 0 /\ fired = 0 /\ sound = FALSE

Instance(h)     == work[h][1]
Notification(h) == work[h][2]

(* shouldMarkPaid: "success || newStatus === 'paid'".                       *)
Approved(n) == n \in Success \/ Status[n] = "paid"

(* What the code compares says the payment is wrong.  The currency is not   *)
(* compared, and an amount that is not reported contradicts nothing.        *)
Contradicted(n) == n \in CardFails \/ Amount[n] = "differs"

GoTo(h, s) == step' = [step EXCEPT ![h] = s]

-----------------------------------------------------------------------------
(* Mutant: isDuplicateWebhook does not record the notification.             *)
RememberNothing(i, n) == UNCHANGED seen

(* isDuplicateWebhook records what it has not seen, in one synchronous call.*)
Remember(i, n) == seen' = [seen EXCEPT ![i] = @ \cup {n}]

(* A signed notification arrives; one the instance remembers is answered as *)
(* a duplicate.                                                             *)
Receive(h, i, n) ==
  /\ step[h] = "idle"
  /\ n \notin seen[i]
  /\ Remember(i, n)
  /\ work' = [work EXCEPT ![h] = <<i, n>>]
  /\ GoTo(h, "audit lookup")
  /\ UNCHANGED <<order, audited, read, firing, history>>

(* isDuplicateWebhookDB; a query that fails counts as not found.            *)
LookUpAudit(h) ==
  /\ step[h] = "audit lookup"
  /\ \/ Notification(h) \in audited /\ GoTo(h, "idle")
     \/ GoTo(h, "order lookup")
  /\ UNCHANGED <<order, dedup, work, read, firing, history>>

(* applyPaymentUpdate reads the order, outside any transaction; a failed    *)
(* read is swallowed.                                                       *)
LookUpOrder(h) ==
  /\ step[h] = "order lookup"
  /\ \/ /\ GoTo(h, "write")
        /\ read' = [read EXCEPT ![h] = [paid |-> paymentStatus = "paid", dated |-> paidAt]]
     \/ GoTo(h, "audit") /\ UNCHANGED read
  /\ UNCHANGED <<order, dedup, work, firing, history>>

(* Mutant: the amount and card checks are skipped.                          *)
NeverRefused(h) == FALSE

(* A payment that would make the order paid is refused when its CVV or AVS  *)
(* result is 'N' or it reports an amount that differs from the total; an    *)
(* order read as paid is not checked again.                                 *)
Refused(h) ==
  /\ Approved(Notification(h))
  /\ ~read[h].paid
  /\ Contradicted(Notification(h))

(* Mutant: a refused payment leaves a status that is none of the order's.   *)
WriteOtherMismatch(h) ==
  /\ step[h] = "write" /\ Refused(h)
  /\ paymentStatus' = "mismatch"
  /\ GoTo(h, "audit")
  /\ UNCHANGED <<paidAt, dedup, work, read, firing, history>>

WriteMismatch(h) ==
  /\ step[h] = "write" /\ Refused(h)
  /\ paymentStatus' = "payment_mismatch"
  /\ GoTo(h, "audit")
  /\ UNCHANGED <<paidAt, dedup, work, read, firing, history>>

(* Mutant: paidAt is always what was read.                                  *)
KeepPaidAt(h) == read[h].dated

(* "paidAt: shouldMarkPaid && !wasAlreadyPaid ? new Date() : order.paidAt"  *)
StampPaidAt(h) == read[h].dated \/ (Approved(Notification(h)) /\ ~read[h].paid)

(* The main transaction, and the CAPI call it starts when the order had not *)
(* been read as paid.                                                       *)
Apply(h) ==
  LET n == Notification(h) i == Instance(h) IN
  /\ step[h] = "write" /\ ~Refused(h)
  /\ applied[n] < MaxApplied
  /\ paymentStatus' = IF Approved(n) THEN "paid" ELSE Status[n]
  /\ paidAt' = StampPaidAt(h)
  /\ applied' = [applied EXCEPT ![n] = @ + 1]
  /\ transitions' = IF Approved(n) /\ paymentStatus # "paid"
                    THEN transitions + 1 ELSE transitions
  /\ sound' = (sound \/ (Approved(n) /\ ~Contradicted(n)))
  /\ firing' = [firing EXCEPT ![i] =
       IF Approved(n) /\ ~read[h].paid THEN @ + 1 ELSE @]
  /\ GoTo(h, "audit")
  /\ UNCHANGED <<dedup, work, read, fired>>

(* Either transaction fails: rolled back, logged, and answered with 200.    *)
WriteFails(h) ==
  /\ step[h] = "write"
  /\ GoTo(h, "audit")
  /\ UNCHANGED <<order, dedup, work, read, firing, history>>

(* safeAudit stores the webhookId after the update, if it can.              *)
Audit(h) ==
  /\ step[h] = "audit"
  /\ audited' \in {audited, audited \cup {Notification(h)}}
  /\ GoTo(h, "idle")
  /\ UNCHANGED <<order, seen, work, read, firing, history>>

(* fireCapiPurchaseEvent, not awaited by the handler: the ConversionEvent   *)
(* rows are created and the job enqueued, or the error is swallowed.        *)
FireCapi(i) ==
  /\ firing[i] > 0
  /\ firing' = [firing EXCEPT ![i] = @ - 1]
  /\ fired' \in {fired, fired + 1}
  /\ UNCHANGED <<order, dedup, step, work, read, applied, transitions, sound>>

-----------------------------------------------------------------------------
WorksOn(h, i, n) == step[h] # "idle" /\ work[h] = <<i, n>>

(* Five minutes: a request does not last that long.                         *)
ForgetSeen(i, n) ==
  /\ TTLElapses
  /\ n \in seen[i]
  /\ \A h \in Handlers : ~WorksOn(h, i, n)
  /\ seen' = [seen EXCEPT ![i] = @ \ {n}]
  /\ UNCHANGED <<order, audited, step, work, read, firing, history>>

(* Ten minutes.                                                             *)
ForgetAudited(n) ==
  /\ TTLElapses
  /\ n \in audited
  /\ audited' = audited \ {n}
  /\ UNCHANGED <<order, seen, step, work, read, firing, history>>

(* An instance stops: its memory and what it was doing are lost.            *)
Restart(i) ==
  /\ seen' = [seen EXCEPT ![i] = {}]
  /\ firing' = [firing EXCEPT ![i] = 0]
  /\ step' = [h \in Handlers |-> IF Instance(h) = i THEN "idle" ELSE step[h]]
  /\ UNCHANGED <<order, audited, work, read, history>>

Next ==
  \/ \E h \in Handlers :
       \/ \E i \in Instances, n \in Notifications : Receive(h, i, n)
       \/ LookUpAudit(h) \/ LookUpOrder(h)
       \/ WriteMismatch(h) \/ Apply(h) \/ WriteFails(h) \/ Audit(h)
  \/ \E i \in Instances :
       FireCapi(i) \/ Restart(i) \/ \E n \in Notifications : ForgetSeen(i, n)
  \/ \E n \in Notifications : ForgetAudited(n)

Spec == Init /\ [][Next]_vars

-----------------------------------------------------------------------------
(* An order is paid only if a payment was written to it that neither its    *)
(* card results nor the amount it reports contradict, although the checks   *)
(* are skipped for an order that was read as paid and may no longer be      *)
(* (payment-webhook-utils.ts:202, 267).  A payment that reports no amount   *)
(* is checked by its card results alone.                                    *)
PaidBySoundPayment == paymentStatus = "paid" => sound

(* A paid order carries the date of its payment, although every update      *)
(* writes back the date it read before others wrote (:333).                 *)
PaidIsDated == paymentStatus = "paid" => paidAt

(* What idempotency.ts:62 relies on: the map records a notification before  *)
(* the first await, so two requests of one instance never process the same  *)
(* notification at once.                                                    *)
OneWorkerPerNotification ==
  \A g, h \in Handlers :
    g # h /\ step[g] # "idle" /\ step[h] # "idle" => work[g] # work[h]

(* idempotency.ts:5 promises "multi-instance safety" of the AuditLog layer: *)
(* within the TTLs a notification is applied once.                          *)
ProcessedOnce == \A n \in Notifications : applied[n] <= 1

(* CAPI fires "ONLY when this webhook actually transitioned the order to    *)
(* `paid` (not on idempotent retries)" (payment-webhook-utils.ts:427).      *)
FiredOncePerTransition == fired <= transitions
=============================================================================
