# ZIAY: TLA+ models and proofs

ZIAY is a multi-tenant e-commerce and conversational-sales platform (Next.js 16,
Prisma). This directory holds TLA+ models of the parts that move money, commit a
customer or speak to one, TLC configurations that check them, and proofs checked
by TLAPS. Source paths are
relative to the application's source; `src/lib/...` there is `src/src/lib/...` in
`PROJECT.json`.

Development uses SQLite through one connection, so transactions run one at a
time; production uses PostgreSQL (`prisma/schema.prisma:12-13`), whose default
READ COMMITTED lets two transactions read the same row before either writes.
Nothing in the code asks for a stronger level, so the modules whose result
depends on it have a constant `Serializable`.

## Inventory

| Component | State | Operations | Interacts with | Hard behaviour | Correct when | Here |
|---|---|---|---|---|---|---|
| Trafficker wallet (`wallet.service.ts`, `trafficker.service.ts`, their routes) | `Trafficker.walletBalance`, WalletTransaction, WithdrawalRequest, TraffickerSale, TwoFactorConfig | enrol 2FA, request and process a withdrawal, record an entry, register, confirm and fail a sale | escrow credits the same balance | read, check and write with awaits between; both isolation levels | the ledger explains the balance, no overdraft, one debit per request | `Wallet` |
| Marketplace escrow (`escrow.service.ts`) | EscrowHolding, wallet balance | create, release, refund, dispute, auto-release | wallet, cron, queue | the same holding released by a job and a delivery; disputes in between; failed writes | only a call that found a holding fit changes it, a release pays what is owed, expired holdings are settled | `Escrow` |
| Payment webhooks (`app/api/webhooks/*`, `payment-webhook-utils.ts`, `idempotency.ts`, `capi-auto-fire.ts`) | Order.paymentStatus and paidAt, in-memory map, AuditLog, conversions | receive, deduplicate, apply, audit, fire a conversion | orders, refunds, attribution | at-least-once delivery, several instances, restarts | paid only by a sound payment, each notification applied once | `PaymentWebhooks` |
| Refunds (`orders/[id]/refund`, `acp/v1/refunds`, `retracto.ts`, retry job, gateway notifications) | Order status, Refund rows, OrderEvent, the gateway | ask, call the gateway, record, cancel the order, reconcile a notification | five writers share one order and the gateway | lost answers, crashes between gateway and database, notifications ahead of answers | money given back stays in the ledger and within the total | `Refunds` |
| Refund-retry job (`cron-scheduler.ts:166-240`) | OrderEvent type and note | take a batch, find the order, ask again, count, alert | refunds, alerts | a counter kept in text; a batch that starves; two instances | every failure is retried or alerted | `RefundRetry` |
| Job queue and timers (`queue.ts`, `cron-scheduler.ts`) | timers, BullMQ queue or inline fallback | init, enqueue, run a handler | escrow, DIAN, refunds | each instance has its own timers; three jobs at once | handlers tolerate concurrency | partly: as the concurrency of `Escrow` and `RefundRetry` |
| AP2 mandates (`app/api/ap2/mandates`) | AP2Mandate status, parent, orderId | create an intent, a cart, a payment; revoke with the descendants; PATCH; expire | UCP, ACP | a child created while its ancestors are revoked | no authority outlives the mandate it came from | `Mandates` |
| UCP checkout (`app/api/ucp/v1/checkout`, `mandate-enforcement.ts`, identity and age gates) | UCPCheckoutSession, its mandates, the Order | create, make ready, escalate, approve, reject, complete, cancel | AP2 mandates, orders | checked at `ready_for_complete`, used at `completed`; a crash between order and session | an order is within the mandates that authorised it, large ones have a person's approval | `UcpCheckout` (extends `Mandates`) |
| DIAN invoicing (`dian-invoicing.ts`, the adapter, `retryPendingDianInvoices`) | Invoice number, CUFE, status, retries | draft, submit, retry | orders, cron, Alegra | lost and late answers, concurrent runs, five attempts | numbers differ, accepted means accepted, given up only when tried | `DianInvoice` |
| Circuit breaker and retry (`agents/circuit-breaker.ts`, `agents/retry.ts`) | failures, state, opening time | canCall, recordSuccess, recordFailure, reset | orchestrator, LLM tools | concurrent calls around a half-open test | few test calls, and the circuit recovers | `CircuitBreaker`, in `AgentCalls` |
| Agent budgets (`agents/budget.ts`) | tokens per day, limits and their cache | check, record, set limits, midnight | orchestrator | check-then-act across an LLM call | a day's tokens exceed their limit by no more than the calls in flight | the daily tokens: `TokenBudget`, in `AgentCalls` |
| Agent calls (`orchestrate/route.ts` callAgent, `llm-tools.ts`) | a call's attempt, the draft orders its tools make | begin, ask, use a tool, retry, next model, time out | breaker, budget, tools | a loop that lost its race goes on; retries repeat side effects | retries are bounded, and so is what they leave behind | `AgentCalls` |
| Conversations and WhatsApp (`webhooks/whatsapp`, `conversation.service.ts`, handoff) | Customer, Conversation, Message, in-memory dedup, AuditLog | receive, persist, pause, resume, close, reopen | agents, consent | duplicated and reordered deliveries, bot and human at once | each message once, a takeover is respected | `Conversations` |
| Consent and remarketing (`consent.service`, `remarketing.service.ts`) | ConsentRecord, ScheduledMessage | grant and revoke by keyword, record, schedule a promotion | WhatsApp | a STOP handled while a promotion is asked for | nobody who said STOP is promised a promotion | in `Conversations` |
| Redelivery and novelties (`novedades.service.ts`) | case, redelivery attempts | open, reschedule, close | logistics, orders | attempts are read, then written | cases end | not modelled |
| Orders (`order.service.ts`, `orders/[id]`) | Order.status, items | create, patch | everything | last writer wins | only legal transitions | payment and refund status only |
| Fraud and chargebacks (`fraud.service.ts`) | blocklist, payment_mismatch | score, record a chargeback | webhooks, orders | external evidence | | not modelled |
| The rest: catalogue, logistics and advertising adapters, notifications, monetisation, retention, KYC, prompts and model answers, tracing, cache, chat relay, UI | | | | mostly requests to external services | | not modelled |

`PROJECT.json` lists the hazards at their lines, most of them with the property
that would catch one going wrong; a note says what that property leaves out, and
why a hazard has none. These it does not list, because no run states
a property about them; where a module has the behaviour, it is named. Wallet: a
sale confirmed or compensated between the route's check and the transaction is
paid again (`trafficker.service.ts:325`, `Wallet`); the minimum fee exceeds a
small amount (`wallet/route.ts:192`); a request made without 2FA waits in
`pending_2fa` for ever (`wallet.service.ts:242`, `Wallet`). Escrow: the
commission is credited to nobody (`escrow.service.ts:125`, `Escrow`). Webhooks:
two handlers see the same transition to paid (`payment-webhook-utils.ts:432`),
and the conversion is fired without a queue (`capi-auto-fire.ts:65`; both
`PaymentWebhooks`). Refunds: two operators sum the refunds before
either writes its row (`orders/[id]/refund/route.ts:155`), a row is set to
failed after a lost answer whatever it became (`:392`), a notification sent again makes
a second row for one refund (`webhooks/stripe/route.ts:326`), `processRetracto`
decides on an order read before its transaction (`retracto.ts:120`), stuck events
fill the batch (`cron-scheduler.ts:209`; all in `Refunds` and `RefundRetry`).
UCP and AP2: the customer and the payment mode of a completion need not be those the
gates saw (`checkout/[sessionId]/route.ts:409`), two sessions become ready under
one cart (`:322`), a mandate created while its parent is revoked stays active
(`mandates/[id]/revoke/route.ts:83`; all in `UcpCheckout`). DIAN: an invoice
counted and delayed on several instances must still be submitted or given up
(`dian-invoicing.ts:601`, `DianInvoice`). Budget: a check that was reading the old
limits writes them back over a change (`agents/budget.ts:553`, `TokenBudget`).
WhatsApp: an audit that failed
(`webhooks/whatsapp/route.ts:708`) and a promotion that is already scheduled at
the STOP (`remarketing.service.ts:431`; both `Conversations`). Orders: PATCH
writes over what a notification or a refund wrote meanwhile
(`orders/[id]/route.ts:92`, not modelled).

## Modules

| Module | What it is |
|---|---|
| `WalletLedger` | what a wallet promises: a balance that is never negative, and a row for every change of it |
| `Wallet`, `MCWallet`, `WalletProofs` | the handlers, the instances, the proofs |
| `EscrowContract` | what escrow promises however many calls run at once: only a call that found a holding fit changes it, a release pays what is owed once for its finding, and nothing else pays |
| `Escrow`, `MCEscrow`, `EscrowProofs` | the service and its job |
| `PaymentWebhooks`, `MCPaymentWebhooks`, `PaymentWebhooksProofs` | notifications, deduplication, the order, the conversion |
| `RefundLedger` | what the Refund ledger of an order promises: a row is paid once and in its amount, and stays once it was |
| `Refunds`, `MCRefunds`, `RefundsProofs` | five routes, the Refund ledger and the gateway; the proofs cover the job too |
| `RefundRetry`, `MCRefundRetry` | the job that retries failed refunds |
| `Mandates` | AP2 mandates alone: creation, revocation, PATCH of the status and of the order's name, expiry |
| `CheckoutContract` | what a checkout promises: an order for the session's own total, under mandates granted to it, which then name it unless their owner writes another name |
| `UcpCheckout`, `MCUcpCheckout`, `UcpCheckoutProofs` | the checkout composed with the mandates it uses |
| `DianInvoice`, `MCDianInvoice`, `DianInvoiceProofs` | drafts, submissions and the retry job |
| `CircuitBreaker`, `TokenBudget` | the breaker and the budget as operators on their state: the code runs each without an await |
| `AgentCalls`, `MCAgentCalls`, `AgentCallsProofs` | concurrent calls that go through both, with retries, fallback models and tools |
| `Conversations`, `MCConversations`, `ConversationsProofs` | the WhatsApp webhook, takeovers, and consent to marketing |

### How state and actions correspond to the code

A handler is a process with a program counter (`phase`, `step`, `op`). It takes
a step at each `await` whose result it uses later, so handlers interleave where
the code can be interleaved and nowhere else. A `db.$transaction` is one action
in `Escrow`, `PaymentWebhooks` and in most of `Refunds`; it is two (its first
read, its commit) in `Wallet` and in the duplicate check of `Refunds`, where the
isolation level decides the outcome. Rows are functions from an identifier to
the columns that matter; a row that is not there has status `"absent"`. A
failed write, a thrown error or a stopped process ends the handler with what it
had already committed. Variables called history (`posted`, `credited`,
`applied`, `fired`, `moved`, `failures`, ...) are read by properties only. An
operator whose comment says *Mutant* is a wrong variant of the one after it,
used to see that a property notices the difference; no specification uses it.

- **Wallet.** `Start*` are the routes up to their first read of the profile,
  `CheckWithdrawal` and `CreateWithdrawalRequest` the request's own checks,
  `OpenTx` and `LockSale` a transaction's first reads, `Commit*` its writes.
  `MoveRelative` is Prisma's increment and decrement, `MoveAbsolute` the
  assignment of `trafficker.service.ts:343`. The two rows of a failed sale are
  one row here, and fees never reach the balance.
- **Escrow.** `ReadFor*` are the reads and status tests, `CommitRelease` the
  transaction, `StartAutoRelease` and `NextInBatch` the job.
- **PaymentWebhooks.** `Receive` is `isDuplicateWebhook` (synchronous),
  `LookUpAudit` is `isDuplicateWebhookDB`, `LookUpOrder`, `Apply`,
  `WriteMismatch` and `WriteFails` are `applyPaymentUpdate`, `Audit` the row that
  a later delivery will find, `FireCapi` the detached conversion call. `Success`,
  `Amount` and `CardFails` are what a notification carries; as in the code
  (`payment-webhook-utils.ts:192`, `:267`) a payment is approved by either of two
  signs, one without an amount is checked by its card results alone, and the
  currency is not compared.
- **Refunds.** One order that has been paid. `AskRefund`, `FindTwin`, `Insert`,
  `CheckRef`, `Supersede`, `Record`, `RecordFailure` are the back-office route
  (`Charge` is what it asks the gateway for, `Marks` when it marks the order);
  `AskAcp`/`FinishAcp`, `AskRetracto`/`CancelOrder`/`FinishRetracto`,
  `AskRetry`/`FinishRetry` the others; `Notify` to `MarkNotified` the gateway's
  notification, in the common code and in Stripe's route. `GatewayAccepts` and
  `GatewayRefuses` are external: a gateway gives back no more than it received,
  and with `LostAnswers` a refund it made may be reported as failed. `OwnRefs`
  says whether the adapter returns the refund's own id (Stripe) or the
  payment's (Mercado Pago, Wompi, PayU).
- **RefundRetry.** `Oldest` is the query, `Read` the notes it returns, `Skip` a note
  that names no order, `MarkEvent` and `CountFailure` the two outcomes,
  `Throw` the `catch` around each event. `CountFailure` has both its writes, the
  count and the giving up, of which the second may fail. `RetryCount` and `FirstMark` are what
  `note.match(/retry:\s*(\d+)/)` does to a note that is only appended to.

- **Mandates, UcpCheckout.** A request holds the session it is about in
  `target`, the intent and the cart it uses in `pair`, the mandate it is about in
  `mark`. `Ask*` are
  the routes up to their first read; `Valid` is the table of transitions;
  `ReadMandates`, `EnforceBounds`, `EscalateByRules` and `EscalateByGates` are the
  checks of `ready_for_complete` in the code's order (linked mandates, bounds,
  order value, age and identity); `Approve` and `Reject` a person's decision;
  `CreateOrder`, `Consume` and `Finish` the three writes of a completion, with a
  crash (`Abort`) between any two. `Revoke` writes the mandate and the
  descendants it found. `Patch` writes a status and may write `orderId` beside it;
  `Stamp` is a PATCH without a status, which writes `orderId` on any mandate, a
  revoked one too, and looks at nothing (`ap2/mandates/[id]/route.ts:97`, `:141`,
  `:152`). `usedBy` is that column, and `stamped` (history) the mandates whose
  name was written that way since an order last used them. A mandate here is one whose signature verified.
- **DianInvoice.** `ReadLast` and `Upsert` are the draft, `LastNumber` the greatest
  number as text, `together` (history) the orders whose drafts were in progress
  at once; `ReadInvoice` to `Save` or `Fail` a submission, by a person or
  by the job; `Make` is what DIAN does with it, whether or not its answer
  arrives; `StartRun`, `Due` and `CountFailure` the job with its backoff and its
  counts; `Throw` and `Restart` end a run in the middle.
- **CircuitBreaker, TokenBudget, AgentCalls.** `Begin` to `CheckBudget` are the
  budget (`ResolveLimits` awaits), `Gate` is `callAgent` asking the breaker and
  `Ask` the loop asking it again, `UseTool` and `Answer` the loop, `Retry`, `NextModel` and
  `GiveUp` what follows an error, `TimeOut` the race that a loop may lose: it
  then goes on as `LateTool` until `LateEnd`. Both `callAgent` and
  `runToolLoopWithResilience` report to the breaker, so a call can count twice.
- **Conversations.** `Deliver` is Meta's delivery and the in-memory dedup,
  `CheckAudit`/`WriteAudit` the dedup by AuditLog, `CheckMessage` the dedup by
  message id; `FindCustomer` to `CreateConversation` the reads and writes of each;
  `FindConsent`, `Grant` and `Revoke` the keywords; `Persist` and `Bump` the message and
  its conversation, `Fail` a throw anywhere, `Ack` the answer to Meta.
  `Pause` to `Reopen` are the people who take a conversation over.

## Runs

| Run | Checks | Shows |
|---|---|---|
| `wallet_serial` | TypeOK, NonNegativeBalance, DebitIffCompleted, PostedMatchesBalance, KeepsPromise | on SQLite two concurrent handlers of any kind keep a non-negative balance that is the sum of what was posted, and implement `WalletLedger`, so their rows chain up to that balance (LedgerChains); a withdrawal is completed only if it was debited, at least once |
| `escrow_concurrent` | TypeOK, ReleasedIsPaid, ExpiredIsSettled, KeepsContract | with two calls at once, failed writes and restarts, a released holding is paid, an expired one is settled in the end, and the service implements `EscrowContract`: two releases or a dispute in between may both go through, but none that had not itself found the holding fit |
| `escrow_paid_twice` | PaidAtMostOnce, violated | two releases at once pay the seller twice, though the handlers are said to be "safe to run concurrently" (`cron-scheduler.ts:141`) |
| `webhooks_one_instance` | TypeOK, PaidBySoundPayment, PaidIsDated, OneWorkerPerNotification | with repeats, reordering, expiry of the caches, failures and restarts an order is paid only by a payment that nothing it carries contradicts, and is dated; of one instance, one handler works on a notification |
| `refunds_admin` | NoTwinRefunds, RefundedMeansFully | the back office, the retracto and the job, two requests at once, with lost answers, at a gateway that returns the payment's id: the duplicate check holds and an order marked refunded was refunded in full |
| `refunds_routes` | TypeOK, MoneyIsRecorded, KeepsLedger | with all five routes racing, no refund made drops out of the ledger, and together they implement `RefundLedger`, so no order is marked refunded for nothing (RefundedMeansPaidBack) |
| `refund_retry` | RetryTypeOK, RefundedWasPaid, NamedIsRefunded | two runs of the job over the same events; a named event is refunded in the end unless a batch of stuck ones is in front |
| `ucp_checkout` | TypeOK, OrdersWereAuthorised, MandatesNameOrders, KeepsContract | with two requests at once, crashes, revocation and PATCH by hand, an order was checked against the mandates it names, and a mandate names the order that used it unless the PATCH wrote another name over it; the whole implements `CheckoutContract`, so a large order was approved (BigOrdersAreApproved) |
| `dian_invoice` | TypeOK, NumbersDiffer, AcceptedByDian, GivenUpWhenTried | with two requests that generate at once, a person and the job submitting, lost and late answers and restarts: two orders share a number only if it was drawn for both at once or is wider than four digits (both happen), `accepted` is DIAN's word, and nothing is given up untried |
| `agent_calls` | TypeOK, TestCallsAreFew, OverspendIsBounded, DraftsAreBounded, TestCallSettles | with outages, timeouts, resets and restarts, a half-open circuit lets one call through, which settles it once it has reached the model; the overspend of a day's tokens and the draft orders of a call are bounded |
| `circuit_closes` | CircuitCloses, violated | through `callAgent` the circuit never closes again: the test call is counted at the gate and refused by the second check inside, and reported as a failure |
| `conversations` | TypeOK, PersistedOnce, StopIsHeard, TakeoverHolds | with two messages handled at once, delivered again and late, failures and restarts of one instance: a message is one row; a STOP is ended only by the consent route or by an opt-in that was not over when it came or that a restart has forgotten; and under a takeover of the only open conversation the bot answers none but the messages already past the lookup |

### Further instances

These configurations are not runs of the project; each shows with the same
modules something a reader may want to see again. *Violated* means that TLC
finds a behaviour of the model, hence of the code, that breaks the property.

| Configuration | Outcome |
|---|---|
| `WalletReadCommitted.cfg` | holds: PostedMatchesBalance under READ COMMITTED, without sales |
| `WalletLostUpdate.cfg` | violated: with sales, `confirmSale`'s absolute write loses a movement |
| `WalletDoubleDebit.cfg` | violated: WithdrawalDebitedOnce, two handlers that both found a request `pending_processing` both debit it |
| `WebhooksTwice.cfg` | violated: ProcessedOnce, one notification delivered to two instances is applied twice |
| `RefundsSharedRef.cfg` | violated: MoneyIsRecorded, a second partial refund with the payment's id cancels its own row |
| `RefundRetryAlert.cfg` | violated: AlertAfterFailures, the retry count never passes two |
| `UcpMandateTwice.cfg` | violated: MandateUsedOnce, two sessions complete under one cart |
| `UcpMinor.cfg` | violated: MinorsNeedConsent, the age gate is asked of another customer, or of none |
| `DianPending.cfg` | holds: PendingIsSettled, an invoice DIAN rejects again and again leaves `pending_submission` |
| `DianTwoInvoices.cfg` | violated: OneInvoice, a lost answer and a new draft make two accepted invoices |
| `DianUndecided.cfg` | violated: UndecidedIsSettled, nobody asks again about an answer of `pending` |
| `ConversationsLateKeyword.cfg` | violated: LastWordCounts, an opt-in written before a STOP ends it |

The modules state more, each with a comment that says where it holds. From the
configuration named, with the change given, TLC answers:

| Start from | Change | Outcome |
|---|---|---|
| `WalletReadCommitted` | NonNegativeBalance | violated |
| `WalletSerial` | `Sales = {}`, WaitsForRequiredTotp | violated: a request without 2FA waits in `pending_2fa` |
| `WalletLostUpdate` | `Serializable = TRUE`, ConfirmsPendingSale | violated: a sale is confirmed twice |
| `EscrowConcurrent` | `SPECIFICATION Spec`, ReleaseDistributesAll | violated: the commission is credited nowhere |
| `EscrowPaidTwice` | DisputeHolds | violated: a release in flight overrides a dispute |
| `WebhooksTwice` | `Instances = {i1}`, `Notifications = {approved, again}`, `MaxApplied = 1`, FiredOncePerTransition | violated |
| `RefundsAdmin` | `OwnRefs = TRUE`, `LostAnswers = FALSE`, two reasons, `MaxRows = 2`, LedgerWithinTotal | violated: two operators |
| `RefundsAdmin` | `OwnRefs = TRUE`, `LostAnswers = FALSE`, `Serializable = FALSE`, NoTwinRefunds | violated |
| `RefundsAdmin` | `OwnRefs = TRUE`, `Routes = {"admin", "notified"}`, ProcessedStays | violated after a lost answer: the route sets to failed what the notification had set to processed |
| `RefundsSharedRef` | `OwnRefs = TRUE`, `Routes = {"admin", "notified"}`, ProcessedWasPaid | violated: a second row for one Stripe refund |
| `RefundsRoutes` | `Routes = {"acp", "notified"}`, one handler, RefundedMeansFully | violated |
| `RefundsRoutes` | `Routes = {"retracto"}`, `MaxRows = 1`, RetractoOnce | violated |
| `RefundRetry` | one event, one job, `BatchSize = 1`, `MaxFailures = 1`, EveryFailureIsRefunded | violated: a note that names no order |
| `RefundRetry` | one job, three events | holds: a batch of stuck events occurs |
| `UcpMandateTwice` | one session, a minor, modes `advance` and `credit`, `Threshold = 3`, OrderWithinMandate | violated: the bounds add up the lines, the order takes the total |
| the same | `Threshold = 2`; FinalStays, or RevocationReachesChildren | violated, violated |
| `DianTwoInvoices` | two submitters, `MaxNumber = 1`, AcceptedStays | violated |
| `DianTwoInvoices` | SameInvoice, or AcceptedNumber | violated, violated |
| `AgentCircuitOpen` | no orchestrated call, two direct ones, CircuitCloses | holds |
| `AgentCalls` | `SPECIFICATION Spec`, `Limits = {2}`, the invariants | hold |
| `AgentCalls` | the same with direct calls only and `MaxRetries = 0`, OneDraftEach | violated: a fallback model repeats `create_order` |
| `AgentCalls` | two direct calls, one model, `MaxRetries = 0`, `MaxToolCalls = 0`, `Limits = {2, 3}`, LimitIsCurrent | violated |
| `UcpMinor` | RevokedStaysRevoked | violated: a completion consumes a mandate revoked meanwhile |
| `Conversations` | one handler, no constraint, `MaxCustomers = 2`, `MaxRecords = 3`, the invariants | hold |
| `Conversations` | one handler, PausedIsSilent | violated: a conversation opened again beside the paused one takes the message |
| `Conversations` | `Last = 1`, AcknowledgedIsAudited | violated: an audit fails, the next delivery is answered as a duplicate |
| `Conversations` | one handler, PromotionsStop | violated: a promotion scheduled before the STOP is sent |
| `Conversations` | two instances, `Last = 1`, PersistedOnce | violated |

### Bounds

Two concurrent handlers are enough for every race here: each needs one handler
between another's read and its write. `Wallet` has one trafficker (wallets
share nothing), two requests, one sale and ledgers of at most `MaxRows = 3`
rows, which lets two movements follow a first credit. `Escrow` has two orders and two calls,
so that a batch of one leaves an order for later and calls of any two kinds meet. `PaymentWebhooks` models one
order and three notifications (approved without an amount, wrong in its amount,
pending), each applied at most `MaxApplied` times before no more is written; one
that fails by its card results is treated as the wrong amount is and left to the
proofs. `Refunds` has one order of total
2 or 3 with partial amounts, and `MaxRows` of 2 or 3 refund rows: two partial
refunds and a duplicate fit; `refunds_admin` leaves out the two routes
that mark an order for less than its total, `refunds_routes` has all five. `RefundRetry` has two events, batches of two and
the code's limit of five; `MaxFailures` caps only the history counter.
`UcpCheckout` has one session and two requests, two intents of which one is not
the cart's parent, amounts on both sides of the threshold, and a customer who is
a minor; `OneExtra` allows one thing at a time beside an intent, its cart and a
session: a total above the threshold, a second intent, a payment mandate (which no
session uses, so without one) or a name written by hand (without expiry, which
concerns nothing that a name does). `DianInvoice` has two orders, two requests that
generate and two that submit, a job with batches of one (so that an order waits
behind another) and two attempts in place of five, since nothing counts beyond
"one more" and "the last". Its numbers go to three and keep their digits up to
two, so that three drafts come one after another, two draw one number at once,
and one is too wide. `MCNumbersFirst` splits the numbering from the submissions: drafts in
any number and order while nothing has been submitted, then one at a time of
numbers that keep their digits; a submission reads a number and never chooses
one. A person submits once, while it is the only invoice (`MCOneSubmitted`). `AgentCalls` has one call
through `callAgent` and one direct one, two models with one retry each, one tool
call and a threshold of two failures: a call counted twice opens the circuit alone,
two that are counted once open it together. `Conversations` has two handlers of one
instance, two messages of any kind, so that a SI and a STOP come in either order,
at once and delivered again, one customer row, two conversations (one may be opened
beside the other) and two consent records. `Apart` lets a conversation be paused
only while no consent is kept and no promotion is on its way: takeovers and consent
have no variable in common, and the further instances without `Apart`, with two
customer rows and three records but one handler, hold too. A handler that would need
a row beyond these bounds waits before it. Handlers and
identifiers that are alike are permuted (`SYMMETRY`) in runs that check no
liveness.

`CHECK_DEADLOCK FALSE` stands where the system really stops: a wallet whose
ledger reached the bound, orders that are all settled, an order fully refunded,
events that are all settled, a session completed under the last
mandate, invoices that are all settled. `webhooks_one_instance`, `agent_calls`,
`circuit_closes` and `conversations` can always do something more and keep the check.

### Fairness

`Escrow!Fairness`: the timer enqueues the job for ever on every instance
(`cron-scheduler.ts:86-97`), a write that is pending commits or fails, and an
order that is tried again and again is not failed or interrupted for ever.
These are strong fairness because a restart disables the step in between.
`RefundRetry!Fairness`: events age, the timer starts a run
(`cron-scheduler.ts:102-121`), a run that reaches an event again and again asks
the gateway and finishes with it, and a gateway asked for ever accepts once. The
last one is about the gateway; the alert after five failures is what the code
relies on without it, and `RefundRetryAlert.cfg` checks that separately, without
fairness.

`DianInvoice!Fairness`: time passes (`WF` on `Elapse`), the timer starts runs, and
a run that is stopped again and again is not always stopped in the same step of
the same invoice; strong fairness per step, because a restart disables it.

`AgentCalls!Fairness`: a call goes on, because every await in it has a time limit
(`llm-tools.ts`, the race against `LLM timeout`), and the circuit's reset time
passes. Weak fairness is enough: nothing but the call itself or a restart takes a
step of it away. `circuit_closes` assumes in its formula (`Healthy`) that models
answer from some time on and that calls keep coming, so the counterexample is not
one in which nobody calls.

## Proofs

Every proof is checked by TLAPS to the last leaf; nothing is assumed beyond the
`ASSUME`s of the modules (amounts are naturals, a commission does not exceed its
amount, the model's own sets are disjoint).

| Theorem | Says, for every value of the constants |
|---|---|
| `TypeCorrect`, `EscrowTypeCorrect`, `WebhooksTypeCorrect`, `RefundsTypeCorrect` | `Spec => []TypeOK` |
| `NoMovementIsLost` | the balance is the sum of what was posted: on a serial database for every handler, on READ COMMITTED for those that move it by increment and decrement |
| `NoOverdraft`, `LedgerExplainsBalance`, `WalletImplementsLedger` | on a serial database: no overdraft, a ledger that explains the balance, and refinement of `WalletLedger` |
| `WithdrawalsAreDebited` | on either database, a withdrawal is completed exactly when its owner's ledger debits its amount |
| `ReleasedHoldingsArePaid` | under any concurrency a released holding was credited |
| `EscrowImplementsContract` | for any orders, amounts and calls at once: refinement of `EscrowContract` |
| `PaidOnlyBySoundPayments`, `PaidOrdersAreDated`, `OneWorkerPerInstance` | for any notifications and instances |
| `RefundedOrdersWerePaidBack` | for any routes, answers and gateways |
| `RefundsMadeStayInLedger` | if references are the refund's own and answers arrive |
| `RefundsImplementLedger` | if references are the refund's own and answers arrive, the five routes implement `RefundLedger` |
| `DoubleClickRefundsOnce` | on a serial database without notifications |
| `RefundedOrdersWerePaidInFull` | without the ACP route and notifications, which mark an order for a part of it |
| `RetryTypeCorrect`, `RefundedEventsWerePaid` | for any events, batches and runs of the job at once |
| `AlertIsNeverSent` | for every limit above two (the code's is five), no event is ever given up or alerted about |
| `CheckoutTypeCorrect`, `InvoiceTypeCorrect`, `AgentTypeCorrect`, `ConversationsTypeCorrect` | `Spec => []TypeOK` |
| `OrdersAreAuthorised`, `BigOrdersHadApproval` | for any sessions, mandates and number of requests at once, with crashes |
| `ConsumedMandatesNameOrders` | for the same: a mandate names an order that used it, unless the PATCH wrote its name, and those of a completed session name one |
| `CheckoutImplementsContract` | for the same, with mandates granted, revoked, expired and patched meanwhile, their names included: refinement of `CheckoutContract` |
| `NumbersAreUnique` | for any requests that generate at once: two orders share a number only if it was drawn for both at once or is wider than four digits |
| `AcceptedMeansAccepted`, `GivenUpAfterRetries` | for any number of submissions and runs at once |
| `TestCallsStayFew` | for any calls, however they report |
| `DraftsStayBounded` | for any chain of models, retries and tool calls |
| `OverspendStaysBounded` | for any calls, limits and costs |
| `MessagePersistedOnce` | with one instance |
| `TakeoverIsKept`, `StopIsObeyed` | for any instances, messages, handlers at once, rows and records |

The inductive invariants. *Wallet*: what an open transaction read is still the
live balance (nobody else may write while it is open), the rows chain up to
that balance, and a handler that was let through can pay; `NonNegativeBalance`
alone is not inductive, because a commit decrements by an amount checked a step
earlier. `PostMoves` says that each commit moves the balance by
what it posts: an increment does so whatever others wrote, an assignment only if
what was read is still there. `DebitInv` says that a handler that found a request payable still holds
that request's owner and amount, and that rows debit completed requests only.
*Escrow*: a call that is about to release holds an order whose amounts are sane, and a released order has its credit; the contract's
`found` is what each call holds, so every write of a call is a `Settle` of a
finding of its own, whatever the row has become since. *PaymentWebhooks*: a handler about to
write a paid status was checked, or read an order that a sound payment had paid;
and a handler at work keeps its notification in its instance's map. *Refunds*:
`PaidBackInv` says that a request before the gateway asks for a positive amount
and one behind it stands for money given back; `HeldRows` that the row a
request still has to write counts in the ledger and is no other request's;
`MoneyInv` adds that a row yet to be paid is not among those paid; `TwinInv`
that no equal refund appears between the search and the insert; `FullInv` that a request which will mark
the order, once answered, finds all of the total given back. For `RefundLedger`, `LedgerInv` adds that
a request asks the gateway for its row's amount and that a notification speaks of
what was given back; every step
of a route is then one of the ledger's or none. *RefundRetry*: `AnswerInv` says
that a run holding an acceptance holds an event that was paid; `MarkInv` that no
mark, in a note or in a batch read earlier, passes one: the first mark is what is
read, and the count after it is two for ever. *UcpCheckout*:
`HeldInv` says what a request holds at each step (its session, its pair); `AuthInv`
that the pair kept by a request past the bounds, by a session and by an order was
linked, within bounds and verified for that session; `BigInv` that a session that is ready
without approval is below the threshold; `NameInv` that a request past the
creation is about the order it made. The refinement of `CheckoutContract` needs
the three together: `granted` is what `Verified` keeps of every check that passed,
`AuthInv` gives the pair that `Place` demands, `BigInv` the approval, and `NameInv`
that the two writes of a completion use up what its own order names. `NamesKept`
adds that a hand takes no name away, so that a completed session's mandates name
something. *DianInvoice*: `NumberInv` says that two drafts in progress are of
one order or were in progress at once, and that a draft whose number keeps its
digits meets that number only in an order it was in progress beside; `AcceptInv` that an answer still to be
saved as accepted stands for an invoice DIAN has; `TriedInv` that a count, in the
row or in a run that read it before others wrote, is covered by failures that
happened. *AgentCalls*: `ProbeInv` ties the calls let through to the entry's own
counter; `DraftInv` bounds the drafts made, those that abandoned loops may
still make, and those that the attempts left may make, by one sum;
`OverspendIsBounded` is inductive as it stands, because it counts the calls in
flight. *Conversations*: `DedupInv` says that what is stored or being stored is
remembered or audited, and by one handler; `TakeoverInv` that under a takeover the
paused conversation is the only open one, and that whoever still holds what the
lookup found before is among `early`; `StopInv` that while a STOP is in force
what its `stopped` holds is the STOP or is over and remembered by every instance,
so that no handler can reach a grant with it, and no record of that customer grants.

The results that do assume something say so: a serial database, a gateway that
names its refunds and answers, one instance for the deduplication. None of these
is promised by the code, and the tables above name the behaviour that breaks
each result without its assumption.

Only model-checked: the liveness properties (`ExpiredIsSettled`,
`NamedIsRefunded`, `TestCallSettles`, and `PendingIsSettled` among the further
instances), because the prover reasons about neither fairness nor ENABLED;
the properties that TLC
finds violated; and `LedgerWithinTotal`-like sums, whose folds would need
induction over sets.

Every safety property of the runs has a theorem.

## Where the code and its words part

`PROJECT.json` holds two findings, `circuit_closes` and `escrow_paid_twice`. The others below were met
while modelling; those with a property are among the instances above.

- *Circuit breaker.* A call through `callAgent` that fails is counted twice, and
  failures are never reset by a success of a closed circuit though the header
  says "consecutive" (`circuit-breaker.ts:9`, `:24`). A prompt that cannot be built
  leaves a half-open circuit refusing until it is reset.
- *Escrow.* "Idempotent and safe to run concurrently" (`cron-scheduler.ts:141`): a
  release reads the status before its transaction, which tests nothing, so two
  that found a holding pay it twice (`PaidAtMostOnce`), and one overrides a dispute
  (`DisputeHolds`).
- *Refunds.* "Commits afterward and is idempotent" (`payment-webhook-utils.ts:369-371`)
  is not said of a lost answer: the route then sets the processed row to failed
  (`ProcessedStays`).
- *Webhooks.* `idempotency.ts:4-5` has "multi-instance safety" of the audit rows:
  they are looked up and written in two steps (`ProcessedOnce`).
- *Refund retry.* "Alert after 5 failed retries" (`cron-scheduler.ts:216`): the
  first mark in a note that grows at its end is read each time, so the count stays
  at two and the branch is dead (`AlertAfterFailures`, `AlertIsNeverSent`).
- *Budget.* `orchestrate/route.ts:401-404` speaks of aggregated token usage and
  debits the last iteration only, and nothing of the attempts that failed;
  `budget.ts:263` says "fail-open" where the starter limits are applied;
  `setLimits` says the cache is refreshed immediately, but a call that was
  resolving the limits writes the old ones back (`LimitIsCurrent`).
- *Tools.* A retry starts the loop over and repeats `create_order`
  (`OneDraftEach`); `runToolLoop` "never throws" and does.
- *UCP.* The session's expiry is stored and never read; a crash after the order
  was created leaves a session that can never complete, since the order number
  is unique; the PATCH of a mandate says it only goes from active to consumed,
  takes it back as well, and writes any `orderId` on any mandate; items made
  through MCP carry `price` where the completion reads `unitPrice`.
- *DIAN.* A second call is said to return the same CUFE
  (`dian-invoicing.ts:131-132`, `:261-264`): it gives a new number, a new CUFE
  and the status `pending_submission`, to an accepted invoice too (`SameInvoice`,
  `AcceptedStays`). Numbers compared as text stay at 10000.
- *WhatsApp.* "A duplicate SI just re-grants" (`webhooks/whatsapp/route.ts:370-371`)
  is also how one written before a STOP ends it, at work beside it or after a restart (`LastWordCounts`); a conversation opened again beside
  a paused one is the bot's (`PausedIsSilent`); "recoverable from the audit log"
  (`:708-710`) fails when the duplicate is answered before the first was audited
  (`AcknowledgedIsAudited`); "No te enviaremos más promociones" (`:477`) is not
  asked by what was scheduled before (`PromotionsStop`).

## Assumptions and limits

- Amounts are natural numbers; the code's floats and rounding are not modelled.
- A request ends before the five-minute life of its entry in the in-memory map.
- Authentication, authorisation, signatures and rate limits are not modelled:
  a caller in the model is one the code lets through.
- The gateway's notification of a refund reports the total it has given back,
  as Stripe does in `amount_refunded`.
- A withdrawal's status `processing` and the row that the trafficker route
  writes as pending are not in the ledger: neither changes a balance.
- The wallet credit of an escrow release is counted in `Escrow` and not posted
  in `Wallet`.
- A budget counts the tokens of a day. Those of the month are compared in the same
  way; the limits in dollars are not: they compare what was spent, without an
  estimate (`agents/budget.ts:297`, `:321`), so one call may pass them, and
  `OverspendIsBounded` says nothing of them. Saving a limit and dropping it from the cache are one step.
- What a model answers is a choice: a tool call, a reply or an error. A tool that
  times out inside its own registry may still make its draft later; that one is
  not counted in `DraftsAreBounded`.
- `Conversations` is about one phone number; how many rows of it two first messages
  at once may create is part of the model. Unread counts, times, HELP and RETRACTO's
  answer are left out; what RETRACTO does to the order is in `Refunds`.

## Not modelled

Most of the 456 implementation files are screens, adapters of external services,
queries and prompts: they hold no state that several actors change, so there is
nothing of theirs for a state machine to say, and the models cover a small share of
the lines for that reason. Of what does hold state, these are left out:
novelties and redelivery (one column edited by people, with the attempts read before
they are written), the order's PATCH route and its other columns, fraud
scoring, consent beyond marketing, BullMQ's own retries, the older
`llm/budget.ts`, the orchestrator's pipeline memory (read, and written back whole
at the end, so two requests lose one's), and the chat relay.

## Plan

1. `OrderPayment`: webhooks and refunds composed over one order, with the order's
   PATCH and the chargeback as further writers.
2. `SellerWallet`: escrow's credit composed with the wallet's ledger.
3. What an invoice and a conversation promise, as abstract specifications that
   `DianInvoice` and `Conversations` implement.
4. Novelties, and the orchestrator's pipeline memory.
