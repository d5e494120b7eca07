---------------------------- MODULE UcpCheckout ----------------------------
(***************************************************************************)
(* A UCP checkout session and the AP2 mandates it uses: a call makes the   *)
(* session ready under an intent and a cart, governance or a person may    *)
(* stop it, and a later call creates the order and consumes the mandates.  *)
(* Requests interleave at every await and may stop anywhere.               *)
(***************************************************************************)
EXTENDS Mandates

CONSTANTS
  Sessions,
  Adults, Minors,  \* customers
  Consents,        \* minors with a parental_consent_minor record
  Vetted,          \* intents whose user has a verified identity
  Modes,           \* paymentMode of a request
  MaxAmount,       \* AP2Mandate.maxAmount of each intent
  Values,          \* amounts of carts
  Threshold        \* ESCALATION_RULES, order_value

Customers == Adults \cup Minors
OnCredit == {"credit", "installment"}

(* The Order a session creates.                                             *)
Orders == [pair : Intents \X Carts, total : Values, customer : Customers]

ASSUME CheckoutAssumption ==
  /\ None \notin Customers /\ None \notin Orders
  /\ Sessions \subseteq OrderIds     \* an order goes by its session
  /\ MaxAmount \in [Intents -> Nat]
  /\ Values \subseteq Nat /\ Threshold \in Nat
  /\ Modes \subseteq OnCredit \cup {"advance"}
  /\ Consents \subseteq Minors /\ Vetted \subseteq Intents

VARIABLES
  state,     \* UcpCheckoutSession.state
  items,     \* what the lines of session.cart add up to
  total,     \* session.cart.totals.total
  intent,    \* session.intentMandateId
  cart,      \* session.cartMandateId
  order,     \* the Order whose number is made of the session's id
  target,    \* the session each request is about
  pair,      \* the intent and the cart each request uses
  verified,  \* history: pairs that passed every check for a session
  approved   \* history: sessions a person approved

session  == <<state, intent, cart>>
history  == <<verified, approved>>
mandates == <<status, expired, mark>>
opened   == <<items, total>>
vars == <<mandates, names, step, session, opened, order, target, pair, history>>

States == {"absent", "incomplete", "requires_escalation", "ready_for_complete",
           "completed", "failed"}
Steps == {"idle", "check cart", "create", "revoke", "patch", "mandates",
          "bounds", "rules", "escalate", "order", "consume", "finish", "approve", "reject"}
Pairs  == (Intents \cup {None}) \X (Carts \cup {None})

TypeOK ==
  /\ status \in [MandateIds -> MandateStatuses]
  /\ expired \subseteq Intents
  /\ step \in [Calls -> Steps]
  /\ mark \in [Calls -> MandateIds \cup {None}]
  /\ state \in [Sessions -> States]
  /\ items \in [Sessions -> Values \cup {0}]
  /\ total \in [Sessions -> Values \cup {0}]
  /\ intent \in [Sessions -> Intents \cup {None}]
  /\ cart \in [Sessions -> Carts \cup {None}]
  /\ order \in [Sessions -> Orders \cup {None}]
  /\ usedBy \in [MandateIds -> OrderIds \cup {None}] /\ stamped \subseteq MandateIds
  /\ target \in [Calls -> Sessions \cup {None}]
  /\ pair \in [Calls -> Pairs]
  /\ verified \in [Sessions -> SUBSET (Intents \X Carts)]
  /\ approved \subseteq Sessions

Init ==
  /\ MandateInit
  /\ state = [s \in Sessions |-> "absent"]
  /\ items = [s \in Sessions |-> 0] /\ total = [s \in Sessions |-> 0]
  /\ intent = [s \in Sessions |-> None] /\ cart = [s \in Sessions |-> None]
  /\ order = [s \in Sessions |-> None]
  /\ target = [p \in Calls |-> None] /\ pair = [p \in Calls |-> <<None, None>>]
  /\ verified = [s \in Sessions |-> {}] /\ approved = {}

-----------------------------------------------------------------------------
(* POST /ucp/v1/checkout, /acp/v1/checkout and MCP's create_checkout.       *)
CreateSession(s, i, sum, asked) ==
  /\ state[s] = "absent"
  /\ state' = [state EXCEPT ![s] = "incomplete"]
  /\ intent' = [intent EXCEPT ![s] = i]
  /\ items' = [items EXCEPT ![s] = sum]
  /\ total' = [total EXCEPT ![s] = asked]
  /\ UNCHANGED <<mandates, step, cart, order, names, target, pair, history>>

(* VALID of PATCH /ucp/v1/checkout/[sessionId].                             *)
Valid(from) ==
  CASE from = "incomplete"          -> {"requires_escalation", "ready_for_complete"}
    [] from = "requires_escalation" -> {"ready_for_complete"}
    [] from = "ready_for_complete"  -> {"completed", "requires_escalation"}
    [] OTHER                        -> {}

(* A request reads the session and the mandates it will use.                *)
Open(p, s, to, used, st) ==
  /\ step[p] = "idle"
  /\ to \in Valid(state[s])
  /\ GoTo(p, st)
  /\ target' = [target EXCEPT ![p] = s]
  /\ pair' = [pair EXCEPT ![p] = used]
  /\ UNCHANGED <<mandates, session, opened, order, names, history>>

AskEscalation(p, s) == Open(p, s, "requires_escalation", <<None, None>>, "escalate")

(* The mandates are those the request names, or else those of the session.  *)
AskReady(p, s, i, c) == Open(p, s, "ready_for_complete", <<i, c>>, "mandates")

AskComplete(p, s) ==
  /\ intent[s] # None /\ cart[s] # None
  /\ Open(p, s, "completed", <<intent[s], cart[s]>>, "order")

(* A request ends, and forgets what it read.                                *)
Rest(p) ==
  /\ GoTo(p, "idle")
  /\ target' = [target EXCEPT ![p] = None]
  /\ pair' = [pair EXCEPT ![p] = <<None, None>>]

(* It ends with the session in state new.                                   *)
Write(p, new) ==
  /\ state' = [state EXCEPT ![target[p]] = new]
  /\ Rest(p)
  /\ UNCHANGED <<mandates, opened, order, names>>

(* Mutant: the ids are saved the wrong way round.                           *)
SavePairSwapped(p) ==
  /\ intent' = [intent EXCEPT ![target[p]] = pair[p][2]]
  /\ cart' = [cart EXCEPT ![target[p]] = pair[p][1]]

SavePair(p) ==
  /\ intent' = [intent EXCEPT ![target[p]] = pair[p][1]]
  /\ cart' = [cart EXCEPT ![target[p]] = pair[p][2]]

Escalate(p) ==
  /\ step[p] = "escalate"
  /\ Write(p, "requires_escalation")
  /\ UNCHANGED <<intent, cart, history>>

-----------------------------------------------------------------------------
(* Mutant: the cart need not be under the intent.                           *)
LinkedLoosely(p) == status[pair[p][1]] = "active" /\ status[pair[p][2]] = "active"

Linked(p) ==
  /\ status[pair[p][1]] = "active" /\ status[pair[p][2]] = "active"
  /\ Parent[pair[p][2]] = pair[p][1]

ReadMandates(p) ==
  /\ step[p] = "mandates"
  /\ IF Linked(p) THEN GoTo(p, "bounds") /\ UNCHANGED <<target, pair>> ELSE Rest(p)
  /\ UNCHANGED <<mandates, session, opened, order, names, history>>

(* Mutant: the first read of the intent is trusted.                         *)
WithinBoundsOnce(i, s) == items[s] <= MaxAmount[i]

(* enforceMandateBounds reads the intent again and adds up the lines.       *)
WithinBounds(i, s) == Live(i) /\ items[s] <= MaxAmount[i]

EnforceBounds(p) ==
  /\ step[p] = "bounds"
  /\ IF WithinBounds(pair[p][1], target[p])
     THEN /\ GoTo(p, "rules")
          /\ verified' = [verified EXCEPT ![target[p]] = @ \cup {pair[p]}]
          /\ UNCHANGED <<target, pair>>
     ELSE Rest(p) /\ UNCHANGED verified
  /\ UNCHANGED <<mandates, session, opened, order, names, approved>>

OrderValueRule(s) == total[s] >= Threshold

(* checkEscalationRules: the order's value, or what the request declares of *)
(* the customer, sends the session to a person ...                          *)
EscalateByRules(p, declared) ==
  /\ step[p] = "rules"
  /\ declared \/ OrderValueRule(target[p])
  /\ SavePair(p)
  /\ Write(p, "requires_escalation")
  /\ UNCHANGED history

(* ... or refuses it, as do a customer that does not exist and a credit     *)
(* without a user.                                                          *)
Refuse(p) ==
  /\ step[p] = "rules"
  /\ Rest(p)
  /\ UNCHANGED <<mandates, session, opened, order, names, history>>

(* checkAgeGate, if the request names a customer, and the identity of a     *)
(* credit's user.                                                           *)
AgeAllowed(who) == who \notin Minors \ Consents
IdentityKnown(i, mode) == mode \in OnCredit => i \in Vetted

EscalateByGates(p, who, mode) ==
  /\ step[p] = "rules"
  /\ ~ OrderValueRule(target[p])
  /\ ~ (AgeAllowed(who) /\ IdentityKnown(pair[p][1], mode))
  /\ Write(p, "requires_escalation")
  /\ UNCHANGED <<intent, cart, history>>

MakeReady(p, who, mode) ==
  /\ step[p] = "rules"
  /\ ~ OrderValueRule(target[p])
  /\ AgeAllowed(who) /\ IdentityKnown(pair[p][1], mode)
  /\ SavePair(p)
  /\ Write(p, "ready_for_complete")
  /\ UNCHANGED history

-----------------------------------------------------------------------------
(* POST /governance/escalations: a person decides on what was read.         *)
AskDecision(p, s, st) ==
  /\ step[p] = "idle" /\ st \in {"approve", "reject"}
  /\ state[s] = "requires_escalation"
  /\ GoTo(p, st)
  /\ target' = [target EXCEPT ![p] = s]
  /\ UNCHANGED <<mandates, session, opened, order, names, pair, history>>

Approve(p) ==
  /\ step[p] = "approve"
  /\ approved' = approved \cup {target[p]}
  /\ Write(p, "ready_for_complete")
  /\ UNCHANGED <<intent, cart, verified>>

Reject(p) ==
  /\ step[p] = "reject"
  /\ Write(p, "failed")
  /\ UNCHANGED <<intent, cart, history>>

-----------------------------------------------------------------------------
(* completed: the order's number is unique, so a second create throws.      *)
CreateOrder(p, who) ==
  /\ step[p] = "order"
  /\ order[target[p]] = None
  /\ order' = [order EXCEPT ![target[p]] =
       [pair |-> pair[p], total |-> total[target[p]], customer |-> who]]
  /\ GoTo(p, "consume")
  /\ UNCHANGED <<mandates, names, session, opened, target, pair, history>>

(* Mutant: only the cart is consumed.                                       *)
UsesCart(p) == {pair[p][2]}

Uses(p) == {pair[p][1], pair[p][2]}

(* Both mandates are consumed, whatever they have become.                   *)
Consume(p) ==
  /\ step[p] = "consume"
  /\ status' = [m \in MandateIds |-> IF m \in Uses(p) THEN "consumed" ELSE status[m]]
  /\ usedBy' = [m \in MandateIds |-> IF m \in Uses(p) THEN target[p] ELSE usedBy[m]]
  /\ GoTo(p, "finish")
  /\ stamped' = stamped \ Uses(p)
  /\ UNCHANGED <<expired, mark, session, opened, order, target, pair, history>>

Finish(p) ==
  /\ step[p] = "finish"
  /\ Write(p, "completed")
  /\ UNCHANGED <<intent, cart, history>>

(* The process stops, or a read or write throws, between any two steps.     *)
Abort(p) ==
  /\ step[p] # "idle"
  /\ Rest(p)
  /\ mark' = [mark EXCEPT ![p] = None]
  /\ UNCHANGED <<status, expired, session, opened, order, names, history>>

Mandate ==
  /\ MandateNext
  /\ UNCHANGED <<session, opened, order, target, pair, history>>

SessionCall(p, s) ==
  \/ AskEscalation(p, s) \/ AskComplete(p, s)
  \/ \E i \in Intents, c \in Carts : AskReady(p, s, i, c)
  \/ \E st \in {"approve", "reject"} : AskDecision(p, s, st)

Progress(p) ==
  \/ Escalate(p) \/ ReadMandates(p) \/ EnforceBounds(p) \/ Refuse(p)
  \/ \E declared \in BOOLEAN : EscalateByRules(p, declared)
  \/ \E who \in Customers \cup {None}, mode \in Modes :
       EscalateByGates(p, who, mode) \/ MakeReady(p, who, mode)
  \/ Approve(p) \/ Reject(p)
  \/ \E who \in Customers : CreateOrder(p, who)
  \/ Consume(p) \/ Finish(p) \/ Abort(p)

Next ==
  \/ Mandate
  \/ \E s \in Sessions, i \in Intents \cup {None}, sum, asked \in Values :
       CreateSession(s, i, sum, asked)
  \/ \E p \in Calls : Progress(p) \/ \E s \in Sessions : SessionCall(p, s)

Spec == Init /\ [][Next]_vars

-----------------------------------------------------------------------------
(* An order was created under an intent and a cart that passed every check  *)
(* for that very session: linked, active and within bounds, whatever the    *)
(* session went through since (checkout/[sessionId]/route.ts:279-331).      *)
OrdersWereAuthorised ==
  \A s \in Sessions : order[s] # None =>
    LET i == order[s].pair[1]
        c == order[s].pair[2]
    IN  /\ Parent[c] = i
        /\ items[s] <= MaxAmount[i]
        /\ <<i, c>> \in verified[s]

(* No order of the threshold or more without a person's approval            *)
(* (mandate-enforcement.ts:120-125).  KeepsContract implies it.             *)
BigOrdersAreApproved ==
  \A s \in Sessions : order[s] # None /\ order[s].total >= Threshold => s \in approved

(* A mandate names the order of a session that used it, unless its name was *)
(* written by hand, and those of a completed session name some order, by    *)
(* hand or not (ibid:653-656, 690-693; ap2/mandates/[id]/route.ts:152).     *)
MandatesNameOrders ==
  /\ \A m \in MandateIds \ stamped : usedBy[m] # None =>
       /\ usedBy[m] \in Sessions /\ order[usedBy[m]] # None
       /\ m \in {order[usedBy[m]].pair[1], order[usedBy[m]].pair[2]}
  /\ \A s \in Sessions : state[s] = "completed" =>
       /\ order[s] # None
       /\ \A n \in {1, 2} : usedBy[order[s].pair[n]] # None

(* The handlers implement the promise of a checkout.                        *)
Contract == INSTANCE CheckoutContract WITH
  offered <- {s \in Sessions : state[s] # "absent"},
  live    <- {i \in Intents : Live(i)},
  granted <- verified,
  allowed <- approved

(* Whatever the requests interleave, whatever happens to the mandates and   *)
(* wherever they stop, a checkout changes only as CheckoutContract says     *)
(* (checkout/[sessionId]/route.ts:279-331, 543-706).                        *)
KeepsContract == Contract!CSpec

(* Violated: a minor's order has a consent on file (ibid:403-408).          *)
MinorsNeedConsent ==
  \A s \in Sessions : order[s] # None => order[s].customer \notin Minors \ Consents

(* Violated: one cart mandate pays for one order (ERD.md:88-93).            *)
MandateUsedOnce ==
  \A s, t \in Sessions : order[s] # None /\ order[t] # None /\ s # t =>
    order[s].pair[2] # order[t].pair[2]

(* Violated: an order is not above what its intent allows (ERD.md:82).      *)
OrderWithinMandate ==
  \A s \in Sessions : order[s] # None => order[s].total <= MaxAmount[order[s].pair[1]]

(* Violated: no route takes a mandate out of revoked.                       *)
RevokedStaysRevoked ==
  [][\A m \in MandateIds : status[m] = "revoked" => status'[m] = "revoked"]_status

(* Violated: what is under a revoked mandate is revoked.                    *)
RevocationReachesChildren ==
  \A m \in MandateIds : Parent[m] # None /\ status[Parent[m]] = "revoked" =>
    status[m] \in {"absent", "revoked"}

(* Violated: a session that was completed or failed stays so                *)
(* (ibid:228-229).                                                          *)
FinalStays ==
  [][\A s \in Sessions : state[s] \in {"completed", "failed"} => state'[s] = state[s]]_state
=============================================================================
