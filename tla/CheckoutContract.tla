-------------------------- MODULE CheckoutContract --------------------------
(***************************************************************************)
(* What an agentic checkout promises, without requests or their steps: an  *)
(* order is placed once, for the session's own total, under mandates that  *)
(* were granted to that session while the intent was live, with a person's *)
(* approval when it is big.  A mandate names the order that uses it up, or *)
(* what its owner wrote there by hand.  The header of                      *)
(* checkout/[sessionId]/route.ts and mandate-enforcement.ts state it.      *)
(***************************************************************************)
EXTENDS Naturals

CONSTANTS Sessions, Intents, Carts, Payments, Parent, Customers, MaxAmount, Threshold, Values,
          OrderIds, None

MandateIds == Intents \cup Carts \cup Payments

VARIABLES
  offered,   \* sessions that exist
  items,     \* what their lines add up to
  total,     \* what they declare as total
  live,      \* intents that authorise something now
  granted,   \* pairs of an intent and a cart granted to each session
  allowed,   \* sessions a person approved
  order,     \* the order of each session
  usedBy,    \* the order a mandate names
  stamped    \* mandates whose owner wrote that name

cvars == <<offered, items, total, live, granted, allowed, order, usedBy, stamped>>

CInit ==
  /\ offered = {} /\ live = {} /\ allowed = {}
  /\ items = [s \in Sessions |-> 0] /\ total = [s \in Sessions |-> 0]
  /\ granted = [s \in Sessions |-> {}]
  /\ order = [s \in Sessions |-> None]
  /\ usedBy = [m \in MandateIds |-> None] /\ stamped = {}

Offer(s, sum, asked) ==
  /\ s \notin offered
  /\ offered' = offered \cup {s}
  /\ items' = [items EXCEPT ![s] = sum]
  /\ total' = [total EXCEPT ![s] = asked]
  /\ UNCHANGED <<live, granted, allowed, order, usedBy, stamped>>

(* The owner of the mandates creates, revokes or changes them; time passes. *)
ChangeMandates ==
  /\ live' \in SUBSET Intents
  /\ \/ UNCHANGED <<usedBy, stamped>>
     \/ \E m \in MandateIds, o \in OrderIds :
          /\ usedBy' = [usedBy EXCEPT ![m] = o]
          /\ stamped' = stamped \cup {m}
  /\ UNCHANGED <<offered, items, total, granted, allowed, order>>

Grant(s, i, c) ==
  /\ s \in offered
  /\ i \in live /\ Parent[c] = i /\ items[s] <= MaxAmount[i]
  /\ granted' = [granted EXCEPT ![s] = @ \cup {<<i, c>>}]
  /\ UNCHANGED <<offered, items, total, live, allowed, order, usedBy, stamped>>

Allow(s) ==
  /\ s \in offered
  /\ allowed' = allowed \cup {s}
  /\ UNCHANGED <<offered, items, total, live, granted, order, usedBy, stamped>>

Place(s, i, c, who) ==
  /\ s \in offered /\ order[s] = None
  /\ <<i, c>> \in granted[s]
  /\ total[s] >= Threshold => s \in allowed
  /\ order' = [order EXCEPT ![s] = [pair |-> <<i, c>>, total |-> total[s], customer |-> who]]
  /\ UNCHANGED <<offered, items, total, live, granted, allowed, usedBy, stamped>>

(* Both mandates of an order are used up at once.                           *)
UseUp(s) ==
  /\ order[s] # None
  /\ LET used == {order[s].pair[1], order[s].pair[2]} IN
       /\ usedBy' = [m \in MandateIds |-> IF m \in used THEN s ELSE usedBy[m]]
       /\ stamped' = stamped \ used
  /\ live' = live \ {order[s].pair[1]}
  /\ UNCHANGED <<offered, items, total, granted, allowed, order>>

CNext ==
  \/ ChangeMandates
  \/ \E s \in Sessions :
       \/ \E sum, asked \in Values : Offer(s, sum, asked)
       \/ \E i \in Intents, c \in Carts : Grant(s, i, c)
       \/ \E i \in Intents, c \in Carts, who \in Customers : Place(s, i, c, who)
       \/ Allow(s) \/ UseUp(s)

CSpec == CInit /\ [][CNext]_cvars
=============================================================================
