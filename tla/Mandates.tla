------------------------------ MODULE Mandates ------------------------------
(***************************************************************************)
(* AP2 mandates: an intent authorises carts, a cart authorises payments.   *)
(* A mandate is created after its ancestors are looked at, revoked with    *)
(* its descendants, or changed by hand.                                    *)
(***************************************************************************)
EXTENDS Naturals

CONSTANTS
  Intents, Carts, Payments,  \* ids of mandates, by type
  Parent,                    \* AP2Mandate.parentMandateId
  Calls,                     \* requests in progress at once
  ByHand,                    \* PATCH /ap2/mandates/[id] is in use
  OrderIds,                  \* what it may write as orderId
  None

MandateIds == Intents \cup Carts \cup Payments

ASSUME MandateAssumption ==
  /\ Intents \cap Carts = {} /\ Intents \cap Payments = {} /\ Carts \cap Payments = {}
  /\ None \notin MandateIds
  /\ Parent \in [MandateIds -> Intents \cup Carts \cup {None}]
  /\ \A i \in Intents : Parent[i] = None
  /\ \A c \in Carts : Parent[c] \in Intents
  /\ \A y \in Payments : Parent[y] \in Carts
  /\ ByHand \in BOOLEAN /\ None \notin OrderIds

VARIABLES
  status,     \* AP2Mandate.status
  expired,    \* intents whose expiresAt has passed
  step,       \* where each request is
  mark,       \* the mandate each request is about
  usedBy,     \* AP2Mandate.orderId
  stamped     \* history: mandates whose orderId was last written by hand

names == <<usedBy, stamped>>

MandateStatuses == {"absent", "active", "revoked", "consumed"}

Live(i) == status[i] = "active" /\ i \notin expired

GoTo(p, s) == step' = [step EXCEPT ![p] = s]

(* A request finds what it needs and goes on to s.                          *)
Take(p, m, s) ==
  /\ step[p] = "idle"
  /\ GoTo(p, s)
  /\ mark' = [mark EXCEPT ![p] = m]

(* It ends, and forgets it.                                                 *)
Drop(p) == GoTo(p, "idle") /\ mark' = [mark EXCEPT ![p] = None]

-----------------------------------------------------------------------------
(* POST /ap2/mandates                                                       *)
CreateIntent(i) ==
  /\ i \in Intents /\ status[i] = "absent"
  /\ status' = [status EXCEPT ![i] = "active"]
  /\ UNCHANGED <<expired, step, mark, names>>

(* POST /ap2/mandates/cart reads the intent, its bounds are enforced on what*)
(* a second read finds, and the cart is created.                            *)
AskCart(p, i) ==
  /\ i \in Intents /\ Live(i)
  /\ Take(p, i, "check cart")
  /\ UNCHANGED <<status, expired, names>>

EnforceNewCart(p) ==
  /\ step[p] = "check cart"
  /\ IF Live(mark[p]) THEN GoTo(p, "create") /\ UNCHANGED mark ELSE Drop(p)
  /\ UNCHANGED <<status, expired, names>>

(* POST /ap2/mandates/payment reads the cart with its intent.               *)
AskPayment(p, c) ==
  /\ c \in Carts /\ status[c] = "active" /\ Live(Parent[c])
  /\ Take(p, c, "create")
  /\ UNCHANGED <<status, expired, names>>

CreateChild(p, m) ==
  /\ step[p] = "create"
  /\ Parent[m] = mark[p] /\ status[m] = "absent"
  /\ status' = [status EXCEPT ![m] = "active"]
  /\ Drop(p)
  /\ UNCHANGED <<expired, names>>

-----------------------------------------------------------------------------
(* PATCH /ap2/mandates/[id]/revoke: read, then revoke with the descendants. *)
AskRevoke(p, m) ==
  /\ status[m] \notin {"absent", "revoked"}
  /\ Take(p, m, "revoke")
  /\ UNCHANGED <<status, expired, names>>

Under(m) == {x \in MandateIds : \/ x = m
                                \/ Parent[x] = m
                                \/ Parent[x] \in Carts /\ Parent[Parent[x]] = m}

Revoke(p) ==
  /\ step[p] = "revoke"
  /\ status' = [x \in MandateIds |->
       IF x \in Under(mark[p]) /\ status[x] # "absent" THEN "revoked" ELSE status[x]]
  /\ Drop(p)
  /\ UNCHANGED <<expired, names>>

(* PATCH /ap2/mandates/[id]: a mandate that is not revoked gets the status  *)
(* asked for, forwards or back, and the orderId that may come with it.      *)
AskPatch(p, m) ==
  /\ ByHand
  /\ status[m] \notin {"absent", "revoked"}
  /\ Take(p, m, "patch")
  /\ UNCHANGED <<status, expired, names>>

Inscribe(m, o) ==
  /\ usedBy' = [usedBy EXCEPT ![m] = o]
  /\ stamped' = stamped \cup {m}

Patch(p, m, new) ==
  /\ step[p] = "patch" /\ mark[p] = m
  /\ status' = [status EXCEPT ![m] = new]
  /\ UNCHANGED names \/ \E o \in OrderIds : Inscribe(m, o)
  /\ Drop(p)
  /\ UNCHANGED expired

(* Without a status nothing the request reads can stop it: any mandate gets *)
(* any orderId, a revoked one too.                                          *)
Stamp(m, o) ==
  /\ ByHand
  /\ status[m] # "absent"
  /\ Inscribe(m, o)
  /\ UNCHANGED <<status, expired, step, mark>>

(* Time passes; it matters to an active intent only.                        *)
Expire(i) ==
  /\ i \in Intents \ expired /\ status[i] = "active"
  /\ expired' = expired \cup {i}
  /\ UNCHANGED <<status, step, mark, names>>

MandateInit ==
  /\ status = [m \in MandateIds |-> "absent"]
  /\ expired = {}
  /\ step = [p \in Calls |-> "idle"]
  /\ mark = [p \in Calls |-> None]
  /\ usedBy = [m \in MandateIds |-> None] /\ stamped = {}

MandateCall(p) ==
  \/ \E m \in MandateIds :
       \/ AskCart(p, m) \/ AskPayment(p, m) \/ CreateChild(p, m)
       \/ AskRevoke(p, m) \/ AskPatch(p, m)
       \/ \E new \in {"active", "consumed"} : Patch(p, m, new)
  \/ EnforceNewCart(p) \/ Revoke(p)

MandateNext ==
  \/ \E i \in Intents : CreateIntent(i) \/ Expire(i)
  \/ \E m \in MandateIds, o \in OrderIds : Stamp(m, o)
  \/ \E p \in Calls : MandateCall(p)
=============================================================================
