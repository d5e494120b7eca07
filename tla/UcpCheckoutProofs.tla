------------------------- MODULE UcpCheckoutProofs -------------------------
(***************************************************************************)
(* Proofs about UcpCheckout for any mandates, sessions, customers, amounts *)
(* and number of concurrent requests.                                      *)
(***************************************************************************)
EXTENDS UcpCheckout, TLAPS

MandateSteps == {"idle", "check cart", "create", "revoke", "patch"}
PairSteps == {"mandates", "bounds", "rules", "order", "consume", "finish"}
OpenSteps == PairSteps \cup {"escalate", "approve", "reject"}

(* What a request holds once it has read its session, and what a session    *)
(* holds once it exists.                                                    *)
HeldInv ==
  /\ \A p \in Calls : step[p] \in PairSteps => pair[p] \in Intents \X Carts
  /\ \A p \in Calls : step[p] \in OpenSteps =>
       target[p] \in Sessions /\ state[target[p]] # "absent"
  /\ \A s \in Sessions : state[s] # "absent" => total[s] \in Values
  /\ \A s \in Sessions : state[s] = "absent" => cart[s] = None /\ order[s] = None

LEMMA InitHolds == Init => TypeOK /\ HeldInv
BY MandateAssumption, CheckoutAssumption
   DEF Init, MandateInit, TypeOK, HeldInv, MandateStatuses, Steps, States, Pairs, PairSteps,
       OpenSteps, MandateIds

(* What the mandates' own requests do to the names: a hand writes one.      *)
Named ==
  \/ UNCHANGED names
  \/ \E m \in MandateIds, o \in OrderIds : Inscribe(m, o)

(* Their type, and that they are no session's.                              *)
LEMMA MandateFrame ==
  ASSUME TypeOK, Mandate
  PROVE  /\ status' \in [MandateIds -> MandateStatuses]
         /\ expired' \subseteq Intents
         /\ step' \in [Calls -> Steps]
         /\ mark' \in [Calls -> MandateIds \cup {None}]
         /\ \A p \in Calls : step'[p] \in OpenSteps => step'[p] = step[p]
         /\ usedBy' \in [MandateIds -> OrderIds \cup {None}] /\ stamped' \subseteq MandateIds
         /\ Named
         /\ UNCHANGED <<session, opened, order, target, pair, history>>
<1> USE DEF TypeOK, GoTo, Take, Drop, Steps, OpenSteps, PairSteps, MandateStatuses
<1>1. MandateNext /\ UNCHANGED <<session, opened, order, target, pair, history>>
  BY DEF Mandate
<1>4. ASSUME Named
      PROVE  usedBy' \in [MandateIds -> OrderIds \cup {None}] /\ stamped' \subseteq MandateIds
  BY <1>4 DEF Named, names, Inscribe
<1>2. ASSUME NEW i \in Intents, CreateIntent(i) \/ Expire(i)
      PROVE  /\ status' \in [MandateIds -> MandateStatuses] /\ expired' \subseteq Intents
             /\ step' = step /\ mark' = mark /\ Named
  BY <1>2 DEF CreateIntent, Expire, Named
<1>5. ASSUME NEW m \in MandateIds, NEW o \in OrderIds, Stamp(m, o)
      PROVE  UNCHANGED <<status, expired, step, mark>> /\ Named
  BY <1>5 DEF Stamp, Named
<1>3. ASSUME NEW p \in Calls, MandateCall(p)
      PROVE  /\ status' \in [MandateIds -> MandateStatuses]
             /\ expired' = expired
             /\ step' \in [Calls -> Steps]
             /\ mark' \in [Calls -> MandateIds \cup {None}]
             /\ \A q \in Calls : step'[q] \in OpenSteps => step'[q] = step[q]
             /\ Named
  <2>1. ASSUME NEW m \in MandateIds, NEW st \in MandateSteps, Take(p, m, st)
        PROVE  /\ step' \in [Calls -> Steps]
               /\ mark' \in [Calls -> MandateIds \cup {None}]
               /\ \A q \in Calls : step'[q] \in OpenSteps => step'[q] = step[q]
    BY <2>1 DEF MandateSteps
  <2>2. ASSUME NEW m \in MandateIds,
               AskCart(p, m) \/ AskPayment(p, m) \/ AskRevoke(p, m) \/ AskPatch(p, m)
        PROVE  /\ status' = status /\ expired' = expired /\ Named
               /\ \E st \in MandateSteps : Take(p, m, st)
    <3> HIDE DEF Take
    <3> QED BY <2>2 DEF AskCart, AskPayment, AskRevoke, AskPatch, MandateSteps, Named
  <2>6. ASSUME NEW m \in MandateIds, CreateChild(p, m)
        PROVE  /\ status' \in [MandateIds -> MandateStatuses] /\ expired' = expired
               /\ step' \in [Calls -> Steps]
               /\ mark' \in [Calls -> MandateIds \cup {None}]
               /\ \A q \in Calls : step'[q] \in OpenSteps => step'[q] = step[q]
               /\ Named
    BY <2>6 DEF CreateChild, Named
  <2>3. CASE EnforceNewCart(p)
    BY <2>3 DEF EnforceNewCart, Named
  <2>4. CASE Revoke(p)
    BY <2>4 DEF Revoke, Named
  <2>5. ASSUME NEW m \in MandateIds, NEW new \in {"active", "consumed"}, Patch(p, m, new)
        PROVE  /\ status' \in [MandateIds -> MandateStatuses] /\ expired' = expired
               /\ step' \in [Calls -> Steps]
               /\ mark' \in [Calls -> MandateIds \cup {None}]
               /\ \A q \in Calls : step'[q] \in OpenSteps => step'[q] = step[q]
               /\ Named
    <3>1. Named
      BY <2>5 DEF Patch, Named
    <3> QED BY <2>5, <3>1 DEF Patch
  <2> QED
    <3> HIDE DEF Take, GoTo, Drop
    <3> QED BY <1>3, <2>1, <2>2, <2>3, <2>4, <2>5, <2>6 DEF MandateCall
<1> QED BY <1>1, <1>2, <1>3, <1>4, <1>5 DEF MandateNext

-----------------------------------------------------------------------------
(* A request that ends leaves its variables typed.                          *)
LEMMA RestType ==
  ASSUME TypeOK, NEW p \in Calls, Rest(p)
  PROVE  /\ step' \in [Calls -> Steps] /\ step'[p] = "idle"
         /\ target' \in [Calls -> Sessions \cup {None}]
         /\ pair' \in [Calls -> Pairs]
         /\ \A q \in Calls \ {p} : step'[q] = step[q] /\ target'[q] = target[q] /\ pair'[q] = pair[q]
BY DEF TypeOK, Rest, GoTo, Steps, Pairs

(* What its last write leaves alone.                                        *)
LEMMA WriteType ==
  ASSUME TypeOK, HeldInv, NEW p \in Calls, NEW new \in States, new # "absent", Write(p, new)
  PROVE  /\ state' \in [Sessions -> States]
         /\ \A s \in Sessions : state'[s] = "absent" <=> state[s] = "absent" /\ s # target[p]
         /\ Rest(p)
         /\ UNCHANGED <<mandates, opened, order, names>>
BY DEF TypeOK, Write, Rest

LEMMA HeldRest ==
  ASSUME TypeOK, HeldInv, NEW p \in Calls, Rest(p),
         UNCHANGED <<opened, order>>,
         \A s \in Sessions : state'[s] = "absent" => state[s] = "absent",
         \A s \in Sessions : state[s] = "absent" => state'[s] = "absent" /\ cart'[s] = cart[s]
  PROVE  HeldInv'
<1>1. \A q \in Calls : step'[q] \in OpenSteps =>
        q # p /\ step'[q] = step[q] /\ target'[q] = target[q] /\ pair'[q] = pair[q]
  BY RestType DEF OpenSteps, PairSteps
<1> QED BY <1>1 DEF HeldInv, opened, OpenSteps

LEMMA HeldGoTo ==
  ASSUME TypeOK, HeldInv, NEW p \in Calls, NEW st, GoTo(p, st), step[p] \in PairSteps,
         UNCHANGED <<opened, target, pair, state, cart>>,
         \A s \in Sessions : state[s] = "absent" => order'[s] = order[s]
  PROVE  HeldInv'
<1>1. \A q \in Calls : step'[q] \in OpenSteps => step[q] \in OpenSteps
  BY DEF GoTo, TypeOK, OpenSteps
<1>2. \A q \in Calls : step'[q] \in PairSteps => step[q] \in PairSteps
  BY DEF GoTo, TypeOK
<1> QED BY <1>1, <1>2 DEF HeldInv, opened

LEMMA OpenStep ==
  ASSUME TypeOK, HeldInv, NEW p \in Calls, NEW s \in Sessions, SessionCall(p, s)
  PROVE  TypeOK' /\ HeldInv'
<1> USE DEF Steps, PairSteps, OpenSteps
<1>1. ASSUME NEW to, NEW used \in Pairs, NEW st \in OpenSteps, Open(p, s, to, used, st),
             st \in PairSteps => used \in Intents \X Carts
      PROVE  TypeOK' /\ HeldInv'
  <2>1. state[s] # "absent"
    BY <1>1 DEF Open, Valid, TypeOK, States
  <2>2. TypeOK'
    BY <1>1 DEF Open, GoTo, TypeOK, session, opened, mandates, names, history
  <2>3. \A q \in Calls \ {p} : step'[q] = step[q] /\ target'[q] = target[q] /\ pair'[q] = pair[q]
    BY <1>1 DEF Open, GoTo, TypeOK
  <2>4. step'[p] = st /\ target'[p] = s /\ pair'[p] = used
    BY <1>1 DEF Open, GoTo, TypeOK
  <2>5. UNCHANGED <<state, cart, total, order>>
    BY <1>1 DEF Open, session, opened
  <2> QED BY <1>1, <2>1, <2>2, <2>3, <2>4, <2>5 DEF HeldInv
<1>2. CASE AskEscalation(p, s)
  <2>1. <<None, None>> \in Pairs
    BY DEF Pairs
  <2> QED BY <1>1, <1>2, <2>1 DEF AskEscalation
<1>3. CASE AskComplete(p, s)
  <2>1. <<intent[s], cart[s]>> \in Intents \X Carts
    BY <1>3 DEF AskComplete, TypeOK
  <2>2. <<intent[s], cart[s]>> \in Pairs
    BY <2>1 DEF Pairs
  <2> QED BY <1>1, <1>3, <2>1, <2>2 DEF AskComplete
<1>4. ASSUME NEW i \in Intents, NEW c \in Carts, AskReady(p, s, i, c)
      PROVE  TypeOK' /\ HeldInv'
  <2>1. <<i, c>> \in Intents \X Carts /\ <<i, c>> \in Pairs
    BY DEF Pairs
  <2> QED BY <1>1, <1>4, <2>1 DEF AskReady
<1>5. ASSUME NEW st \in {"approve", "reject"}, AskDecision(p, s, st)
      PROVE  TypeOK' /\ HeldInv'
  <2>1. state[s] # "absent"
    BY <1>5 DEF AskDecision
  <2>2. TypeOK'
    BY <1>5 DEF AskDecision, GoTo, TypeOK, session, opened, mandates, names, history
  <2>3. \A q \in Calls \ {p} : step'[q] = step[q] /\ target'[q] = target[q]
    BY <1>5 DEF AskDecision, GoTo, TypeOK
  <2>4. step'[p] = st /\ target'[p] = s
    BY <1>5 DEF AskDecision, GoTo, TypeOK
  <2>5. UNCHANGED <<state, cart, total, order, pair>>
    BY <1>5 DEF AskDecision, session, opened
  <2> QED BY <1>5, <2>1, <2>2, <2>3, <2>4, <2>5 DEF HeldInv
<1> QED BY <1>2, <1>3, <1>4, <1>5 DEF SessionCall

LEMMA WriteStep ==
  ASSUME TypeOK, HeldInv, NEW p \in Calls, NEW new \in States, new # "absent",
         step[p] \in OpenSteps, Write(p, new),
         \/ UNCHANGED <<intent, cart>>
         \/ SavePair(p) /\ pair[p] \in Intents \X Carts,
         UNCHANGED verified, approved' \subseteq Sessions
  PROVE  TypeOK' /\ HeldInv'
<1>1. target[p] \in Sessions /\ state[target[p]] # "absent"
  BY DEF HeldInv
<1>2. intent' \in [Sessions -> Intents \cup {None}] /\ cart' \in [Sessions -> Carts \cup {None}]
  BY DEF SavePair, TypeOK
<1>3. \A s \in Sessions : state[s] = "absent" => cart'[s] = cart[s]
  BY <1>1 DEF SavePair, TypeOK
<1>4. TypeOK'
  BY <1>2, WriteType, RestType DEF TypeOK, mandates, names, opened
<1>5. HeldInv'
  <2>1. /\ \A s \in Sessions : state'[s] = "absent" <=> state[s] = "absent" /\ s # target[p]
        /\ Rest(p) /\ UNCHANGED <<opened, order>>
    BY WriteType
  <2> QED BY <1>1, <1>3, <2>1, HeldRest
<1> QED BY <1>4, <1>5

LEMMA ProgressStep ==
  ASSUME TypeOK, HeldInv, NEW p \in Calls, Progress(p)
  PROVE  TypeOK' /\ HeldInv'
<1> USE DEF OpenSteps, PairSteps
<1>1. CASE Escalate(p)
  <2>1. "requires_escalation" \in States /\ UNCHANGED <<intent, cart, verified, approved>>
    BY <1>1 DEF Escalate, States, history
  <2> QED BY <1>1, <2>1, WriteStep DEF Escalate, TypeOK
<1>2. ASSUME NEW declared \in BOOLEAN, EscalateByRules(p, declared)
      PROVE  TypeOK' /\ HeldInv'
  <2>1. "requires_escalation" \in States /\ pair[p] \in Intents \X Carts
    BY <1>2 DEF EscalateByRules, States, HeldInv
  <2> QED BY <1>2, <2>1, WriteStep DEF EscalateByRules, TypeOK, history
<1>3. ASSUME NEW who, NEW mode, EscalateByGates(p, who, mode)
      PROVE  TypeOK' /\ HeldInv'
  <2>1. "requires_escalation" \in States
    BY DEF States
  <2> QED BY <1>3, <2>1, WriteStep DEF EscalateByGates, TypeOK, history
<1>4. ASSUME NEW who, NEW mode, MakeReady(p, who, mode)
      PROVE  TypeOK' /\ HeldInv'
  <2>1. "ready_for_complete" \in States /\ pair[p] \in Intents \X Carts
    BY <1>4 DEF MakeReady, States, HeldInv
  <2> QED BY <1>4, <2>1, WriteStep DEF MakeReady, TypeOK, history
<1>5. CASE Approve(p)
  <2>1. "ready_for_complete" \in States /\ approved' \subseteq Sessions
    BY <1>5 DEF Approve, States, HeldInv, TypeOK
  <2> QED BY <1>5, <2>1, WriteStep DEF Approve
<1>6. CASE Reject(p) \/ Finish(p)
  <2>1. "failed" \in States /\ "completed" \in States
    BY DEF States
  <2> QED BY <1>6, <2>1, WriteStep DEF Reject, Finish, TypeOK, history
<1>7. CASE ReadMandates(p)
  <2>1. CASE Rest(p)
    <3>1. TypeOK'
      BY <1>7, <2>1, RestType DEF ReadMandates, TypeOK, mandates, names, session, opened, history
    <3>2. HeldInv'
      BY <1>7, <2>1, HeldRest DEF ReadMandates, session
    <3> QED BY <3>1, <3>2
  <2>2. CASE GoTo(p, "bounds") /\ UNCHANGED <<target, pair>>
    <3>1. TypeOK'
      BY <1>7, <2>2 DEF ReadMandates, GoTo, Steps, TypeOK, mandates, names, session, opened, history
    <3>2. HeldInv'
      BY <1>7, <2>2, HeldGoTo DEF ReadMandates, session
    <3> QED BY <3>1, <3>2
  <2> QED BY <1>7, <2>1, <2>2 DEF ReadMandates
<1>8. CASE EnforceBounds(p)
  <2>1. CASE Rest(p) /\ UNCHANGED verified
    <3>1. TypeOK'
      BY <1>8, <2>1, RestType DEF EnforceBounds, TypeOK, mandates, names, session, opened
    <3>2. HeldInv'
      BY <1>8, <2>1, HeldRest DEF EnforceBounds, session
    <3> QED BY <3>1, <3>2
  <2>2. CASE /\ GoTo(p, "rules") /\ UNCHANGED <<target, pair>>
             /\ verified' = [verified EXCEPT ![target[p]] = @ \cup {pair[p]}]
    <3>1. pair[p] \in Intents \X Carts /\ target[p] \in Sessions
      BY <1>8 DEF EnforceBounds, HeldInv
    <3>2. verified' \in [Sessions -> SUBSET (Intents \X Carts)]
      BY <2>2, <3>1 DEF TypeOK
    <3>3. TypeOK'
      BY <1>8, <2>2, <3>2 DEF EnforceBounds, GoTo, Steps, TypeOK, mandates, names, session, opened
    <3>4. HeldInv'
      BY <1>8, <2>2, HeldGoTo DEF EnforceBounds, session
    <3> QED BY <3>3, <3>4
  <2> QED BY <1>8, <2>1, <2>2 DEF EnforceBounds
<1>9. CASE Refuse(p) \/ Abort(p)
  <2>1. Rest(p) /\ UNCHANGED <<status, expired, session, opened, order, names, history>>
    BY <1>9 DEF Refuse, Abort, mandates
  <2>2. mark' \in [Calls -> MandateIds \cup {None}]
    BY <1>9 DEF Refuse, Abort, mandates, TypeOK
  <2>3. TypeOK'
    BY <2>1, <2>2, RestType DEF TypeOK, names, session, opened, history
  <2>4. HeldInv'
    BY <2>1, HeldRest DEF session
  <2> QED BY <2>3, <2>4
<1>10. ASSUME NEW who \in Customers, CreateOrder(p, who)
       PROVE  TypeOK' /\ HeldInv'
  <2>1. /\ pair[p] \in Intents \X Carts /\ target[p] \in Sessions
        /\ state[target[p]] # "absent" /\ total[target[p]] \in Values
    BY <1>10 DEF CreateOrder, HeldInv
  <2>2. PICK o \in Orders : o = [pair |-> pair[p], total |-> total[target[p]], customer |-> who]
    BY <2>1 DEF Orders
  <2>3. order' = [order EXCEPT ![target[p]] = o]
    BY <1>10, <2>2 DEF CreateOrder
  <2>4. order' \in [Sessions -> Orders \cup {None}]
    BY <2>3 DEF TypeOK
  <2>5. TypeOK'
    BY <1>10, <2>4 DEF CreateOrder, GoTo, Steps, TypeOK, mandates, names, session, opened, history
  <2>6. \A s \in Sessions : state[s] = "absent" => order'[s] = order[s]
    BY <2>1, <2>3 DEF TypeOK
  <2>7. HeldInv'
    BY <1>10, <2>6, HeldGoTo DEF CreateOrder, session
  <2> QED BY <2>5, <2>7
<1>11. CASE Consume(p)
  <2>1. usedBy' \in [MandateIds -> OrderIds \cup {None}] /\ stamped' \subseteq MandateIds
    <3>1. target[p] \in OrderIds
      BY <1>11, CheckoutAssumption DEF Consume, HeldInv
    <3> QED BY <1>11, <3>1 DEF Consume, TypeOK
  <2>2. status' \in [MandateIds -> MandateStatuses]
    BY <1>11 DEF Consume, TypeOK, MandateStatuses
  <2>3. TypeOK'
    BY <1>11, <2>1, <2>2 DEF Consume, GoTo, Steps, TypeOK, session, opened, history
  <2>4. HeldInv'
    BY <1>11, HeldGoTo DEF Consume, session
  <2> QED BY <2>3, <2>4
<1> QED BY <1>1, <1>2, <1>3, <1>4, <1>5, <1>6, <1>7, <1>8, <1>9, <1>10, <1>11 DEF Progress

LEMMA CreateStep ==
  ASSUME TypeOK, HeldInv, NEW s \in Sessions, NEW i \in Intents \cup {None},
         NEW sum \in Values, NEW asked \in Values, CreateSession(s, i, sum, asked)
  PROVE  TypeOK' /\ HeldInv'
<1>1. TypeOK'
  BY DEF CreateSession, TypeOK, States, mandates, names, history
<1>2. \A t \in Sessions : state'[t] = "absent" => state[t] = "absent"
  BY DEF CreateSession, TypeOK
<1>3. \A t \in Sessions : state'[t] # "absent" => total'[t] \in Values
  BY DEF CreateSession, TypeOK, HeldInv
<1>4. \A t \in Sessions : state[t] # "absent" => state'[t] # "absent"
  BY DEF CreateSession, TypeOK
<1>5. UNCHANGED <<step, pair, target, cart, order>>
  BY DEF CreateSession
<1> QED BY <1>1, <1>2, <1>3, <1>4, <1>5 DEF HeldInv

LEMMA TypeStep == TypeOK /\ HeldInv /\ [Next]_vars => TypeOK' /\ HeldInv'
<1> SUFFICES ASSUME TypeOK, HeldInv, [Next]_vars PROVE TypeOK' /\ HeldInv'
  OBVIOUS
<1>1. CASE UNCHANGED vars
  BY <1>1 DEF vars, mandates, names, session, opened, history, TypeOK, HeldInv
<1>2. CASE Mandate
  <2>1. TypeOK'
    BY <1>2, MandateFrame DEF TypeOK, session, opened, history
  <2>2. HeldInv'
    BY <1>2, MandateFrame DEF HeldInv, session, opened, OpenSteps
  <2> QED BY <2>1, <2>2
<1> QED BY <1>1, <1>2, CreateStep, OpenStep, ProgressStep DEF Next

(* Every variable keeps its type (UcpCheckoutSession, AP2Mandate and Order  *)
(* rows, and the requests in progress).                                     *)
THEOREM CheckoutTypeCorrect == Spec => []TypeOK
BY InitHolds, TypeStep, PTL DEF Spec

(* What requests and sessions hold.                                         *)
THEOREM RequestsHoldWhatTheyRead == Spec => []HeldInv
BY InitHolds, TypeStep, PTL DEF Spec

-----------------------------------------------------------------------------
(* A pair of mandates that may serve a session.                             *)
Sound(q, s) ==
  /\ Parent[q[2]] = q[1]
  /\ items[s] <= MaxAmount[q[1]]
  /\ q \in verified[s]

CheckedSteps == {"rules", "order", "consume", "finish"}

(* The pair was sound wherever it is kept: in a request past its checks, in *)
(* the session and in the order.                                            *)
AuthInv ==
  /\ \A p \in Calls : step[p] = "bounds" => Parent[pair[p][2]] = pair[p][1]
  /\ \A p \in Calls : step[p] \in CheckedSteps => Sound(pair[p], target[p])
  /\ \A s \in Sessions : cart[s] # None => Sound(<<intent[s], cart[s]>>, s)
  /\ \A s \in Sessions : order[s] # None => Sound(order[s].pair, s)

LEMMA AuthInit == Init => AuthInv
BY DEF Init, MandateInit, AuthInv, CheckedSteps

(* A step that lets no request pass a check and saves no pair.              *)
LEMMA AuthFrame ==
  ASSUME AuthInv, UNCHANGED <<items, intent, cart, order, verified>>,
         \A p \in Calls : step'[p] \in CheckedSteps \cup {"bounds"} =>
           /\ pair'[p] = pair[p] /\ target'[p] = target[p]
           /\ step'[p] = "bounds" => step[p] = "bounds"
           /\ step'[p] \in CheckedSteps => step[p] \in CheckedSteps
  PROVE  AuthInv'
BY DEF AuthInv, Sound

LEMMA AuthRest ==
  ASSUME TypeOK, AuthInv, NEW p \in Calls, Rest(p),
         UNCHANGED <<items, intent, cart, order, verified>>
  PROVE  AuthInv'
<1>1. \A q \in Calls : step'[q] \in CheckedSteps \cup {"bounds"} => q # p
  BY RestType DEF CheckedSteps
<1> QED BY <1>1, RestType, AuthFrame

(* A request past its checks saves its pair and ends.                       *)
LEMMA AuthSave ==
  ASSUME TypeOK, HeldInv, AuthInv, NEW p \in Calls, step[p] = "rules", SavePair(p), Rest(p),
         UNCHANGED <<items, order, verified>>
  PROVE  AuthInv'
<1>1. /\ target[p] \in Sessions /\ pair[p] \in Intents \X Carts
      /\ Sound(pair[p], target[p])
  BY DEF HeldInv, OpenSteps, PairSteps, AuthInv, CheckedSteps
<1>2. \A q \in Calls : step'[q] \in CheckedSteps \cup {"bounds"} => q # p
  BY RestType DEF CheckedSteps
<1>3. intent'[target[p]] = pair[p][1] /\ cart'[target[p]] = pair[p][2]
  BY <1>1 DEF SavePair, TypeOK
<1>4. \A s \in Sessions \ {target[p]} : intent'[s] = intent[s] /\ cart'[s] = cart[s]
  BY DEF SavePair, TypeOK
<1>5. <<intent'[target[p]], cart'[target[p]]>> = pair[p]
  BY <1>1, <1>3
<1>6. ASSUME NEW s \in Sessions, cart'[s] # None
      PROVE  Sound(<<intent[s], cart[s]>>, s)'
  <2>1. CASE s = target[p]
    <3>1. /\ Parent[pair[p][2]] = pair[p][1]
          /\ items'[s] <= MaxAmount[pair[p][1]]
          /\ pair[p] \in verified'[s]
      BY <1>1, <2>1 DEF Sound
    <3> QED BY <1>5, <2>1, <3>1 DEF Sound
  <2>2. CASE s # target[p]
    <3>1. intent'[s] = intent[s] /\ cart'[s] = cart[s]
      BY <1>4, <2>2
    <3>2. Sound(<<intent[s], cart[s]>>, s)
      BY <1>6, <3>1 DEF AuthInv
    <3> QED BY <3>1, <3>2 DEF Sound
  <2> QED BY <2>1, <2>2
<1>7. \A q \in Calls : step'[q] \in CheckedSteps \cup {"bounds"} =>
        step'[q] = step[q] /\ pair'[q] = pair[q] /\ target'[q] = target[q]
  BY <1>2, RestType
<1>8. \A q \in Calls : step'[q] \in CheckedSteps => Sound(pair[q], target[q])'
  BY <1>7 DEF AuthInv, Sound
<1> QED BY <1>6, <1>7, <1>8 DEF AuthInv, Sound

LEMMA AuthOpen ==
  ASSUME TypeOK, HeldInv, AuthInv, NEW p \in Calls, NEW s \in Sessions, SessionCall(p, s)
  PROVE  AuthInv'
<1>1. ASSUME NEW to, NEW used, NEW st \in {"escalate", "mandates"}, Open(p, s, to, used, st)
      PROVE  AuthInv'
  BY <1>1, AuthFrame DEF Open, GoTo, TypeOK, CheckedSteps, session, opened, history
<1>2. CASE AskComplete(p, s)
  <2>1. /\ step' = [step EXCEPT ![p] = "order"] /\ target' = [target EXCEPT ![p] = s]
        /\ pair' = [pair EXCEPT ![p] = <<intent[s], cart[s]>>]
        /\ UNCHANGED <<items, intent, cart, order, verified>>
    BY <1>2 DEF AskComplete, Open, GoTo, session, opened, history
  <2>2. Sound(<<intent[s], cart[s]>>, s)
    BY <1>2 DEF AskComplete, AuthInv
  <2>3. step'[p] = "order" /\ target'[p] = s /\ pair'[p] = <<intent[s], cart[s]>>
    BY <2>1 DEF TypeOK
  <2>4. \A q \in Calls \ {p} : step'[q] = step[q] /\ target'[q] = target[q] /\ pair'[q] = pair[q]
    BY <2>1 DEF TypeOK
  <2> QED BY <2>1, <2>2, <2>3, <2>4 DEF AuthInv, Sound
<1>3. ASSUME NEW st \in {"approve", "reject"}, AskDecision(p, s, st)
      PROVE  AuthInv'
  BY <1>3, AuthFrame DEF AskDecision, GoTo, TypeOK, CheckedSteps, session, opened, history
<1> QED BY <1>1, <1>2, <1>3 DEF SessionCall, AskEscalation, AskReady

LEMMA AuthProgress ==
  ASSUME TypeOK, HeldInv, AuthInv, NEW p \in Calls, Progress(p)
  PROVE  AuthInv'
<1>1. CASE \/ Escalate(p) \/ Refuse(p) \/ Approve(p) \/ Reject(p) \/ Finish(p) \/ Abort(p)
           \/ \E who \in Customers \cup {None}, mode \in Modes : EscalateByGates(p, who, mode)
  <2>1. Rest(p) /\ UNCHANGED <<items, intent, cart, order, verified>>
    BY <1>1 DEF Escalate, Refuse, Approve, Reject, Finish, Abort, EscalateByGates, Write,
               session, opened, history
  <2> QED BY <2>1, AuthRest
<1>2. CASE \/ \E declared \in BOOLEAN : EscalateByRules(p, declared)
           \/ \E who \in Customers \cup {None}, mode \in Modes : MakeReady(p, who, mode)
  <2>1. /\ step[p] = "rules" /\ SavePair(p) /\ Rest(p)
        /\ UNCHANGED <<items, order, verified>>
    BY <1>2 DEF EscalateByRules, MakeReady, Write, opened, history
  <2> QED BY <2>1, AuthSave
<1>3. CASE ReadMandates(p)
  <2>1. CASE Rest(p)
    BY <1>3, <2>1, AuthRest DEF ReadMandates, session, opened, history
  <2>2. CASE Linked(p) /\ GoTo(p, "bounds") /\ UNCHANGED <<target, pair>>
    <3>1. step' = [step EXCEPT ![p] = "bounds"] /\ Parent[pair[p][2]] = pair[p][1]
      BY <2>2 DEF GoTo, Linked
    <3>2. UNCHANGED <<items, intent, cart, order, verified, target, pair>>
      BY <1>3, <2>2 DEF ReadMandates, session, opened, history
    <3>3. \A q \in Calls : step'[q] \in CheckedSteps => step[q] \in CheckedSteps
      BY <3>1 DEF TypeOK, CheckedSteps
    <3>4. \A q \in Calls : step'[q] = "bounds" => q = p \/ step[q] = "bounds"
      BY <3>1 DEF TypeOK
    <3> QED BY <3>1, <3>2, <3>3, <3>4 DEF AuthInv, Sound
  <2> QED BY <1>3, <2>1, <2>2 DEF ReadMandates
<1>4. CASE EnforceBounds(p)
  <2>1. CASE Rest(p) /\ UNCHANGED verified
    BY <1>4, <2>1, AuthRest DEF EnforceBounds, session, opened
  <2>2. CASE /\ WithinBounds(pair[p][1], target[p])
             /\ GoTo(p, "rules") /\ UNCHANGED <<target, pair>>
             /\ verified' = [verified EXCEPT ![target[p]] = @ \cup {pair[p]}]
    <3>1. target[p] \in Sessions /\ Parent[pair[p][2]] = pair[p][1]
      BY <1>4 DEF EnforceBounds, HeldInv, OpenSteps, PairSteps, AuthInv
    <3>2. items[target[p]] <= MaxAmount[pair[p][1]]
      BY <2>2 DEF WithinBounds
    <3>3. pair[p] \in verified'[target[p]]
      BY <2>2, <3>1 DEF TypeOK
    <3>4. \A s \in Sessions : verified[s] \subseteq verified'[s]
      BY <2>2 DEF TypeOK
    <3>5. UNCHANGED <<items, intent, cart, order, target, pair>>
      BY <1>4, <2>2 DEF EnforceBounds, session, opened
    <3>6. \A q \in Calls : /\ step'[q] \in CheckedSteps => q = p \/ step[q] \in CheckedSteps
                           /\ step'[q] = "bounds" => step[q] = "bounds"
      BY <2>2 DEF GoTo, TypeOK, CheckedSteps
    <3>7. \A q \in Calls : step[q] \in CheckedSteps => target[q] \in Sessions
      BY DEF HeldInv, OpenSteps, PairSteps, CheckedSteps
    <3>8. \A q \in Calls : step'[q] \in CheckedSteps => Sound(pair[q], target[q])'
      BY <3>1, <3>2, <3>3, <3>4, <3>5, <3>6, <3>7 DEF AuthInv, Sound
    <3>9. \A s \in Sessions : /\ cart'[s] # None => Sound(<<intent[s], cart[s]>>, s)'
                              /\ order'[s] # None => Sound(order[s].pair, s)'
      BY <3>4, <3>5 DEF AuthInv, Sound
    <3> QED BY <3>5, <3>6, <3>8, <3>9 DEF AuthInv
  <2> QED BY <1>4, <2>1, <2>2 DEF EnforceBounds
<1>5. ASSUME NEW who \in Customers, CreateOrder(p, who)
      PROVE  AuthInv'
  <2>1. /\ target[p] \in Sessions /\ Sound(pair[p], target[p])
        /\ UNCHANGED <<items, intent, cart, verified, target, pair>>
    <3>1. step[p] = "order" /\ UNCHANGED <<session, opened, history, target, pair>>
      BY <1>5 DEF CreateOrder
    <3>2. target[p] \in Sessions /\ Sound(pair[p], target[p])
      BY <3>1 DEF HeldInv, OpenSteps, PairSteps, AuthInv, CheckedSteps
    <3> QED BY <3>1, <3>2 DEF session, opened, history
  <2>2. PICK o : /\ o = [pair |-> pair[p], total |-> total[target[p]], customer |-> who]
                 /\ order' = [order EXCEPT ![target[p]] = o]
    BY <1>5 DEF CreateOrder
  <2>3. o.pair = pair[p]
    BY <2>2
  <2>4. \A q \in Calls : /\ step'[q] \in CheckedSteps => step[q] \in CheckedSteps
                         /\ step'[q] = "bounds" => step[q] = "bounds"
    BY <1>5 DEF CreateOrder, GoTo, TypeOK, CheckedSteps
  <2>5. \A s \in Sessions : order'[s] = IF s = target[p] THEN o ELSE order[s]
    BY <2>2 DEF TypeOK
  <2> QED BY <2>1, <2>3, <2>4, <2>5 DEF AuthInv, Sound
<1>6. CASE Consume(p)
  BY <1>6, AuthFrame DEF Consume, GoTo, TypeOK, CheckedSteps, session, opened, history
<1> QED BY <1>1, <1>2, <1>3, <1>4, <1>5, <1>6 DEF Progress

LEMMA AuthStep == TypeOK /\ HeldInv /\ AuthInv /\ [Next]_vars => AuthInv'
<1> SUFFICES ASSUME TypeOK, HeldInv, AuthInv, [Next]_vars PROVE AuthInv'
  OBVIOUS
<1>1. CASE UNCHANGED vars
  BY <1>1, AuthFrame DEF vars, session, opened, history
<1>2. CASE Mandate
  BY <1>2, MandateFrame, AuthFrame DEF session, opened, history, OpenSteps, PairSteps,
     CheckedSteps
<1>3. ASSUME NEW s \in Sessions, NEW i \in Intents \cup {None}, NEW sum \in Values,
             NEW asked \in Values, CreateSession(s, i, sum, asked)
      PROVE  AuthInv'
  <2>1. /\ state[s] = "absent" /\ cart[s] = None /\ order[s] = None
        /\ UNCHANGED <<step, cart, order, target, pair, verified>>
    BY <1>3 DEF CreateSession, HeldInv, history
  <2>2. \A t \in Sessions \ {s} : items'[t] = items[t] /\ intent'[t] = intent[t]
    BY <1>3 DEF CreateSession, TypeOK
  <2>3. \A p \in Calls : step[p] \in CheckedSteps => target[p] \in Sessions \ {s}
    BY <2>1 DEF HeldInv, CheckedSteps, OpenSteps, PairSteps
  <2> QED BY <2>1, <2>2, <2>3 DEF AuthInv, Sound
<1> QED BY <1>1, <1>2, <1>3, AuthOpen, AuthProgress DEF Next

(* The mandates of an order passed every check for its session              *)
(* (checkout/[sessionId]/route.ts:279-331).                                 *)
THEOREM OrdersAreAuthorised == Spec => []OrdersWereAuthorised
<1>1. TypeOK /\ AuthInv => OrdersWereAuthorised
  <2> SUFFICES ASSUME TypeOK, AuthInv, NEW s \in Sessions, order[s] # None
               PROVE  /\ Parent[order[s].pair[2]] = order[s].pair[1]
                      /\ items[s] <= MaxAmount[order[s].pair[1]]
                      /\ <<order[s].pair[1], order[s].pair[2]>> \in verified[s]
    BY DEF OrdersWereAuthorised
  <2>1. order[s].pair \in Intents \X Carts
    BY DEF TypeOK, Orders
  <2>2. <<order[s].pair[1], order[s].pair[2]>> = order[s].pair
    BY <2>1
  <2> QED BY <2>2 DEF AuthInv, Sound
<1> QED
  BY <1>1, AuthInit, AuthStep, CheckoutTypeCorrect, RequestsHoldWhatTheyRead, PTL DEF Spec

-----------------------------------------------------------------------------
(* A big session is ready, is being completed or has an order only after a  *)
(* person approved it.                                                      *)
Big(s) == total[s] >= Threshold

BigInv ==
  /\ \A s \in Sessions : state[s] = "ready_for_complete" /\ Big(s) => s \in approved
  /\ \A p \in Calls : step[p] = "order" /\ Big(target[p]) => target[p] \in approved
  /\ \A s \in Sessions : order[s] # None =>
       order[s].total = total[s] /\ (Big(s) => s \in approved)

LEMMA BigInit == Init => BigInv
BY DEF Init, MandateInit, BigInv

LEMMA BigFrame ==
  ASSUME BigInv, UNCHANGED <<total, order>>, approved \subseteq approved',
         \A s \in Sessions : state'[s] = "ready_for_complete" =>
           state[s] = "ready_for_complete" \/ ~ Big(s) \/ s \in approved',
         \A p \in Calls : step'[p] = "order" => step[p] = "order" /\ target'[p] = target[p]
  PROVE  BigInv'
BY DEF BigInv, Big

LEMMA BigProgress ==
  ASSUME TypeOK, HeldInv, BigInv, NEW p \in Calls, Progress(p)
  PROVE  BigInv'
<1>1. CASE \/ Escalate(p) \/ Reject(p) \/ Finish(p) \/ Refuse(p) \/ Abort(p)
           \/ \E declared \in BOOLEAN : EscalateByRules(p, declared)
           \/ \E who \in Customers \cup {None}, mode \in Modes : EscalateByGates(p, who, mode)
  <2>1. Rest(p) /\ UNCHANGED <<total, order, approved>>
    BY <1>1 DEF Escalate, Reject, Finish, Refuse, Abort, EscalateByRules, EscalateByGates,
               Write, opened, history
  <2>2. \A s \in Sessions : state'[s] = "ready_for_complete" => state[s] = "ready_for_complete"
    BY <1>1 DEF Escalate, Reject, Finish, Refuse, Abort, EscalateByRules, EscalateByGates,
               Write, session, TypeOK
  <2> QED BY <2>1, <2>2, RestType, BigFrame
<1>2. ASSUME NEW who, NEW mode, MakeReady(p, who, mode)
      PROVE  BigInv'
  <2>1. Rest(p) /\ UNCHANGED <<total, order, approved>> /\ ~ Big(target[p])
    BY <1>2 DEF MakeReady, Write, opened, history, OrderValueRule, Big
  <2>2. \A s \in Sessions : state'[s] = "ready_for_complete" =>
          state[s] = "ready_for_complete" \/ s = target[p]
    BY <1>2 DEF MakeReady, Write, TypeOK
  <2> QED BY <2>1, <2>2, RestType, BigFrame
<1>3. CASE Approve(p)
  <2>1. Rest(p) /\ UNCHANGED <<total, order>> /\ approved' = approved \cup {target[p]}
    BY <1>3 DEF Approve, Write, opened
  <2>2. \A s \in Sessions : state'[s] = "ready_for_complete" =>
          state[s] = "ready_for_complete" \/ s = target[p]
    BY <1>3 DEF Approve, Write, TypeOK
  <2> QED BY <2>1, <2>2, RestType, BigFrame
<1>4. CASE ReadMandates(p) \/ EnforceBounds(p) \/ Consume(p)
  <2>1. UNCHANGED <<total, order, approved, state>>
    BY <1>4 DEF ReadMandates, EnforceBounds, Consume, session, opened, history
  <2>2. \A q \in Calls : step'[q] = "order" => step[q] = "order" /\ target'[q] = target[q]
    BY <1>4 DEF ReadMandates, EnforceBounds, Consume, Rest, GoTo, TypeOK
  <2> QED BY <2>1, <2>2, BigFrame
<1>5. ASSUME NEW who \in Customers, CreateOrder(p, who)
      PROVE  BigInv'
  <2>1. /\ step[p] = "order" /\ target[p] \in Sessions
        /\ UNCHANGED <<total, state, approved, target>>
    BY <1>5 DEF CreateOrder, HeldInv, OpenSteps, PairSteps, session, opened, history
  <2>2. PICK o : /\ o = [pair |-> pair[p], total |-> total[target[p]], customer |-> who]
                 /\ order' = [order EXCEPT ![target[p]] = o]
    BY <1>5 DEF CreateOrder
  <2>3. o.total = total[target[p]]
    BY <2>2
  <2>4. \A s \in Sessions : order'[s] = IF s = target[p] THEN o ELSE order[s]
    BY <2>2 DEF TypeOK
  <2>5. Big(target[p]) => target[p] \in approved
    BY <2>1 DEF BigInv
  <2>6. \A q \in Calls : step'[q] = "order" => step[q] = "order"
    BY <1>5 DEF CreateOrder, GoTo, TypeOK
  <2> QED BY <2>1, <2>3, <2>4, <2>5, <2>6 DEF BigInv, Big
<1> QED BY <1>1, <1>2, <1>3, <1>4, <1>5 DEF Progress

LEMMA BigOpen ==
  ASSUME TypeOK, HeldInv, BigInv, NEW p \in Calls, NEW s \in Sessions, SessionCall(p, s)
  PROVE  BigInv'
<1>1. UNCHANGED <<total, order, approved, state>>
  BY DEF SessionCall, AskEscalation, AskReady, AskComplete, AskDecision, Open, session, opened,
         history
<1>2. CASE AskComplete(p, s)
  <2>1. state[s] = "ready_for_complete"
    BY <1>2 DEF AskComplete, Open, Valid, TypeOK, States
  <2>2. \A q \in Calls : step'[q] = "order" =>
          \/ q = p /\ target'[q] = s
          \/ step[q] = "order" /\ target'[q] = target[q]
    BY <1>2 DEF AskComplete, Open, GoTo, TypeOK
  <2> QED BY <1>1, <2>1, <2>2 DEF BigInv, Big
<1>3. CASE ~ AskComplete(p, s)
  <2>1. \A q \in Calls : step'[q] = "order" => step[q] = "order" /\ target'[q] = target[q]
    BY <1>3 DEF SessionCall, AskEscalation, AskReady, AskDecision, Open, GoTo, TypeOK
  <2> QED BY <1>1, <2>1, BigFrame
<1> QED BY <1>2, <1>3

LEMMA BigStep == TypeOK /\ HeldInv /\ BigInv /\ [Next]_vars => BigInv'
<1> SUFFICES ASSUME TypeOK, HeldInv, BigInv, [Next]_vars PROVE BigInv'
  OBVIOUS
<1>1. CASE UNCHANGED vars
  BY <1>1, BigFrame DEF vars, session, opened, history
<1>2. CASE Mandate
  BY <1>2, MandateFrame, BigFrame DEF session, opened, history, OpenSteps, PairSteps
<1>3. ASSUME NEW s \in Sessions, NEW i \in Intents \cup {None}, NEW sum \in Values,
             NEW asked \in Values, CreateSession(s, i, sum, asked)
      PROVE  BigInv'
  <2>1. /\ state[s] = "absent" /\ order[s] = None /\ state'[s] = "incomplete"
        /\ UNCHANGED <<step, order, target, approved>>
    BY <1>3 DEF CreateSession, HeldInv, history, TypeOK
  <2>2. \A t \in Sessions \ {s} : total'[t] = total[t] /\ state'[t] = state[t]
    BY <1>3 DEF CreateSession, TypeOK
  <2>3. \A p \in Calls : step[p] = "order" => target[p] \in Sessions \ {s}
    BY <2>1 DEF HeldInv, OpenSteps, PairSteps
  <2> QED BY <2>1, <2>2, <2>3 DEF BigInv, Big
<1> QED BY <1>1, <1>2, <1>3, BigOpen, BigProgress DEF Next

(* An order of the threshold or more had a person's approval                *)
(* (mandate-enforcement.ts:120-125).                                        *)
THEOREM BigOrdersHadApproval == Spec => []BigOrdersAreApproved
<1>1. BigInv => BigOrdersAreApproved
  BY DEF BigInv, Big, BigOrdersAreApproved
<1> QED BY <1>1, BigInit, BigStep, CheckoutTypeCorrect, RequestsHoldWhatTheyRead, PTL DEF Spec

-----------------------------------------------------------------------------
(* A request that has created its order is about that order; one that has   *)
(* consumed its mandates left them with a name.                             *)
NameInv ==
  /\ MandatesNameOrders
  /\ \A p \in Calls : step[p] \in {"consume", "finish"} =>
       order[target[p]] # None /\ order[target[p]].pair = pair[p]
  /\ \A p \in Calls : step[p] = "finish" => \A n \in {1, 2} : usedBy[pair[p][n]] # None

LEMMA NameInit == Init => NameInv
BY DEF Init, MandateInit, NameInv, MandatesNameOrders

(* A hand leaves every mandate that had a name with one, and what it did not*)
(* write as it was.                                                         *)
LEMMA NamesKept ==
  ASSUME TypeOK, Named
  PROVE  /\ \A m \in MandateIds : usedBy[m] # None => usedBy'[m] # None
         /\ \A m \in MandateIds \ stamped' : m \notin stamped /\ usedBy'[m] = usedBy[m]
<1>1. CASE UNCHANGED names
  BY <1>1 DEF names
<1>2. ASSUME NEW m \in MandateIds, NEW o \in OrderIds, Inscribe(m, o)
      PROVE  \A x \in MandateIds :
               /\ usedBy'[x] = IF x = m THEN o ELSE usedBy[x]
               /\ x \in stamped' <=> x = m \/ x \in stamped
  BY <1>2 DEF Inscribe, TypeOK
<1> QED BY <1>1, <1>2, MandateAssumption DEF Named

LEMMA PairOfMandates ==
  ASSUME NEW q \in Intents \X Carts, NEW n \in {1, 2} PROVE q[n] \in MandateIds
BY DEF MandateIds

LEMMA NameFrame ==
  ASSUME TypeOK, HeldInv, NameInv, UNCHANGED order, Named,
         \A s \in Sessions : state'[s] = "completed" => state[s] = "completed",
         \A p \in Calls : step'[p] \in {"consume", "finish"} =>
           step'[p] = step[p] /\ target'[p] = target[p] /\ pair'[p] = pair[p]
  PROVE  NameInv'
<1>1. \A m \in MandateIds \ stamped' : usedBy'[m] # None =>
        /\ usedBy'[m] \in Sessions /\ order'[usedBy'[m]] # None
        /\ m \in {order'[usedBy'[m]].pair[1], order'[usedBy'[m]].pair[2]}
  BY NamesKept DEF NameInv, MandatesNameOrders
<1>2. ASSUME NEW s \in Sessions, state'[s] = "completed", NEW n \in {1, 2}
      PROVE  order'[s] # None /\ usedBy'[order'[s].pair[n]] # None
  <2>1. order[s] # None /\ usedBy[order[s].pair[n]] # None
    BY <1>2 DEF NameInv, MandatesNameOrders
  <2>2. order[s].pair \in Intents \X Carts
    BY <2>1 DEF TypeOK, Orders
  <2>3. order[s].pair[n] \in MandateIds
    BY <2>2, PairOfMandates
  <2> QED BY <2>1, <2>3, NamesKept
<1>3. ASSUME NEW p \in Calls, step'[p] = "finish", NEW n \in {1, 2}
      PROVE  usedBy'[pair'[p][n]] # None
  <2>1. step[p] = "finish" /\ pair'[p] = pair[p]
    BY <1>3
  <2>2. pair[p] \in Intents \X Carts /\ usedBy[pair[p][n]] # None
    BY <2>1 DEF HeldInv, PairSteps, NameInv
  <2>3. pair[p][n] \in MandateIds
    BY <2>2, PairOfMandates
  <2> QED BY <2>1, <2>2, <2>3, NamesKept
<1>4. MandatesNameOrders'
  BY <1>1, <1>2 DEF MandatesNameOrders
<1> QED BY <1>3, <1>4 DEF NameInv

LEMMA NameCreateOrder ==
  ASSUME TypeOK, HeldInv, NameInv, NEW p \in Calls, NEW who \in Customers, CreateOrder(p, who)
  PROVE  NameInv'
<1>1. /\ order[target[p]] = None /\ target[p] \in Sessions
      /\ pair[p] \in Intents \X Carts /\ total[target[p]] \in Values
  BY DEF CreateOrder, HeldInv, OpenSteps, PairSteps
<1>2. UNCHANGED <<usedBy, stamped, state, target, pair>>
  BY DEF CreateOrder, session, names
<1>3. PICK o \in Orders : /\ o = [pair |-> pair[p], total |-> total[target[p]], customer |-> who]
                         /\ order' = [order EXCEPT ![target[p]] = o]
  BY <1>1 DEF CreateOrder, Orders
<1>4. o.pair = pair[p] /\ o # None
  <2>1. o.pair = pair[p]
    BY <1>3
  <2> QED BY <2>1, CheckoutAssumption
<1>5. \A s \in Sessions : order'[s] = IF s = target[p] THEN o ELSE order[s]
  BY <1>3 DEF TypeOK
<1>6. \A q \in Calls : /\ step'[q] = "finish" => step[q] = "finish"
                       /\ step'[q] = "consume" => q = p \/ step[q] = "consume"
  BY DEF CreateOrder, GoTo, TypeOK
<1>7. \A q \in Calls : step[q] \in {"consume", "finish"} => target[q] # target[p]
  BY <1>1 DEF NameInv
<1>8. \A q \in Calls : step[q] \in {"consume", "finish"} => target[q] \in Sessions
  BY DEF HeldInv, OpenSteps, PairSteps
<1>9. MandatesNameOrders'
  <2>1. \A m \in MandateIds \ stamped : usedBy[m] # None =>
          usedBy[m] \in Sessions /\ usedBy[m] # target[p]
    BY <1>1 DEF TypeOK, NameInv, MandatesNameOrders
  <2>2. \A s \in Sessions : state[s] = "completed" => s # target[p]
    BY <1>1 DEF NameInv, MandatesNameOrders
  <2> QED BY <1>2, <1>5, <2>1, <2>2 DEF NameInv, MandatesNameOrders
<1> QED BY <1>1, <1>2, <1>4, <1>5, <1>6, <1>7, <1>8, <1>9 DEF NameInv

LEMMA NameConsume ==
  ASSUME TypeOK, HeldInv, NameInv, NEW p \in Calls, Consume(p)
  PROVE  NameInv'
<1>1. /\ order[target[p]] # None /\ order[target[p]].pair = pair[p]
      /\ pair[p] \in Intents \X Carts /\ target[p] \in Sessions
  BY DEF Consume, NameInv, HeldInv, OpenSteps, PairSteps
<1>2. UNCHANGED <<order, state, target, pair>>
  BY DEF Consume, session
<1>3. \A m \in MandateIds : usedBy'[m] = IF m \in Uses(p) THEN target[p] ELSE usedBy[m]
  BY DEF Consume
<1>4. target[p] # None
  BY <1>1, CheckoutAssumption, MandateAssumption
<1>5. \A m \in MandateIds : usedBy[m] # None => usedBy'[m] # None
  BY <1>3, <1>4
<1>6. \A m \in MandateIds \ stamped' : usedBy'[m] # None =>
        /\ usedBy'[m] \in Sessions /\ order[usedBy'[m]] # None
        /\ m \in {order[usedBy'[m]].pair[1], order[usedBy'[m]].pair[2]}
  <2>1. stamped' = stamped \ Uses(p)
    BY DEF Consume
  <2>2. \A m \in Uses(p) : m \in {pair[p][1], pair[p][2]}
    BY DEF Uses
  <2> QED BY <1>1, <1>3, <2>1, <2>2 DEF NameInv, MandatesNameOrders
<1>8. ASSUME NEW s \in Sessions, state[s] = "completed", NEW n \in {1, 2}
      PROVE  usedBy'[order[s].pair[n]] # None
  <2>1. order[s] # None /\ usedBy[order[s].pair[n]] # None
    BY <1>8 DEF NameInv, MandatesNameOrders
  <2>2. order[s].pair \in Intents \X Carts
    BY <2>1 DEF TypeOK, Orders
  <2>3. order[s].pair[n] \in MandateIds
    BY <2>2, PairOfMandates
  <2> QED BY <2>1, <2>3, <1>5
<1>9. MandatesNameOrders'
  BY <1>2, <1>6, <1>8 DEF NameInv, MandatesNameOrders
<1>10. \A q \in Calls : /\ step'[q] = "consume" => step[q] = "consume"
                        /\ step'[q] = "finish" => q = p \/ step[q] = "finish"
  BY DEF Consume, GoTo, TypeOK
<1>11. ASSUME NEW q \in Calls, step'[q] = "finish", NEW n \in {1, 2}
       PROVE  usedBy'[pair[q][n]] # None
  <2>1. CASE q = p
    <3>1. pair[p][n] \in MandateIds /\ pair[p][n] \in Uses(p)
      BY <1>1, PairOfMandates DEF Uses
    <3> QED BY <2>1, <3>1, <1>3, <1>4
  <2>2. CASE q # p
    <3>1. step[q] = "finish"
      BY <1>10, <1>11, <2>2
    <3>2. pair[q] \in Intents \X Carts /\ usedBy[pair[q][n]] # None
      BY <3>1 DEF HeldInv, OpenSteps, PairSteps, NameInv
    <3> QED BY <3>2, <1>5, PairOfMandates
  <2> QED BY <2>1, <2>2
<1>12. step[p] = "consume"
  BY DEF Consume
<1> QED BY <1>1, <1>2, <1>9, <1>10, <1>11, <1>12 DEF NameInv

LEMMA NameFinish ==
  ASSUME TypeOK, HeldInv, NameInv, NEW p \in Calls, Finish(p)
  PROVE  NameInv'
<1>1. /\ target[p] \in Sessions
      /\ order[target[p]] # None /\ order[target[p]].pair = pair[p]
      /\ \A n \in {1, 2} : usedBy[pair[p][n]] # None
  BY DEF Finish, NameInv, HeldInv, OpenSteps, PairSteps
<1>2. Rest(p) /\ UNCHANGED <<order, usedBy, stamped>>
  BY DEF Finish, Write, names
<1>3. \A s \in Sessions : state'[s] = "completed" => state[s] = "completed" \/ s = target[p]
  BY DEF Finish, Write, TypeOK
<1>4. \A q \in Calls : step'[q] \in {"consume", "finish"} =>
        step'[q] = step[q] /\ target'[q] = target[q] /\ pair'[q] = pair[q]
  BY <1>2, RestType
<1>5. MandatesNameOrders'
  BY <1>1, <1>2, <1>3 DEF NameInv, MandatesNameOrders
<1> QED BY <1>2, <1>4, <1>5 DEF NameInv

LEMMA NameProgress ==
  ASSUME TypeOK, HeldInv, NameInv, NEW p \in Calls, Progress(p)
  PROVE  NameInv'
<1>1. CASE \/ Escalate(p) \/ Approve(p) \/ Reject(p) \/ Refuse(p) \/ Abort(p)
           \/ \E declared \in BOOLEAN : EscalateByRules(p, declared)
           \/ \E who \in Customers \cup {None}, mode \in Modes :
                EscalateByGates(p, who, mode) \/ MakeReady(p, who, mode)
  <2>1. Rest(p) /\ UNCHANGED order /\ Named
    BY <1>1 DEF Escalate, Approve, Reject, Refuse, Abort, EscalateByRules, EscalateByGates,
               MakeReady, Write, Named
  <2>2. \A s \in Sessions : state'[s] = "completed" => state[s] = "completed"
    BY <1>1 DEF Escalate, Approve, Reject, Refuse, Abort, EscalateByRules, EscalateByGates,
               MakeReady, Write, session, TypeOK
  <2> QED BY <2>1, <2>2, RestType, NameFrame
<1>2. CASE ReadMandates(p) \/ EnforceBounds(p)
  <2>1. UNCHANGED <<order, state>> /\ Named
    BY <1>2 DEF ReadMandates, EnforceBounds, session, Named
  <2>2. \A q \in Calls : step'[q] \in {"consume", "finish"} =>
          step'[q] = step[q] /\ target'[q] = target[q] /\ pair'[q] = pair[q]
    BY <1>2 DEF ReadMandates, EnforceBounds, Rest, GoTo, TypeOK
  <2> QED BY <2>1, <2>2, NameFrame
<1> QED BY <1>1, <1>2, NameCreateOrder, NameConsume, NameFinish DEF Progress

LEMMA NameStep == TypeOK /\ HeldInv /\ NameInv /\ [Next]_vars => NameInv'
<1> SUFFICES ASSUME TypeOK, HeldInv, NameInv, [Next]_vars PROVE NameInv'
  OBVIOUS
<1>1. CASE UNCHANGED vars
  BY <1>1, NameFrame DEF vars, session, Named
<1>2. CASE Mandate
  BY <1>2, MandateFrame, NameFrame DEF session, OpenSteps, PairSteps
<1>3. ASSUME NEW s \in Sessions, NEW i \in Intents \cup {None}, NEW sum \in Values,
             NEW asked \in Values, CreateSession(s, i, sum, asked)
      PROVE  NameInv'
  <2>1. UNCHANGED <<order, step, target, pair>> /\ Named
    BY <1>3 DEF CreateSession, Named
  <2>2. \A t \in Sessions : state'[t] = "completed" => state[t] = "completed"
    BY <1>3 DEF CreateSession, TypeOK
  <2> QED BY <2>1, <2>2, NameFrame
<1>4. ASSUME NEW p \in Calls, NEW s \in Sessions, SessionCall(p, s)
      PROVE  NameInv'
  <2>1. UNCHANGED <<order, state>> /\ Named
    BY <1>4 DEF SessionCall, AskEscalation, AskReady, AskComplete, AskDecision, Open, session,
               Named
  <2>2. \A q \in Calls : step'[q] \in {"consume", "finish"} =>
          step'[q] = step[q] /\ target'[q] = target[q] /\ pair'[q] = pair[q]
    BY <1>4 DEF SessionCall, AskEscalation, AskReady, AskComplete, AskDecision, Open, GoTo, TypeOK
  <2> QED BY <2>1, <2>2, NameFrame
<1> QED BY <1>1, <1>2, <1>3, <1>4, NameProgress DEF Next

(* A mandate names an order that used it, unless its name was written by    *)
(* hand, and both mandates of a completed session name one                  *)
(* (checkout/[sessionId]/route.ts:653-656, 690-693).                        *)
THEOREM ConsumedMandatesNameOrders == Spec => []MandatesNameOrders
<1>1. NameInv => MandatesNameOrders
  BY DEF NameInv
<1> QED BY <1>1, NameInit, NameStep, CheckoutTypeCorrect, RequestsHoldWhatTheyRead, PTL DEF Spec

-----------------------------------------------------------------------------
(* The handlers implement CheckoutContract.  A step that creates no session,*)
(* changes no mandate and passes no check is a stutter of the contract.     *)
Offered == {s \in Sessions : state[s] # "absent"}
LiveIntents == {i \in Intents : Live(i)}

LEMMA SilentStep ==
  ASSUME UNCHANGED <<status, expired, opened, order, names, history>>,
         \A s \in Sessions : state'[s] = "absent" <=> state[s] = "absent"
  PROVE  UNCHANGED Contract!cvars
<1>1. UNCHANGED <<Offered, LiveIntents>>
  BY DEF Offered, LiveIntents, Live
<1> QED BY <1>1 DEF Offered, LiveIntents, Contract!cvars, opened, names, history

LEMMA ContractMandate ==
  ASSUME TypeOK, Mandate
  PROVE  Contract!CNext
<1>1. UNCHANGED <<session, opened, order, history>> /\ Named
  BY MandateFrame
<1>2. UNCHANGED Offered
  BY <1>1 DEF Offered, session
<1>3. LiveIntents' \in SUBSET Intents
  BY DEF LiveIntents
<1>4. \/ UNCHANGED <<usedBy, stamped>>
      \/ \E m \in Contract!MandateIds, o \in OrderIds :
           /\ usedBy' = [usedBy EXCEPT ![m] = o]
           /\ stamped' = stamped \cup {m}
  BY <1>1 DEF Named, names, Inscribe, MandateIds, Contract!MandateIds
<1>5. Contract!ChangeMandates
  BY <1>1, <1>2, <1>3, <1>4 DEF Contract!ChangeMandates, Offered, LiveIntents, opened, history
<1> QED BY <1>5 DEF Contract!CNext

LEMMA ContractOffer ==
  ASSUME TypeOK, NEW s \in Sessions, NEW i, NEW sum \in Values, NEW asked \in Values,
         CreateSession(s, i, sum, asked)
  PROVE  Contract!CNext
<1>1. s \notin Offered /\ Offered' = Offered \cup {s}
  BY DEF CreateSession, Offered, TypeOK
<1>2. UNCHANGED LiveIntents
  BY DEF CreateSession, LiveIntents, Live, mandates
<1>3. Contract!Offer(s, sum, asked)
  BY <1>1, <1>2 DEF CreateSession, Contract!Offer, Offered, LiveIntents, names, history
<1> QED BY <1>3 DEF Contract!CNext

LEMMA ContractGrant ==
  ASSUME TypeOK, HeldInv, AuthInv, NEW p \in Calls, EnforceBounds(p)
  PROVE  [Contract!CNext]_(Contract!cvars)
<1>1. CASE UNCHANGED verified
  BY <1>1, SilentStep DEF EnforceBounds, mandates, session, history
<1>2. CASE /\ WithinBounds(pair[p][1], target[p])
           /\ verified' = [verified EXCEPT ![target[p]] = @ \cup {pair[p]}]
  <2>1. target[p] \in Sessions /\ target[p] \in Offered /\ pair[p] \in Intents \X Carts
    BY DEF EnforceBounds, HeldInv, OpenSteps, PairSteps, Offered
  <2>2. PICK i \in Intents, c \in Carts : pair[p] = <<i, c>>
    BY <2>1
  <2>3. Parent[c] = i /\ i \in LiveIntents /\ items[target[p]] <= MaxAmount[i]
    BY <1>2, <2>2 DEF EnforceBounds, AuthInv, WithinBounds, LiveIntents
  <2>4. UNCHANGED <<Offered, LiveIntents>>
    BY DEF EnforceBounds, mandates, session, Offered, LiveIntents, Live
  <2>5. Contract!Grant(target[p], i, c)
    BY <1>2, <2>1, <2>2, <2>3, <2>4
       DEF EnforceBounds, Contract!Grant, Offered, LiveIntents, names, opened
  <2> QED BY <2>1, <2>5 DEF Contract!CNext
<1> QED BY <1>1, <1>2 DEF EnforceBounds

LEMMA ContractAllow ==
  ASSUME TypeOK, HeldInv, NEW p \in Calls, Approve(p)
  PROVE  Contract!CNext
<1>1. target[p] \in Sessions /\ target[p] \in Offered
  BY DEF Approve, HeldInv, OpenSteps, Offered
<1>2. "ready_for_complete" \in States
  BY DEF States
<1>3. \A s \in Sessions : state'[s] = "absent" <=> state[s] = "absent"
  BY <1>1, <1>2, WriteType DEF Approve, Offered
<1>4. UNCHANGED <<Offered, LiveIntents>>
  BY <1>3 DEF Approve, Write, Offered, LiveIntents, Live, mandates
<1>5. Contract!Allow(target[p])
  BY <1>1, <1>4 DEF Approve, Write, Contract!Allow, Offered, LiveIntents, names, opened
<1> QED BY <1>1, <1>5 DEF Contract!CNext

LEMMA ContractPlace ==
  ASSUME TypeOK, HeldInv, AuthInv, BigInv, NEW p \in Calls, NEW who \in Customers,
         CreateOrder(p, who)
  PROVE  Contract!CNext
<1>1. target[p] \in Sessions /\ target[p] \in Offered /\ pair[p] \in Intents \X Carts
  BY DEF CreateOrder, HeldInv, OpenSteps, PairSteps, Offered
<1>2. PICK i \in Intents, c \in Carts : pair[p] = <<i, c>>
  BY <1>1
<1>3. <<i, c>> \in verified[target[p]]
  BY <1>2 DEF CreateOrder, AuthInv, CheckedSteps, Sound
<1>4. total[target[p]] >= Threshold => target[p] \in approved
  BY <1>1 DEF CreateOrder, BigInv, Big
<1>5. UNCHANGED <<Offered, LiveIntents>>
  BY DEF CreateOrder, mandates, session, Offered, LiveIntents, Live
<1>6. Contract!Place(target[p], i, c, who)
  BY <1>1, <1>2, <1>3, <1>4, <1>5
     DEF CreateOrder, Contract!Place, Offered, LiveIntents, names, opened, history
<1> QED BY <1>1, <1>6 DEF Contract!CNext

LEMMA ContractUseUp ==
  ASSUME TypeOK, HeldInv, NameInv, NEW p \in Calls, Consume(p)
  PROVE  Contract!CNext
<1>1. /\ target[p] \in Sessions /\ pair[p] \in Intents \X Carts
      /\ order[target[p]] # None /\ order[target[p]].pair = pair[p]
  BY DEF Consume, HeldInv, OpenSteps, PairSteps, NameInv
<1>2. pair[p][1] \in Intents /\ pair[p][2] \in Carts
  BY <1>1
<1>3. LiveIntents' = LiveIntents \ {pair[p][1]}
  <2>1. \A i \in Intents : i \in MandateIds /\ i # pair[p][2]
    <3>1. Intents \cap Carts = {}
      BY MandateAssumption, Zenon
    <3> QED BY <1>2, <3>1 DEF MandateIds
  <2>2. \A i \in Intents : status'[i] = IF i = pair[p][1] THEN "consumed" ELSE status[i]
    BY <2>1 DEF Consume, Uses
  <2>3. expired' = expired
    BY DEF Consume
  <2>4. ASSUME NEW i \in Intents
        PROVE  (status'[i] = "active" /\ i \notin expired') <=>
                 (status[i] = "active" /\ i \notin expired) /\ i # pair[p][1]
    BY <2>2, <2>3
  <2>5. ASSUME NEW i PROVE i \in LiveIntents' <=> i \in LiveIntents /\ i # pair[p][1]
    BY <2>4, Zenon DEF LiveIntents, Live
  <2> QED BY <2>5, Zenon
<1>4. UNCHANGED Offered
  BY DEF Consume, session, Offered
<1>5. Contract!UseUp(target[p])
  BY <1>1, <1>3, <1>4
     DEF Consume, Uses, MandateIds, Contract!MandateIds, Contract!UseUp, Offered, LiveIntents, opened, history
<1> QED BY <1>1, <1>5 DEF Contract!CNext

LEMMA ContractProgress ==
  ASSUME TypeOK, HeldInv, AuthInv, BigInv, NameInv, NEW p \in Calls, Progress(p)
  PROVE  [Contract!CNext]_(Contract!cvars)
<1>1. CASE \/ Escalate(p) \/ Reject(p) \/ Finish(p)
           \/ \E declared \in BOOLEAN : EscalateByRules(p, declared)
           \/ \E who \in Customers \cup {None}, mode \in Modes :
                EscalateByGates(p, who, mode) \/ MakeReady(p, who, mode)
  <2>1. /\ UNCHANGED history /\ target[p] \in Sessions /\ state[target[p]] # "absent"
        /\ \E new \in States \ {"absent"} : Write(p, new)
    <3>1. step[p] \in OpenSteps /\ UNCHANGED history
      BY <1>1 DEF Escalate, Reject, Finish, EscalateByRules, EscalateByGates, MakeReady,
                 OpenSteps, PairSteps
    <3>2. {"requires_escalation", "failed", "completed", "ready_for_complete"}
            \subseteq States \ {"absent"}
      BY DEF States
    <3>3. \E new \in States \ {"absent"} : Write(p, new)
      BY <1>1, <3>2 DEF Escalate, Reject, Finish, EscalateByRules, EscalateByGates, MakeReady
    <3> QED BY <3>1, <3>3 DEF HeldInv
  <2>2. /\ \A s \in Sessions : state'[s] = "absent" <=> state[s] = "absent"
        /\ UNCHANGED <<mandates, opened, order, names>>
    BY <2>1, WriteType
  <2> QED BY <2>1, <2>2, SilentStep DEF mandates
<1>2. CASE ReadMandates(p) \/ Refuse(p)
  BY <1>2, SilentStep DEF ReadMandates, Refuse, mandates, session
<1>3. CASE Abort(p)
  BY <1>3, SilentStep DEF Abort, session
<1> QED
  BY <1>1, <1>2, <1>3, ContractGrant, ContractAllow, ContractPlace, ContractUseUp DEF Progress

LEMMA StepKeepsContract ==
  ASSUME TypeOK, HeldInv, AuthInv, BigInv, NameInv, [Next]_vars
  PROVE  [Contract!CNext]_(Contract!cvars)
<1>1. CASE UNCHANGED vars
  BY <1>1, SilentStep DEF vars, mandates, session
<1>2. ASSUME NEW p \in Calls, NEW s \in Sessions, SessionCall(p, s)
      PROVE  UNCHANGED Contract!cvars
  BY <1>2, SilentStep DEF SessionCall, AskEscalation, AskReady, AskComplete, AskDecision, Open,
                         mandates, session
<1> QED BY <1>1, <1>2, ContractMandate, ContractOffer, ContractProgress DEF Next

(* A checkout changes only as CheckoutContract says, for any number of      *)
(* requests at once, with crashes between any two of their steps and with   *)
(* mandates created, revoked, expired and changed meanwhile                 *)
(* (checkout/[sessionId]/route.ts:279-331, 543-706).                        *)
THEOREM CheckoutImplementsContract == Spec => KeepsContract
<1>1. Init => Contract!CInit
  <2>1. ASSUME Init PROVE Offered = {} /\ LiveIntents = {}
    BY <2>1 DEF Init, MandateInit, Offered, LiveIntents, Live, MandateIds
  <2> QED BY <2>1 DEF Init, MandateInit, Contract!CInit, Contract!MandateIds, Offered,
                      LiveIntents, MandateIds
<1> QED
  BY <1>1, InitHolds, TypeStep, AuthInit, AuthStep, BigInit, BigStep, NameInit, NameStep,
     StepKeepsContract, PTL DEF Spec, KeepsContract, Contract!CSpec
=============================================================================
