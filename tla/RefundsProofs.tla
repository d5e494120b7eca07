--------------------------- MODULE RefundsProofs ---------------------------
(***************************************************************************)
(* Proofs about Refunds for every order total, set of amounts and number   *)
(* of concurrent requests; and, at the end, about RefundRetry for any      *)
(* number of events and of runs of the job.                                *)
(***************************************************************************)
EXTENDS Refunds, RefundRetry, TLAPS

Details == [amount: 0..Total, reason: Reasons \cup {"none", "gateway_initiated"}]
Asks    == [amount: 0..Total, reason: Reasons \cup {"none"}, partial: BOOLEAN]

LEMMA TypeInit == Init => TypeOK
<1> SUFFICES ASSUME Init PROVE TypeOK
  OBVIOUS
<1>1. [amount |-> 0, reason |-> "none"] \in Details
  BY RefundAssumption DEF Details
<1>2. [amount |-> 0, reason |-> "none", partial |-> FALSE] \in Asks
  BY RefundAssumption DEF Asks
<1>3. detail \in [Rows -> Details] /\ ask \in [Handlers -> Asks]
  BY <1>1, <1>2 DEF Init
<1>4. status \in [Rows -> RowStatuses] /\ ref \in [Rows -> Refs]
  BY DEF Init, RowStatuses, Refs
<1>5. step \in [Handlers -> Steps] /\ route \in [Handlers -> AllRoutes]
  BY DEF Init, Steps, AllRoutes
<1>6. mine \in [Handlers -> Rows \cup {0}]
  BY DEF Init
<1>7. gateway \in 0..Total /\ moved \subseteq Rows /\ retractos \in Nat
  BY RefundAssumption DEF Init
<1>8. /\ paymentStatus \in {"paid", "refunded"} /\ failed \in BOOLEAN
      /\ orderStatus \in {"confirmed", "cancelled", "returned"}
  BY DEF Init
<1> QED BY <1>3, <1>4, <1>5, <1>6, <1>7, <1>8 DEF TypeOK, Details, Asks

(* What a handler asks for is well formed.                                  *)
LEMMA BeginType ==
  ASSUME TypeOK, NEW h \in Handlers, NEW name, NEW s \in Steps, NEW asked \in Asks,
         Begin(h, name, s, asked)
  PROVE  /\ step' \in [Handlers -> Steps] /\ route' \in [Handlers -> AllRoutes]
         /\ ask' \in [Handlers -> Asks] /\ mine' \in [Handlers -> Rows \cup {0}]
<1>1. name \in AllRoutes
  BY RefundAssumption DEF Begin
<1>2. ask \in [Handlers -> Asks]
  BY DEF TypeOK, Asks
<1> QED BY <1>1, <1>2 DEF Begin, GoTo, TypeOK

LEMMA AskedType ==
  ASSUME NEW a \in 0..Total, NEW why \in Reasons \cup {"none"}, NEW p \in BOOLEAN
  PROVE  Asked(a, why, p) \in Asks
BY DEF Asked, Asks

LEMMA FullType == Full \in Asks /\ Asked(0, "none", FALSE) \in Asks
<1>1. Total \in 0..Total /\ 0 \in 0..Total /\ "none" \in Reasons \cup {"none"}
      /\ FALSE \in BOOLEAN
  BY RefundAssumption
<1>2. Asked(Total, "none", FALSE) \in Asks
  BY <1>1 DEF Asked, Asks
<1>3. Asked(0, "none", FALSE) \in Asks
  BY <1>1 DEF Asked, Asks
<1> QED BY <1>2, <1>3 DEF Full

LEMMA AdminType ==
  ASSUME TypeOK, NEW h \in Handlers, Admin(h)
  PROVE  TypeOK'
<1>1. ASSUME NEW a \in Amounts \cup {Total}, NEW why \in Reasons, NEW p \in BOOLEAN,
             AskRefund(h, a, why, p)
      PROVE  TypeOK'
  <2>1. Asked(a, why, p) \in Asks
    BY AskedType, RefundAssumption
  <2>2. Begin(h, "admin", "find twin", Asked(a, why, p))
    BY <1>1 DEF AskRefund
  <2> HIDE DEF Asked
  <2>3. /\ step' \in [Handlers -> Steps] /\ route' \in [Handlers -> AllRoutes]
        /\ ask' \in [Handlers -> Asks] /\ mine' \in [Handlers -> Rows \cup {0}]
    BY <2>1, <2>2, BeginType DEF Steps
  <2> QED BY <1>1, <2>3 DEF AskRefund, TypeOK, Asks, ledger, external
<1>2. CASE FindTwin(h) \/ CheckRef(h)
  BY <1>2 DEF FindTwin, CheckRef, GoTo, TypeOK, ledger, external, Steps
<1>3. ASSUME NEW r \in Rows, Insert(h, r)
      PROVE  TypeOK'
  <2>1. PICK d \in Details : d = [amount |-> ask[h].amount, reason |-> ask[h].reason]
    BY DEF TypeOK, Details
  <2>2. detail' = [detail EXCEPT ![r] = d]
    BY <1>3, <2>1 DEF Insert
  <2>3. detail' \in [Rows -> Details]
    BY <2>2 DEF TypeOK, Details
  <2> QED BY <1>3, <2>3 DEF Insert, GoTo, TypeOK, Details, external, Steps, RowStatuses
<1>4. CASE Supersede(h)
  <2>1. status' \in [Rows -> RowStatuses]
    BY <1>4 DEF Supersede, TypeOK, RowStatuses
  <2> QED BY <1>4, <2>1 DEF Supersede, GoTo, TypeOK, external, Steps
<1>5. CASE Record(h)
  BY <1>5 DEF Record, Recorded, GoTo, TypeOK, external, Steps, RowStatuses, Refs
<1>6. CASE RecordFailure(h)
  BY <1>6 DEF RecordFailure, GoTo, TypeOK, external, Steps, RowStatuses
<1> QED BY <1>1, <1>2, <1>3, <1>4, <1>5, <1>6 DEF Admin

LEMMA OthersType ==
  ASSUME TypeOK, NEW h \in Handlers, Others(h)
  PROVE  TypeOK'
<1>1. ASSUME NEW a \in Amounts \cup {Total}, AskAcp(h, a)
      PROVE  TypeOK'
  <2>1. PICK p \in BOOLEAN : p = (a < Total)
    <3>1. (a < Total) \in BOOLEAN
      BY RefundAssumption
    <3> QED BY <3>1, Zenon
  <2>2. Begin(h, "acp", "gateway", Asked(a, "none", p))
    BY <1>1, <2>1 DEF AskAcp
  <2>3. Asked(a, "none", p) \in Asks
    BY AskedType, RefundAssumption
  <2>4. /\ step' \in [Handlers -> Steps] /\ route' \in [Handlers -> AllRoutes]
        /\ ask' \in [Handlers -> Asks] /\ mine' \in [Handlers -> Rows \cup {0}]
    BY <2>2, <2>3, BeginType DEF Steps
  <2> QED BY <1>1, <2>4 DEF AskAcp, TypeOK, Asks, ledger, external
<1>2. CASE AskRetracto(h)
  <2>1. Full \in Asks /\ Asked(0, "none", FALSE) \in Asks
    BY FullType
  <2>2. PICK asked \in Asks :
          asked = IF paymentStatus = "paid" THEN Full ELSE Asked(0, "none", FALSE)
    BY <2>1
  <2>3. Begin(h, "retracto", "cancel", asked)
    BY <1>2, <2>2 DEF AskRetracto
  <2>4. /\ step' \in [Handlers -> Steps] /\ route' \in [Handlers -> AllRoutes]
        /\ ask' \in [Handlers -> Asks] /\ mine' \in [Handlers -> Rows \cup {0}]
    BY <2>3, BeginType DEF Steps
  <2> QED BY <1>2, <2>4 DEF AskRetracto, TypeOK, Asks, ledger, external
<1>3. CASE CancelOrder(h)
  <2>1. step' \in [Handlers -> Steps]
    BY <1>3 DEF CancelOrder, GoTo, TypeOK, Steps
  <2>2. retractos' \in Nat
    BY <1>3 DEF CancelOrder, TypeOK
  <2> QED BY <1>3, <2>1, <2>2 DEF CancelOrder, TypeOK, ledger, external
<1>4. CASE AskRetry(h)
  <2>1. Full \in Asks
    BY FullType
  <2>2. /\ step' \in [Handlers -> Steps] /\ route' \in [Handlers -> AllRoutes]
        /\ ask' \in [Handlers -> Asks] /\ mine' \in [Handlers -> Rows \cup {0}]
    BY <1>4, <2>1, BeginType DEF Steps, AskRetry
  <2> QED BY <1>4, <2>2 DEF AskRetry, TypeOK, Asks, ledger, external
<1>5. CASE FinishAcp(h)
  BY <1>5 DEF FinishAcp, GoTo, TypeOK, ledger, external, Steps
<1>6. CASE FinishRetracto(h) \/ FinishRetry(h)
  BY <1>6 DEF FinishRetracto, FinishRetry, GoTo, TypeOK, ledger, external, Steps
<1> QED BY <1>1, <1>2, <1>3, <1>4, <1>5, <1>6 DEF Others

LEMMA NotifiedType ==
  ASSUME TypeOK, NEW h \in Handlers, Notified(h)
  PROVE  TypeOK'
<1>1. CASE Notify(h)
  <2>1. Asked(gateway, "none", FALSE) \in Asks
    BY AskedType DEF TypeOK
  <2>2. Begin(h, "notified", "find", Asked(gateway, "none", FALSE))
    BY <1>1 DEF Notify
  <2>3. /\ step' \in [Handlers -> Steps] /\ route' \in [Handlers -> AllRoutes]
        /\ ask' \in [Handlers -> Asks] /\ mine' \in [Handlers -> Rows \cup {0}]
    BY <2>1, <2>2, BeginType DEF Steps
  <2> QED BY <1>1, <2>3 DEF Notify, TypeOK, Asks, ledger, external
<1>2. CASE FindRow(h)
  <2>1. Newest(Match) \subseteq Rows
    BY DEF Newest, Match
  <2>2. mine' \in [Handlers -> Rows \cup {0}]
    BY <1>2, <2>1 DEF FindRow, TypeOK
  <2>3. AfterSync \in Steps /\ "sync" \in Steps /\ "create" \in Steps
    BY DEF AfterSync, Steps
  <2>4. PICK s \in Steps : GoTo(h, s)
    BY <1>2, <2>3, Zenon DEF FindRow
  <2>5. step' \in [Handlers -> Steps]
    BY <2>4 DEF GoTo, TypeOK
  <2> QED BY <1>2, <2>2, <2>5 DEF FindRow, TypeOK, ledger, external
<1>3. CASE SyncRow(h)
  BY <1>3 DEF SyncRow, GoTo, TypeOK, external, Steps, AfterSync, RowStatuses, Refs
<1>4. ASSUME NEW r \in Rows, CreateRow(h, r)
      PROVE  TypeOK'
  <2>1. PICK d \in Details : d = [amount |-> ask[h].amount, reason |-> "gateway_initiated"]
    BY DEF TypeOK, Details
  <2>2. detail' = [detail EXCEPT ![r] = d]
    BY <1>4, <2>1 DEF CreateRow
  <2>3. detail' \in [Rows -> Details]
    BY <2>2 DEF TypeOK, Details
  <2> QED BY <1>4, <2>3
          DEF CreateRow, GoTo, TypeOK, Details, external, Steps, AfterSync, RowStatuses, Refs
<1>5. CASE MarkNotified(h)
  BY <1>5 DEF MarkNotified, GoTo, TypeOK, ledger, external, Steps
<1> QED BY <1>1, <1>2, <1>3, <1>4, <1>5 DEF Notified

LEMMA TypeStep == TypeOK /\ [Next]_vars => TypeOK'
<1> SUFFICES ASSUME TypeOK, [Next]_vars PROVE TypeOK'
  OBVIOUS
<1>1. CASE UNCHANGED vars
  BY <1>1 DEF vars, ledger, handler, external, TypeOK
<1>2. ASSUME NEW h \in Handlers, GatewayAccepts(h)
      PROVE  TypeOK'
  <2>1. gateway' \in 0..Total /\ moved' \subseteq Rows
    BY <1>2, RefundAssumption DEF GatewayAccepts, Charge, TypeOK
  <2>2. step' \in [Handlers -> Steps]
    BY <1>2 DEF GatewayAccepts, GoTo, TypeOK, Steps
  <2> QED BY <1>2, <2>1, <2>2 DEF GatewayAccepts, TypeOK, ledger
<1>3. ASSUME NEW h \in Handlers, GatewayRefuses(h) \/ Abort(h)
      PROVE  TypeOK'
  BY <1>3 DEF GatewayRefuses, Abort, GoTo, TypeOK, ledger, external, Steps
<1> QED BY <1>1, <1>2, <1>3, AdminType, OthersType, NotifiedType DEF Next

(* The order, its ledger and every request keep their type.                 *)
THEOREM RefundsTypeCorrect == Spec => []TypeOK
BY TypeInit, TypeStep, PTL DEF Spec

-----------------------------------------------------------------------------
(* Before the gateway the amount asked for is positive; after it, or after a*)
(* notification, the gateway has given something back.                      *)
BeforeGateway == {"find twin", "insert", "gateway"}
AfterGateway  == {"accepted", "record", "supersede", "find", "sync", "create", "mark"}

PaidBackInv ==
  /\ \A h \in Handlers : step[h] \in BeforeGateway => ask[h].amount > 0
  /\ \A h \in Handlers : step[h] \in AfterGateway => gateway > 0
  /\ RefundedMeansPaidBack

LEMMA PaidBackInit == Init => PaidBackInv
BY DEF Init, PaidBackInv, RefundedMeansPaidBack, BeforeGateway, AfterGateway

LEMMA PaidBackBegin ==
  ASSUME TypeOK, PaidBackInv, NEW h \in Handlers, NEW name, NEW s, NEW asked,
         Begin(h, name, s, asked), gateway' = gateway,
         s \in BeforeGateway => asked.amount > 0, s \in AfterGateway => gateway > 0
  PROVE  /\ \A k \in Handlers : step'[k] \in BeforeGateway => ask'[k].amount > 0
         /\ \A k \in Handlers : step'[k] \in AfterGateway => gateway' > 0
BY DEF TypeOK, PaidBackInv, Begin, GoTo

(* A step of one handler that stays on its side of the gateway.             *)
LEMMA PaidBackGoTo ==
  ASSUME TypeOK, PaidBackInv, NEW h \in Handlers, NEW s, GoTo(h, s),
         ask' = ask, gateway' = gateway,
         s \in BeforeGateway => ask[h].amount > 0, s \in AfterGateway => gateway > 0
  PROVE  /\ \A k \in Handlers : step'[k] \in BeforeGateway => ask'[k].amount > 0
         /\ \A k \in Handlers : step'[k] \in AfterGateway => gateway' > 0
BY DEF TypeOK, PaidBackInv, GoTo

LEMMA PaidBackStep == TypeOK /\ PaidBackInv /\ [Next]_vars => PaidBackInv'
<1> SUFFICES ASSUME TypeOK, PaidBackInv, [Next]_vars PROVE PaidBackInv'
  OBVIOUS
<1> USE DEF BeforeGateway, AfterGateway
<1>1. CASE UNCHANGED vars
  BY <1>1 DEF vars, handler, external, PaidBackInv, RefundedMeansPaidBack
<1>2. ASSUME NEW h \in Handlers, Admin(h) PROVE PaidBackInv'
  <2>1. ASSUME NEW a \in Amounts \cup {Total}, NEW why \in Reasons, NEW p \in BOOLEAN,
               AskRefund(h, a, why, p)
        PROVE  PaidBackInv'
    <3>1. a > 0 /\ Asked(a, why, p).amount = a
      BY RefundAssumption DEF Asked
    <3> QED BY <2>1, <3>1, PaidBackBegin
            DEF AskRefund, PaidBackInv, RefundedMeansPaidBack, external
  <2>2. CASE FindTwin(h)
    BY <2>2, PaidBackGoTo DEF FindTwin, PaidBackInv, RefundedMeansPaidBack, external
  <2>3. ASSUME NEW r \in Rows, Insert(h, r) PROVE PaidBackInv'
    BY <2>3, PaidBackGoTo DEF Insert, PaidBackInv, RefundedMeansPaidBack, external
  <2>4. CASE CheckRef(h) \/ Supersede(h) \/ RecordFailure(h)
    BY <2>4, PaidBackGoTo DEF CheckRef, Supersede, RecordFailure, PaidBackInv,
       RefundedMeansPaidBack, external
  <2>5. CASE Record(h)
    BY <2>5, PaidBackGoTo DEF Record, PaidBackInv, RefundedMeansPaidBack, external
  <2> QED BY <1>2, <2>1, <2>2, <2>3, <2>4, <2>5 DEF Admin
<1>3. ASSUME NEW h \in Handlers, Others(h) PROVE PaidBackInv'
  <2>1. ASSUME NEW a \in Amounts \cup {Total}, AskAcp(h, a) PROVE PaidBackInv'
    <3>1. a > 0 /\ Asked(a, "none", a < Total).amount = a
      BY RefundAssumption DEF Asked
    <3> QED BY <2>1, <3>1, PaidBackBegin
            DEF AskAcp, PaidBackInv, RefundedMeansPaidBack, external
  <2>2. CASE AskRetracto(h)
    BY <2>2, PaidBackBegin DEF AskRetracto, PaidBackInv, RefundedMeansPaidBack, external
  <2>3. CASE AskRetry(h)
    <3>1. Full.amount > 0
      BY RefundAssumption DEF Full, Asked
    <3> QED BY <2>3, <3>1, PaidBackBegin
            DEF AskRetry, PaidBackInv, RefundedMeansPaidBack, external
  <2>4. CASE CancelOrder(h)
    BY <2>4, PaidBackGoTo DEF CancelOrder, PaidBackInv, RefundedMeansPaidBack, external
  <2>5. CASE FinishAcp(h) \/ FinishRetracto(h) \/ FinishRetry(h)
    BY <2>5, PaidBackGoTo DEF FinishAcp, FinishRetracto, MarkRefunded, FinishRetry,
       PaidBackInv, RefundedMeansPaidBack, external
  <2> QED BY <1>3, <2>1, <2>2, <2>3, <2>4, <2>5 DEF Others
<1>4. ASSUME NEW h \in Handlers, Notified(h) PROVE PaidBackInv'
  <2>1. CASE Notify(h)
    BY <2>1, PaidBackBegin DEF Notify, PaidBackInv, RefundedMeansPaidBack, external
  <2>2. CASE FindRow(h)
    BY <2>2, PaidBackGoTo
    DEF FindRow, AfterSync, PaidBackInv, RefundedMeansPaidBack, external
  <2>3. CASE SyncRow(h) \/ (\E r \in Rows : CreateRow(h, r)) \/ MarkNotified(h)
    BY <2>3, PaidBackGoTo
    DEF SyncRow, CreateRow, MarkNotified, AfterSync, PaidBackInv, RefundedMeansPaidBack,
        external
  <2> QED BY <1>4, <2>1, <2>2, <2>3 DEF Notified
<1>5. ASSUME NEW h \in Handlers, GatewayAccepts(h) PROVE PaidBackInv'
  <2>1. ask[h].amount > 0 /\ ask[h].amount \in Nat /\ gateway \in Nat
    <3>1. ask[h].amount > 0
      BY <1>5 DEF GatewayAccepts, PaidBackInv
    <3>2. ask[h].amount \in 0..Total /\ gateway \in 0..Total
      BY DEF TypeOK
    <3> QED BY <3>1, <3>2, RefundAssumption
  <2>2. gateway' > 0
    BY <1>5, <2>1 DEF GatewayAccepts, Charge
  <2>3. \A k \in Handlers : step'[k] \in BeforeGateway => step[k] \in BeforeGateway
    BY <1>5 DEF GatewayAccepts, GoTo, TypeOK
  <2> QED BY <1>5, <2>2, <2>3 DEF GatewayAccepts, PaidBackInv, RefundedMeansPaidBack
<1>6. ASSUME NEW h \in Handlers, GatewayRefuses(h) \/ Abort(h) PROVE PaidBackInv'
  BY <1>6, PaidBackGoTo
  DEF GatewayRefuses, Abort, PaidBackInv, RefundedMeansPaidBack, external
<1> QED BY <1>1, <1>2, <1>3, <1>4, <1>5, <1>6 DEF Next

(* Whichever routes race for the order, it is never marked refunded before  *)
(* the gateway gave something back.                                         *)
THEOREM RefundedOrdersWerePaidBack == Spec => []RefundedMeansPaidBack
<1>1. PaidBackInv => RefundedMeansPaidBack
  BY DEF PaidBackInv
<1> QED BY <1>1, PaidBackInit, PaidBackStep, RefundsTypeCorrect, PTL DEF Spec

-----------------------------------------------------------------------------
(* Rows that a request still at work will write: each counts in the ledger  *)
(* and belongs to that request alone.                                       *)
Holds(h) == step[h] \in {"gateway", "accepted", "refused", "record", "supersede"} /\ mine[h] # 0

HeldRows ==
  /\ \A h \in Handlers : Holds(h) => status[mine[h]] \in Counting
  /\ \A g, h \in Handlers : Holds(g) /\ Holds(h) /\ mine[g] = mine[h] => g = h
  /\ \A h \in Handlers : step[h] = "cancel" => mine[h] = 0

LEMMA HeldInit == Init => HeldRows
BY DEF Init, HeldRows, Holds

(* A handler that begins holds no row yet.                                  *)
LEMMA HeldBegin ==
  ASSUME TypeOK, HeldRows, NEW h \in Handlers, NEW name, NEW s, NEW asked,
         Begin(h, name, s, asked), status' = status
  PROVE  HeldRows'
BY DEF TypeOK, Begin, GoTo, HeldRows, Holds

(* A handler that holds no row, or goes on holding its own, disturbs nobody,*)
(* as long as it keeps every row held in the ledger.                        *)
LEMMA HeldGoTo ==
  ASSUME TypeOK, HeldRows, NEW h \in Handlers, NEW s, GoTo(h, s),
         s \notin {"cancel"}, mine' = mine,
         s \in {"gateway", "accepted", "refused", "record", "supersede"} =>
           Holds(h) \/ mine[h] = 0,
         \A k \in Handlers \ {h} : Holds(k) => status'[mine[k]] \in Counting,
         s \in {"gateway", "accepted", "refused", "record", "supersede"} /\ mine[h] # 0 =>
           status'[mine[h]] \in Counting
  PROVE  HeldRows'
BY DEF TypeOK, GoTo, HeldRows, Holds

LEMMA HeldStep == TypeOK /\ HeldRows /\ [Next]_vars => HeldRows'
<1> SUFFICES ASSUME TypeOK, HeldRows, [Next]_vars PROVE HeldRows'
  OBVIOUS
<1>1. CASE UNCHANGED vars
  BY <1>1 DEF vars, handler, ledger, HeldRows, Holds
<1>2. ASSUME NEW h \in Handlers, Admin(h) PROVE HeldRows'
  <2>1. ASSUME NEW a \in Amounts \cup {Total}, NEW why \in Reasons, NEW p \in BOOLEAN,
               AskRefund(h, a, why, p)
        PROVE  HeldRows'
    BY <2>1, HeldBegin DEF AskRefund, ledger
  <2>2. CASE FindTwin(h)
    BY <2>2, HeldGoTo DEF FindTwin, HeldRows, ledger
  <2>3. ASSUME NEW r \in Rows, Insert(h, r) PROVE HeldRows'
    <3>1. \A k \in Handlers : Holds(k) => mine[k] # r
      BY <2>3 DEF Insert, NewRow, HeldRows, Counting
    <3> QED BY <2>3, <3>1 DEF Insert, GoTo, TypeOK, HeldRows, Holds, Counting
  <2>4. CASE CheckRef(h)
    BY <2>4, HeldGoTo DEF CheckRef, HeldRows, Holds, ledger
  <2>5. CASE Supersede(h)
    <3>1. \A k \in Handlers \ {h} : Holds(k) => mine[k] # mine[h]
      BY <2>5 DEF Supersede, HeldRows, Holds
    <3>2. \A k \in Handlers \ {h} : Holds(k) => status'[mine[k]] \in Counting
      BY <2>5, <3>1 DEF Supersede, SameRef, HeldRows, TypeOK, Counting, Holds
    <3> QED BY <2>5, <3>2, HeldGoTo DEF Supersede
  <2>6. CASE Record(h) \/ RecordFailure(h)
    <3>1. Holds(h) \/ mine[h] = 0
      BY <2>6 DEF Record, RecordFailure, Holds
    <3>2. \A k \in Handlers \ {h} : Holds(k) => status'[mine[k]] = status[mine[k]]
      BY <2>6, <3>1 DEF Record, RecordFailure, HeldRows, TypeOK, Holds
    <3> QED BY <2>6, <3>2, HeldGoTo DEF Record, RecordFailure, HeldRows
  <2> QED BY <1>2, <2>1, <2>2, <2>3, <2>4, <2>5, <2>6 DEF Admin
<1>3. ASSUME NEW h \in Handlers, Others(h) PROVE HeldRows'
  <2>1. CASE (\E a \in Amounts \cup {Total} : AskAcp(h, a)) \/ AskRetracto(h) \/ AskRetry(h)
    BY <2>1, HeldBegin DEF AskAcp, AskRetracto, AskRetry, ledger
  <2>2. CASE CancelOrder(h)
    BY <2>2, HeldGoTo DEF CancelOrder, HeldRows, ledger
  <2>3. CASE FinishAcp(h) \/ FinishRetracto(h) \/ FinishRetry(h)
    BY <2>3, HeldGoTo DEF FinishAcp, FinishRetracto, FinishRetry, HeldRows, ledger
  <2> QED BY <1>3, <2>1, <2>2, <2>3 DEF Others
<1>4. ASSUME NEW h \in Handlers, Notified(h) PROVE HeldRows'
  <2>1. CASE Notify(h)
    BY <2>1, HeldBegin DEF Notify, ledger
  <2>2. CASE FindRow(h)
    <3>1. PICK s \in {"sync", "create", "mark", "idle"} : GoTo(h, s)
      BY <2>2, Zenon DEF FindRow, AfterSync
    <3>2. \A k \in Handlers \ {h} : mine'[k] = mine[k] /\ step'[k] = step[k]
      BY <2>2, <3>1 DEF FindRow, GoTo, TypeOK
    <3>3. step'[h] = s
      BY <3>1 DEF GoTo, TypeOK
    <3> QED BY <2>2, <3>1, <3>2, <3>3 DEF FindRow, HeldRows, Holds, ledger
  <2>3. CASE SyncRow(h)
    <3>1. \A k \in Handlers : Holds(k) => status'[mine[k]] \in Counting
      BY <2>3 DEF SyncRow, HeldRows, TypeOK, Counting, Holds
    <3> QED BY <2>3, <3>1, HeldGoTo DEF SyncRow, AfterSync
  <2>4. ASSUME NEW r \in Rows, CreateRow(h, r) PROVE HeldRows'
    <3>1. \A k \in Handlers : Holds(k) => status'[mine[k]] \in Counting
      BY <2>4 DEF CreateRow, HeldRows, TypeOK, Counting, Holds
    <3> QED BY <2>4, <3>1, HeldGoTo DEF CreateRow, AfterSync
  <2>5. CASE MarkNotified(h)
    BY <2>5, HeldGoTo DEF MarkNotified, HeldRows, ledger
  <2> QED BY <1>4, <2>1, <2>2, <2>3, <2>4, <2>5 DEF Notified
<1>5. ASSUME NEW h \in Handlers, GatewayAccepts(h) PROVE HeldRows'
  BY <1>5, HeldGoTo DEF GatewayAccepts, HeldRows, Holds, ledger
<1>6. ASSUME NEW h \in Handlers, GatewayRefuses(h) \/ Abort(h) PROVE HeldRows'
  BY <1>6, HeldGoTo DEF GatewayRefuses, Abort, HeldRows, Holds, ledger
<1> QED BY <1>1, <1>2, <1>3, <1>4, <1>5, <1>6 DEF Next
THEOREM RowsInUseCount == Spec => []HeldRows
BY HeldInit, HeldStep, RefundsTypeCorrect, PTL DEF Spec

-----------------------------------------------------------------------------
(* A row still to be paid, or refused, is not one the gateway has paid; and *)
(* no row is cancelled when every refund has a reference of its own.        *)
MoneyInv ==
  /\ MoneyIsRecorded
  /\ \A h \in Handlers : step[h] \in {"gateway", "refused"} => mine[h] \notin moved
  /\ \A h \in Handlers : step[h] # "supersede"
  /\ 0 \notin moved

LEMMA MoneyInit == Init => MoneyInv
BY DEF Init, MoneyInv, MoneyIsRecorded

(* A step that moves no money and leaves what it moved in the ledger.       *)
LEMMA MoneyGoTo ==
  ASSUME TypeOK, MoneyInv, NEW h \in Handlers, NEW s, GoTo(h, s),
         \A k \in Handlers \ {h} : mine'[k] = mine[k],
         s \in {"gateway", "refused"} => mine'[h] \notin moved,
         s # "supersede", moved' = moved,
         \A r \in moved : status'[r] \in Counting
  PROVE  MoneyInv'
BY DEF TypeOK, MoneyInv, GoTo, MoneyIsRecorded, Counting

LEMMA MoneyBegin ==
  ASSUME TypeOK, MoneyInv, NEW h \in Handlers, NEW name, NEW s, NEW asked,
         Begin(h, name, s, asked), s # "supersede", status' = status, moved' = moved
  PROVE  MoneyInv'
BY MoneyGoTo DEF TypeOK, Begin, MoneyInv, MoneyIsRecorded

LEMMA MoneyStep ==
  ASSUME OwnRefs, ~LostAnswers, TypeOK, HeldRows, MoneyInv, [Next]_vars
  PROVE  MoneyInv'
<1>1. CASE UNCHANGED vars
  BY <1>1 DEF vars, handler, ledger, external, MoneyInv, MoneyIsRecorded, Counting
<1>2. ASSUME NEW h \in Handlers, Admin(h) PROVE MoneyInv'
  <2>1. CASE \E a \in Amounts \cup {Total}, why \in Reasons, p \in BOOLEAN :
               AskRefund(h, a, why, p)
    BY <2>1, MoneyBegin DEF AskRefund, ledger, external
  <2>2. CASE FindTwin(h)
    BY <2>2, MoneyGoTo DEF FindTwin, MoneyInv, MoneyIsRecorded, ledger, external
  <2>3. ASSUME NEW r \in Rows, Insert(h, r) PROVE MoneyInv'
    <3>1. r \notin moved
      BY <2>3 DEF Insert, NewRow, MoneyInv, MoneyIsRecorded, Counting
    <3>2. /\ mine'[h] = r /\ \A k \in Handlers \ {h} : mine'[k] = mine[k]
          /\ \A q \in moved : status'[q] \in Counting
      BY <2>3, <3>1 DEF Insert, TypeOK, MoneyInv, MoneyIsRecorded
    <3> QED BY <2>3, <3>1, <3>2, MoneyGoTo DEF Insert, external
  <2>4. CASE CheckRef(h)
    <3>1. GoTo(h, "record")
      BY <2>4 DEF CheckRef, SameRef
    <3> QED BY <2>4, <3>1, MoneyGoTo DEF CheckRef, MoneyInv, MoneyIsRecorded, ledger, external
  <2>5. CASE Record(h)
    <3>1. \A q \in moved : status'[q] \in Counting
      BY <2>5 DEF Record, Recorded, TypeOK, MoneyInv, MoneyIsRecorded, Counting
    <3> QED BY <2>5, <3>1, MoneyGoTo DEF Record, external
  <2>6. CASE RecordFailure(h)
    <3>1. \A q \in moved : status'[q] \in Counting
      BY <2>6 DEF RecordFailure, TypeOK, MoneyInv, MoneyIsRecorded
    <3> QED BY <2>6, <3>1, MoneyGoTo DEF RecordFailure, external
  <2>7. CASE Supersede(h)
    BY <2>7 DEF Supersede, MoneyInv
  <2> QED BY <1>2, <2>1, <2>2, <2>3, <2>4, <2>5, <2>6, <2>7 DEF Admin
<1>3. ASSUME NEW h \in Handlers, Others(h) PROVE MoneyInv'
  <2>1. CASE (\E a \in Amounts \cup {Total} : AskAcp(h, a)) \/ AskRetracto(h) \/ AskRetry(h)
    BY <2>1, MoneyBegin DEF AskAcp, AskRetracto, AskRetry, ledger, external
  <2>2. CASE CancelOrder(h)
    BY <2>2, MoneyGoTo DEF CancelOrder, HeldRows, MoneyInv, MoneyIsRecorded, ledger, external
  <2>3. CASE FinishAcp(h) \/ FinishRetracto(h) \/ FinishRetry(h)
    BY <2>3, MoneyGoTo
    DEF FinishAcp, FinishRetracto, FinishRetry, MoneyInv, MoneyIsRecorded, ledger, external
  <2> QED BY <1>3, <2>1, <2>2, <2>3 DEF Others
<1>4. ASSUME NEW h \in Handlers, Notified(h) PROVE MoneyInv'
  <2>1. CASE Notify(h)
    BY <2>1, MoneyBegin DEF Notify, ledger, external
  <2>2. CASE FindRow(h)
    <3>1. PICK s \in {"sync", "create", "mark", "idle"} : GoTo(h, s)
      BY <2>2, Zenon DEF FindRow, AfterSync
    <3>2. \A k \in Handlers \ {h} : mine'[k] = mine[k]
      BY <2>2 DEF FindRow, TypeOK
    <3> QED BY <2>2, <3>1, <3>2, MoneyGoTo
            DEF FindRow, MoneyInv, MoneyIsRecorded, ledger, external
  <2>3. CASE SyncRow(h)
    <3>1. \A q \in moved : status'[q] \in Counting
      BY <2>3 DEF SyncRow, TypeOK, MoneyInv, MoneyIsRecorded, Counting
    <3> QED BY <2>3, <3>1, MoneyGoTo DEF SyncRow, AfterSync, external
  <2>4. ASSUME NEW r \in Rows, CreateRow(h, r) PROVE MoneyInv'
    <3>1. \A q \in moved : status'[q] \in Counting
      BY <2>4 DEF CreateRow, TypeOK, MoneyInv, MoneyIsRecorded, Counting
    <3> QED BY <2>4, <3>1, MoneyGoTo DEF CreateRow, AfterSync, external
  <2>5. CASE MarkNotified(h)
    BY <2>5, MoneyGoTo DEF MarkNotified, MoneyInv, MoneyIsRecorded, ledger, external
  <2> QED BY <1>4, <2>1, <2>2, <2>3, <2>4, <2>5 DEF Notified
<1>5. ASSUME NEW h \in Handlers, GatewayAccepts(h) PROVE MoneyInv'
  <2>1. GoTo(h, "accepted") /\ mine' = mine /\ status' = status
    BY <1>5 DEF GatewayAccepts, ledger
  <2>2. \A r \in moved' : status[r] \in Counting
    BY <1>5 DEF GatewayAccepts, HeldRows, Holds, MoneyInv, MoneyIsRecorded
  <2>3. \A k \in Handlers : step'[k] \in {"gateway", "refused"} => mine[k] \notin moved'
    <3>1. ASSUME NEW k \in Handlers, step'[k] \in {"gateway", "refused"}
          PROVE  k # h /\ step[k] \in {"gateway", "refused"}
      BY <3>1, <2>1 DEF GoTo, TypeOK
    <3>2. ASSUME NEW k \in Handlers, k # h, step[k] \in {"gateway", "refused"}, mine[k] # 0,
                 mine[h] # 0
          PROVE  mine[k] # mine[h]
      BY <3>2, <1>5 DEF GatewayAccepts, HeldRows, Holds
    <3> QED BY <1>5, <3>1, <3>2 DEF GatewayAccepts, MoneyInv
  <2>4. 0 \notin moved'
    BY <1>5 DEF GatewayAccepts, MoneyInv
  <2>5. \A k \in Handlers : step'[k] # "supersede"
    BY <2>1 DEF GoTo, TypeOK, MoneyInv
  <2> QED BY <2>1, <2>2, <2>3, <2>4, <2>5 DEF MoneyInv, MoneyIsRecorded, Counting
<1>6. ASSUME NEW h \in Handlers, GatewayRefuses(h) \/ Abort(h) PROVE MoneyInv'
  BY <1>6, MoneyGoTo
  DEF GatewayRefuses, Abort, MoneyInv, MoneyIsRecorded, ledger, external
<1> QED BY <1>1, <1>2, <1>3, <1>4, <1>5, <1>6 DEF Next

(* Where the gateway names every refund and its answers arrive, a refund it *)
(* made stays in the ledger, whatever crashes and however notifications     *)
(* race with the request.                                                   *)
THEOREM RefundsMadeStayInLedger ==
  ASSUME OwnRefs, ~LostAnswers
  PROVE  Spec => []MoneyIsRecorded
<1>1. MoneyInv => MoneyIsRecorded
  BY DEF MoneyInv
<1>2. TypeOK /\ HeldRows /\ MoneyInv /\ [Next]_vars => MoneyInv'
  BY MoneyStep
<1> QED BY <1>1, <1>2, MoneyInit, RowsInUseCount, RefundsTypeCorrect, PTL DEF Spec
-----------------------------------------------------------------------------
(* Between the search for a duplicate and the create, no duplicate appears. *)
TwinInv ==
  /\ NoTwinRefunds
  /\ \A h \in Handlers : step[h] = "insert" => Twin(h) = {}
  /\ \A g, h \in Handlers : step[g] = "insert" /\ step[h] = "insert" => g = h
  /\ \A h \in Handlers : step[h] \notin {"find", "sync", "create", "mark"}

LEMMA TwinInit == Init => TwinInv
BY DEF Init, TwinInv, NoTwinRefunds, Counting

(* A step after which no row counts that did not, of a handler that does not*)
(* go on to create one.                                                     *)
LEMMA TwinGoTo ==
  ASSUME TypeOK, TwinInv, NEW h \in Handlers, NEW s, GoTo(h, s),
         s \notin {"insert", "find", "sync", "create", "mark"},
         \A k \in Handlers \ {h} : ask'[k] = ask[k],
         detail' = detail,
         \A r \in Rows : status'[r] \in Counting => status[r] \in Counting
  PROVE  TwinInv'
<1>1. \A k \in Handlers \ {h} : step'[k] = step[k] /\ step'[h] = s
  BY DEF GoTo, TypeOK
<1>2. ASSUME NEW k \in Handlers, step'[k] = "insert" PROVE Twin(k)' = {}
  BY <1>1, <1>2 DEF Twin, TwinInv, GoTo, TypeOK, Counting
<1>3. NoTwinRefunds'
  BY DEF TwinInv, NoTwinRefunds, Counting
<1>4. \A g, k \in Handlers : step'[g] = "insert" /\ step'[k] = "insert" => g = k
  BY <1>1 DEF TwinInv, GoTo, TypeOK
<1>5. \A k \in Handlers : step'[k] \notin {"find", "sync", "create", "mark"}
  BY DEF TwinInv, GoTo, TypeOK
<1> QED BY <1>2, <1>3, <1>4, <1>5 DEF TwinInv

LEMMA TwinBegin ==
  ASSUME TypeOK, TwinInv, NEW h \in Handlers, NEW name, NEW s, NEW asked,
         Begin(h, name, s, asked), s \notin {"insert", "find", "sync", "create", "mark"},
         status' = status, detail' = detail
  PROVE  TwinInv'
BY TwinGoTo DEF TypeOK, Begin, TwinInv

LEMMA TwinStep ==
  ASSUME Serializable, "notified" \notin Routes, TypeOK, HeldRows, TwinInv, [Next]_vars
  PROVE  TwinInv'
<1>1. CASE UNCHANGED vars
  BY <1>1 DEF vars, handler, ledger, TwinInv, NoTwinRefunds, Twin, Counting
<1>2. ASSUME NEW h \in Handlers, Admin(h) PROVE TwinInv'
  <2>1. CASE \E a \in Amounts \cup {Total}, why \in Reasons, p \in BOOLEAN :
               AskRefund(h, a, why, p)
    BY <2>1, TwinBegin DEF AskRefund, ledger
  <2>2. CASE FindTwin(h)
    <3>1. CASE Twin(h) # {}
      BY <2>2, <3>1, TwinGoTo DEF FindTwin, Duplicates, ledger
    <3>2. CASE Twin(h) = {}
      <4>1. GoTo(h, "insert") /\ \A g \in Handlers : step[g] # "insert"
        BY <2>2, <3>2 DEF FindTwin, Duplicates
      <4>2. \A k \in Handlers : step'[k] = "insert" => k = h
        BY <4>1 DEF GoTo, TypeOK
      <4>3. Twin(h)' = {} /\ NoTwinRefunds'
        BY <2>2, <3>2 DEF FindTwin, Twin, ledger, TwinInv, NoTwinRefunds, Counting
      <4>4. \A k \in Handlers : step'[k] \notin {"find", "sync", "create", "mark"}
        BY <4>1 DEF GoTo, TypeOK, TwinInv
      <4> QED BY <4>2, <4>3, <4>4 DEF TwinInv
    <3> QED BY <3>1, <3>2
  <2>3. ASSUME NEW r \in Rows, Insert(h, r) PROVE TwinInv'
    <3>1. /\ \A k \in Handlers : step'[k] # "insert"
          /\ \A k \in Handlers : step'[k] \notin {"find", "sync", "create", "mark"}
      BY <2>3 DEF Insert, GoTo, TypeOK, TwinInv
    <3>2. Twin(h) = {}
      BY <2>3 DEF Insert, TwinInv
    <3>3. PICK d : d = [amount |-> ask[h].amount, reason |-> ask[h].reason]
      OBVIOUS
    <3>4. d.amount = ask[h].amount /\ d.reason = ask[h].reason
      BY <3>3
    <3>5. detail' = [detail EXCEPT ![r] = d] /\ status' = [status EXCEPT ![r] = "pending"]
      BY <2>3, <3>3 DEF Insert
    <3>6. \A q \in Rows : q # r => detail'[q] = detail[q] /\ status'[q] = status[q]
      BY <3>5 DEF TypeOK
    <3>7. detail'[r] = d
      BY <3>5 DEF TypeOK
    <3>8. \A q \in Rows : q # r /\ status'[q] \in Counting => detail'[q] # d
      BY <3>2, <3>4, <3>6 DEF Twin
    <3>9. NoTwinRefunds'
      BY <3>6, <3>7, <3>8 DEF TwinInv, NoTwinRefunds, Counting
    <3> QED BY <3>1, <3>9 DEF TwinInv
  <2>4. CASE CheckRef(h)
    BY <2>4, TwinGoTo DEF CheckRef, ledger
  <2>5. CASE Supersede(h)
    <3>1. \A q \in Rows : status'[q] \in Counting => status[q] \in Counting
      BY <2>5 DEF Supersede, TypeOK, Counting, SameRef
    <3> QED BY <2>5, <3>1, TwinGoTo DEF Supersede
  <2>6. CASE Record(h)
    <3>1. \A q \in Rows : status'[q] \in Counting => status[q] \in Counting
      <4>1. mine[h] \in Rows => status[mine[h]] \in Counting
        BY <2>6, RefundAssumption DEF Record, HeldRows, Holds, Rows
      <4>2. \A q \in Rows : q # mine[h] => status'[q] = status[q]
        BY <2>6 DEF Record, TypeOK
      <4> QED BY <4>1, <4>2
    <3> QED BY <2>6, <3>1, TwinGoTo DEF Record
  <2>7. CASE RecordFailure(h)
    <3>1. \A q \in Rows : status'[q] \in Counting => status[q] \in Counting
      BY <2>7 DEF RecordFailure, TypeOK, Counting
    <3> QED BY <2>7, <3>1, TwinGoTo DEF RecordFailure
  <2> QED BY <1>2, <2>1, <2>2, <2>3, <2>4, <2>5, <2>6, <2>7 DEF Admin
<1>3. ASSUME NEW h \in Handlers, Others(h) PROVE TwinInv'
  <2>1. CASE (\E a \in Amounts \cup {Total} : AskAcp(h, a)) \/ AskRetracto(h) \/ AskRetry(h)
    BY <2>1, TwinBegin DEF AskAcp, AskRetracto, AskRetry, ledger
  <2>2. CASE CancelOrder(h)
    BY <2>2, TwinGoTo DEF CancelOrder, ledger
  <2>3. CASE FinishAcp(h) \/ FinishRetracto(h) \/ FinishRetry(h)
    BY <2>3, TwinGoTo DEF FinishAcp, FinishRetracto, FinishRetry, ledger
  <2> QED BY <1>3, <2>1, <2>2, <2>3 DEF Others
<1>4. ASSUME NEW h \in Handlers, Notified(h) PROVE TwinInv'
  BY <1>4 DEF Notified, Notify, Begin, FindRow, SyncRow, CreateRow, MarkNotified, TwinInv
<1>5. ASSUME NEW h \in Handlers, GatewayAccepts(h) PROVE TwinInv'
  BY <1>5, TwinGoTo DEF GatewayAccepts, ledger
<1>6. ASSUME NEW h \in Handlers, GatewayRefuses(h) \/ Abort(h) PROVE TwinInv'
  BY <1>6, TwinGoTo DEF GatewayRefuses, Abort, ledger
<1> QED BY <1>1, <1>2, <1>3, <1>4, <1>5, <1>6 DEF Next

(* A double click refunds once, where transactions are serialised and no    *)
(* notification revives a refund that failed.                               *)
THEOREM DoubleClickRefundsOnce ==
  ASSUME Serializable, "notified" \notin Routes
  PROVE  Spec => []NoTwinRefunds
<1>1. TwinInv => NoTwinRefunds
  BY DEF TwinInv
<1>2. TypeOK /\ HeldRows /\ TwinInv /\ [Next]_vars => TwinInv'
  BY TwinStep
<1> QED BY <1>1, <1>2, TwinInit, RowsInUseCount, RefundsTypeCorrect, PTL DEF Spec

-----------------------------------------------------------------------------
(* What is not partial asks for the whole order, and a handler that is told *)
(* so finds it all given back; nobody here marks the order for less.        *)
FullInv ==
  /\ \A h \in Handlers : ~ask[h].partial => ask[h].amount \in {0, Total}
  /\ \A h \in Handlers :
       step[h] \in {"accepted", "record"} /\ ~ask[h].partial => gateway = Total
  /\ \A h \in Handlers :
       /\ step[h] \notin {"find", "sync", "create", "mark"}
       /\ step[h] # "idle" => route[h] # "acp"
       /\ route[h] = "retracto" => ~ask[h].partial
  /\ RefundedMeansFully

LEMMA FullInit == Init => FullInv
BY DEF Init, FullInv, RefundedMeansFully

(* A step of one handler that is not told of a refund.                      *)
LEMMA FullGoTo ==
  ASSUME TypeOK, FullInv, NEW h \in Handlers, NEW s, GoTo(h, s),
         UNCHANGED <<ask, route, gateway>>,
         s \notin {"accepted", "find", "sync", "create", "mark"},
         s = "record" => step[h] = "accepted",
         s # "idle" => step[h] # "idle",
         paymentStatus' = "refunded" => paymentStatus = "refunded" \/ gateway = Total
  PROVE  FullInv'
<1>1. \A k \in Handlers : step'[k] = IF k = h THEN s ELSE step[k]
  BY DEF GoTo, TypeOK
<1>2. RefundedMeansFully'
  BY DEF FullInv, RefundedMeansFully
<1> QED BY <1>1, <1>2 DEF FullInv

LEMMA FullBegin ==
  ASSUME TypeOK, FullInv, NEW h \in Handlers, NEW name \in {"admin", "retracto", "retry"},
         NEW s \in {"find twin", "cancel", "gateway"}, NEW asked,
         Begin(h, name, s, asked), UNCHANGED <<gateway, paymentStatus>>,
         ~asked.partial => asked.amount \in {0, Total},
         name = "retracto" => ~asked.partial
  PROVE  FullInv'
<1>1. /\ \A k \in Handlers \ {h} :
           step'[k] = step[k] /\ ask'[k] = ask[k] /\ route'[k] = route[k]
      /\ step'[h] = s /\ ask'[h] = asked /\ route'[h] = name
  BY DEF Begin, GoTo, TypeOK
<1>2. RefundedMeansFully'
  BY DEF FullInv, RefundedMeansFully
<1> QED BY <1>1, <1>2 DEF FullInv

LEMMA FullStep ==
  ASSUME "acp" \notin Routes, "notified" \notin Routes, TypeOK, PaidBackInv, FullInv,
         [Next]_vars
  PROVE  FullInv'
<1>1. CASE UNCHANGED vars
  BY <1>1 DEF vars, handler, external, FullInv, RefundedMeansFully
<1>2. ASSUME NEW h \in Handlers, Admin(h) PROVE FullInv'
  <2>1. ASSUME NEW a \in Amounts \cup {Total}, NEW why \in Reasons, NEW p \in BOOLEAN,
               AskRefund(h, a, why, p)
        PROVE  FullInv'
    <3>1. Asked(a, why, p).amount = a /\ Asked(a, why, p).partial = p /\ (p \/ a = Total)
      BY <2>1 DEF Asked, AskRefund
    <3> QED BY <2>1, <3>1, FullBegin DEF AskRefund, external
  <2>2. CASE FindTwin(h) \/ CheckRef(h) \/ \E r \in Rows : Insert(h, r)
    BY <2>2, FullGoTo DEF FindTwin, CheckRef, Insert, external
  <2>3. CASE Supersede(h) \/ RecordFailure(h)
    BY <2>3, FullGoTo DEF Supersede, RecordFailure, external
  <2>4. CASE Record(h)
    <3>1. ~ask[h].partial => gateway = Total
      BY <2>4 DEF Record, FullInv
    <3> QED BY <2>4, <3>1, FullGoTo DEF Record, Marks, external
  <2> QED BY <1>2, <2>1, <2>2, <2>3, <2>4 DEF Admin
<1>3. ASSUME NEW h \in Handlers, Others(h) PROVE FullInv'
  <2>1. ASSUME NEW a, AskAcp(h, a) PROVE FALSE
    BY <2>1 DEF AskAcp, Begin
  <2>2. CASE AskRetracto(h)
    <3>1. PICK asked : /\ Begin(h, "retracto", "cancel", asked)
                       /\ asked = Full \/ asked = Asked(0, "none", FALSE)
      BY <2>2 DEF AskRetracto
    <3>2. ~asked.partial /\ asked.amount \in {0, Total}
      BY <3>1 DEF Full, Asked
    <3> QED BY <2>2, <3>1, <3>2, FullBegin DEF AskRetracto, external
  <2>3. CASE AskRetry(h)
    <3>1. ~Full.partial /\ Full.amount = Total
      BY DEF Full, Asked
    <3> QED BY <2>3, <3>1, FullBegin DEF AskRetry, external
  <2>4. CASE CancelOrder(h)
    BY <2>4, FullGoTo DEF CancelOrder, external
  <2>5. CASE FinishAcp(h)
    BY <2>5 DEF FinishAcp, FullInv
  <2>6. CASE FinishRetracto(h)
    <3>1. step[h] = "accepted" => gateway = Total
      BY <2>6 DEF FinishRetracto, FullInv
    <3> QED BY <2>6, <3>1, FullGoTo DEF FinishRetracto, MarkRefunded, external
  <2>7. CASE FinishRetry(h)
    BY <2>7, FullGoTo DEF FinishRetry, external
  <2> QED BY <1>3, <2>1, <2>2, <2>3, <2>4, <2>5, <2>6, <2>7 DEF Others
<1>4. ASSUME NEW h \in Handlers, Notified(h) PROVE FALSE
  BY <1>4 DEF Notified, Notify, Begin, FindRow, SyncRow, CreateRow, MarkNotified, FullInv
<1>5. ASSUME NEW h \in Handlers, GatewayAccepts(h) PROVE FullInv'
  <2>1. /\ ask[h].amount > 0 /\ ask[h].amount \in 0..Total /\ gateway \in 0..Total
        /\ gateway' = gateway + ask[h].amount /\ gateway' <= Total
    <3>1. ask[h].amount > 0
      BY <1>5 DEF GatewayAccepts, PaidBackInv, BeforeGateway
    <3>2. ask[h].amount \in 0..Total /\ gateway \in 0..Total
      BY DEF TypeOK
    <3>3. gateway' = gateway + ask[h].amount /\ gateway' <= Total
      BY <1>5 DEF GatewayAccepts, Charge
    <3> QED BY <3>1, <3>2, <3>3
  <2>2. /\ ~ask[h].partial => gateway' = Total
        /\ gateway = Total => gateway' = Total
    <3>1. ~ask[h].partial => ask[h].amount \in {0, Total}
      BY DEF FullInv
    <3> QED BY <2>1, <3>1, RefundAssumption
  <2>3. \A k \in Handlers : step'[k] \in {"accepted", "record"} =>
          k = h \/ step[k] \in {"accepted", "record"}
    BY <1>5 DEF GatewayAccepts, GoTo, TypeOK
  <2>4. \A k \in Handlers :
          /\ step'[k] \notin {"find", "sync", "create", "mark"}
          /\ step'[k] # "idle" => route[k] # "acp"
    BY <1>5 DEF GatewayAccepts, GoTo, TypeOK, FullInv
  <2>5. UNCHANGED <<ask, route, paymentStatus>>
    BY <1>5 DEF GatewayAccepts
  <2>6. RefundedMeansFully'
    BY <2>2, <2>5 DEF FullInv, RefundedMeansFully
  <2>7. \A k \in Handlers :
          step'[k] \in {"accepted", "record"} /\ ~ask'[k].partial => gateway' = Total
    BY <2>2, <2>3, <2>5 DEF FullInv
  <2> QED BY <2>4, <2>5, <2>6, <2>7 DEF FullInv
<1>6. ASSUME NEW h \in Handlers, GatewayRefuses(h) \/ Abort(h) PROVE FullInv'
  BY <1>6, FullGoTo DEF GatewayRefuses, Abort, external
<1> QED BY <1>1, <1>2, <1>3, <1>4, <1>5, <1>6 DEF Next

(* An order is marked refunded only when all of it went back, whatever was  *)
(* refunded in part before, as long as neither the ACP route nor the        *)
(* gateway's notification marks it for less.                                *)
THEOREM RefundedOrdersWerePaidInFull ==
  ASSUME "acp" \notin Routes, "notified" \notin Routes
  PROVE  Spec => []RefundedMeansFully
<1>1. FullInv => RefundedMeansFully
  BY DEF FullInv
<1>2. TypeOK /\ PaidBackInv /\ FullInv /\ [Next]_vars => FullInv'
  BY FullStep
<1>3. Spec => []PaidBackInv
  BY PaidBackInit, PaidBackStep, RefundsTypeCorrect, PTL DEF Spec
<1> QED BY <1>1, <1>2, <1>3, FullInit, RefundsTypeCorrect, PTL DEF Spec

-----------------------------------------------------------------------------
(* The routes implement RefundLedger.  What a request asks the gateway for  *)
(* is its row's amount, a row to be written exists, and a notification      *)
(* speaks of what was given back.                                           *)
LedgerInv ==
  /\ \A h \in Handlers :
       step[h] = "gateway" /\ mine[h] # 0 => detail[mine[h]].amount = ask[h].amount
  /\ \A h \in Handlers : step[h] = "sync" /\ mine[h] # 0 => status[mine[h]] # "absent"
  /\ \A h \in Handlers :
       step[h] \in {"find", "sync", "create"} => ask[h].amount > 0 /\ ask[h].amount <= gateway

LEMMA LedgerInit == Init => LedgerInv
BY DEF Init, LedgerInv

(* A step of one handler that goes nowhere near the gateway and leaves the  *)
(* rows that others hold.                                                   *)
LEMMA LedgerGoTo ==
  ASSUME TypeOK, HeldRows, LedgerInv, NEW h \in Handlers, NEW s, GoTo(h, s),
         ask' = ask, gateway' = gateway, mine' = mine, detail' = detail,
         s = "gateway" => mine[h] = 0,
         s \notin {"find", "sync", "create"},
         \A r \in Rows : status[r] # "absent" => status'[r] # "absent"
  PROVE  LedgerInv'
<1>1. \A k \in Handlers : step'[k] = IF k = h THEN s ELSE step[k]
  BY DEF GoTo, TypeOK
<1>2. \A k \in Handlers : mine[k] # 0 => mine[k] \in Rows
  BY DEF TypeOK
<1> QED BY <1>1, <1>2 DEF LedgerInv

LEMMA LedgerBegin ==
  ASSUME TypeOK, LedgerInv, NEW h \in Handlers, NEW name, NEW s, NEW asked,
         Begin(h, name, s, asked), UNCHANGED <<status, detail, gateway>>,
         s \in {"find", "sync", "create"} => asked.amount > 0 /\ asked.amount <= gateway
  PROVE  LedgerInv'
<1>1. /\ \A k \in Handlers \ {h} :
           step'[k] = step[k] /\ ask'[k] = ask[k] /\ mine'[k] = mine[k]
      /\ step'[h] = s /\ ask'[h] = asked /\ mine'[h] = 0
  BY DEF Begin, GoTo, TypeOK
<1> QED BY <1>1 DEF LedgerInv

(* A row that is created is nobody's yet.                                   *)
LEMMA LedgerRow ==
  ASSUME TypeOK, HeldRows, LedgerInv, NEW h \in Handlers, NEW s, NEW r \in Rows, NEW d, NEW new,
         GoTo(h, s), status[r] = "absent", new # "absent",
         status' = [status EXCEPT ![r] = new], detail' = [detail EXCEPT ![r] = d],
         ask' = ask, gateway' = gateway, \A k \in Handlers \ {h} : mine'[k] = mine[k],
         s = "gateway" => mine'[h] = r /\ d.amount = ask[h].amount,
         s \notin {"find", "sync", "create"}
  PROVE  LedgerInv'
<1>1. \A k \in Handlers : step'[k] = IF k = h THEN s ELSE step[k]
  BY DEF GoTo, TypeOK
<1>2. \A q \in Rows : /\ detail'[q] = IF q = r THEN d ELSE detail[q]
                      /\ status'[q] = IF q = r THEN new ELSE status[q]
  BY DEF TypeOK
<1>3. \A k \in Handlers : step[k] = "gateway" /\ mine[k] # 0 => mine[k] \in Rows \ {r}
  BY DEF HeldRows, Holds, Counting, TypeOK
<1>4. \A k \in Handlers : mine[k] # 0 => mine[k] \in Rows
  BY DEF TypeOK
<1> QED BY <1>1, <1>2, <1>3, <1>4 DEF LedgerInv

LEMMA LedgerInvStep ==
  ASSUME TypeOK, HeldRows, PaidBackInv, LedgerInv, [Next]_vars
  PROVE  LedgerInv'
<1>1. CASE UNCHANGED vars
  BY <1>1 DEF vars, ledger, handler, external, LedgerInv
<1>2. ASSUME NEW h \in Handlers, Admin(h) PROVE LedgerInv'
  <2>1. CASE \E a \in Amounts \cup {Total}, why \in Reasons, p \in BOOLEAN :
               AskRefund(h, a, why, p)
    BY <2>1, LedgerBegin DEF AskRefund, ledger, external
  <2>2. CASE FindTwin(h) \/ CheckRef(h)
    BY <2>2, LedgerGoTo DEF FindTwin, CheckRef, ledger, external
  <2>3. ASSUME NEW r \in Rows, Insert(h, r) PROVE LedgerInv'
    <3>1. PICK d : d = [amount |-> ask[h].amount, reason |-> ask[h].reason]
      OBVIOUS
    <3>2. d.amount = ask[h].amount
      BY <3>1
    <3>3. /\ status[r] = "absent" /\ GoTo(h, "gateway")
          /\ status' = [status EXCEPT ![r] = "pending"] /\ detail' = [detail EXCEPT ![r] = d]
          /\ ask' = ask /\ gateway' = gateway
      BY <2>3, <3>1 DEF Insert, NewRow, external
    <3>4. mine'[h] = r /\ \A k \in Handlers \ {h} : mine'[k] = mine[k]
      BY <2>3 DEF Insert, TypeOK
    <3> QED BY <3>2, <3>3, <3>4, LedgerRow
  <2>4. CASE Supersede(h) \/ Record(h) \/ RecordFailure(h)
    <3>1. \A r \in Rows : status[r] # "absent" => status'[r] # "absent"
      BY <2>4 DEF Supersede, Record, Recorded, RecordFailure, SameRef, TypeOK
    <3> QED BY <2>4, <3>1, LedgerGoTo DEF Supersede, Record, RecordFailure, external
  <2> QED BY <1>2, <2>1, <2>2, <2>3, <2>4 DEF Admin
<1>3. ASSUME NEW h \in Handlers, Others(h) PROVE LedgerInv'
  <2>1. CASE (\E a \in Amounts \cup {Total} : AskAcp(h, a)) \/ AskRetracto(h) \/ AskRetry(h)
    BY <2>1, LedgerBegin DEF AskAcp, AskRetracto, AskRetry, ledger, external
  <2>2. CASE CancelOrder(h)
    <3>1. mine[h] = 0
      BY <2>2 DEF CancelOrder, HeldRows
    <3> QED BY <2>2, <3>1, LedgerGoTo DEF CancelOrder, ledger, external
  <2>3. CASE FinishAcp(h) \/ FinishRetracto(h) \/ FinishRetry(h)
    BY <2>3, LedgerGoTo DEF FinishAcp, FinishRetracto, FinishRetry, ledger, external
  <2> QED BY <1>3, <2>1, <2>2, <2>3 DEF Others
<1>4. ASSUME NEW h \in Handlers, Notified(h) PROVE LedgerInv'
  <2>1. CASE Notify(h)
    <3>1. /\ Asked(gateway, "none", FALSE).amount = gateway
          /\ gateway > 0 /\ gateway <= gateway
      BY <2>1 DEF Asked, Notify, TypeOK
    <3> QED BY <2>1, <3>1, LedgerBegin DEF Notify, ledger, external
  <2>2. CASE FindRow(h)
    <3>1. PICK s \in {"sync", "create", "mark", "idle"} : GoTo(h, s)
      BY <2>2 DEF FindRow, AfterSync
    <3>2. \A k \in Handlers : step'[k] = IF k = h THEN s ELSE step[k]
      BY <3>1 DEF GoTo, TypeOK
    <3>3. /\ UNCHANGED <<status, detail, gateway, ask>>
          /\ ask[h].amount > 0 /\ ask[h].amount <= gateway
      BY <2>2 DEF FindRow, LedgerInv, ledger, external
    <3>4. \A k \in Handlers \ {h} : mine'[k] = mine[k]
      BY <2>2 DEF FindRow, TypeOK
    <3>5. s = "sync" => mine'[h] \in Rows /\ status[mine'[h]] = "pending"
      <4>1. CASE \E r \in Newest(Match) : status[r] = "pending"
        <5>1. PICK r \in Newest(Match) : mine' = [mine EXCEPT ![h] = r]
          BY <2>2, <4>1 DEF FindRow
        <5>2. PICK q \in Newest(Match) : status[q] = "pending"
          BY <4>1
        <5>3. q \in Match /\ r \in Match /\ q <= r /\ r <= q
          BY <5>1, <5>2 DEF Newest
        <5>4. q \in Rows /\ r \in Rows
          BY <5>3 DEF Match
        <5>5. r = q
          BY <5>3, <5>4 DEF Rows
        <5> QED BY <5>1, <5>2, <5>4, <5>5 DEF TypeOK
      <4>2. CASE ~\E r \in Newest(Match) : status[r] = "pending"
        <5>1. s # "sync"
          BY <2>2, <3>2, <4>2 DEF FindRow, AfterSync, GoTo, TypeOK
        <5> QED BY <5>1
      <4> QED BY <4>1, <4>2
    <3> QED BY <3>2, <3>3, <3>4, <3>5 DEF LedgerInv
  <2>3. CASE SyncRow(h)
    <3>1. \A r \in Rows : status[r] # "absent" => status'[r] # "absent"
      BY <2>3 DEF SyncRow, TypeOK
    <3> QED BY <2>3, <3>1, LedgerGoTo DEF SyncRow, AfterSync, external
  <2>4. ASSUME NEW r \in Rows, CreateRow(h, r) PROVE LedgerInv'
    BY <2>4, LedgerRow DEF CreateRow, NewRow, AfterSync, external
  <2>5. CASE MarkNotified(h)
    BY <2>5, LedgerGoTo DEF MarkNotified, ledger, external
  <2> QED BY <1>4, <2>1, <2>2, <2>3, <2>4, <2>5 DEF Notified
<1>5. ASSUME NEW h \in Handlers, GatewayAccepts(h) PROVE LedgerInv'
  <2>1. gateway <= gateway' /\ gateway \in Nat /\ gateway' \in Nat
    <3>1. ask[h].amount \in 0..Total /\ gateway \in 0..Total
      BY DEF TypeOK
    <3>2. gateway' = gateway + ask[h].amount
      BY <1>5 DEF GatewayAccepts, Charge
    <3> QED BY <3>1, <3>2, RefundAssumption
  <2>2. \A k \in Handlers : step'[k] \in {"gateway", "find", "sync", "create"} =>
          step'[k] = step[k]
    BY <1>5 DEF GatewayAccepts, GoTo, TypeOK
  <2>3. UNCHANGED <<status, detail, mine, ask>>
    BY <1>5 DEF GatewayAccepts, ledger
  <2>4. \A k \in Handlers : ask[k].amount \in Nat
    BY DEF TypeOK
  <2>5. \A k \in Handlers : step'[k] \in {"find", "sync", "create"} =>
          ask[k].amount > 0 /\ ask[k].amount <= gateway'
    BY <2>1, <2>2, <2>4 DEF LedgerInv
  <2> QED BY <2>2, <2>3, <2>5 DEF LedgerInv
<1>6. ASSUME NEW h \in Handlers, GatewayRefuses(h) \/ Abort(h) PROVE LedgerInv'
  BY <1>6, LedgerGoTo DEF GatewayRefuses, Abort, ledger, external
<1> QED BY <1>1, <1>2, <1>3, <1>4, <1>5, <1>6 DEF Next

-----------------------------------------------------------------------------
(* What the abstract ledger sees of the rows.                               *)
RowAmounts == [r \in Rows |-> detail[r].amount]

LEMMA LedgerFrame ==
  ASSUME UNCHANGED <<status, detail, gateway, moved, paymentStatus>>
  PROVE  UNCHANGED Ledger!lvars
<1>1. UNCHANGED RowAmounts
  BY DEF RowAmounts
<1> QED BY <1>1 DEF RowAmounts, Ledger!lvars

(* A step that at most marks the order.                                     *)
LEMMA LedgerMark ==
  ASSUME UNCHANGED <<status, detail, gateway, moved>>,
         paymentStatus' = paymentStatus \/ (gateway > 0 /\ paymentStatus' = "refunded")
  PROVE  [Ledger!LNext]_(Ledger!lvars)
<1>1. UNCHANGED RowAmounts
  BY DEF RowAmounts
<1>2. CASE paymentStatus' = paymentStatus
  BY <1>2, LedgerFrame
<1>3. CASE gateway > 0 /\ paymentStatus' = "refunded"
  BY <1>1, <1>3 DEF RowAmounts, Ledger!Mark, Ledger!LNext
<1> QED BY <1>2, <1>3

(* A row, if there is one, is settled.                                      *)
LEMMA LedgerSettle ==
  ASSUME TypeOK, NEW r \in Rows \cup {0}, r # 0 => status[r] # "absent", gateway > 0,
         status' = [status EXCEPT ![r] = "processed"],
         paymentStatus' \in {paymentStatus, "refunded"},
         UNCHANGED <<detail, gateway, moved>>
  PROVE  [Ledger!LNext]_(Ledger!lvars)
<1>1. UNCHANGED RowAmounts
  BY DEF RowAmounts
<1>2. CASE r = 0
  <2>1. status' = status
    BY <1>2 DEF TypeOK, Rows
  <2> QED BY <2>1, LedgerMark
<1>3. CASE r # 0
  <2>1. r \in Rows /\ Ledger!Settle(r)
    BY <1>1, <1>3 DEF RowAmounts, Ledger!Settle
  <2> QED BY <2>1 DEF Ledger!LNext
<1> QED BY <1>2, <1>3

(* A row is written for the first time.                                     *)
LEMMA LedgerWrite ==
  ASSUME TypeOK, NEW r \in Rows, NEW d, NEW new \in {"pending", "processed"},
         status[r] = "absent", d.amount \in 1..Total,
         new = "processed" => d.amount <= gateway,
         status' = [status EXCEPT ![r] = new], detail' = [detail EXCEPT ![r] = d],
         UNCHANGED <<gateway, moved, paymentStatus>>
  PROVE  Ledger!LNext
<1>1. RowAmounts' = [RowAmounts EXCEPT ![r] = d.amount]
  BY DEF RowAmounts, TypeOK
<1>2. CASE new = "pending"
  BY <1>1, <1>2 DEF RowAmounts, Ledger!Ask, Ledger!LNext
<1>3. CASE new = "processed"
  BY <1>1, <1>3 DEF RowAmounts, Ledger!Register, Ledger!LNext
<1> QED BY <1>2, <1>3

LEMMA LedgerAdmin ==
  ASSUME TypeOK, HeldRows, PaidBackInv, MoneyInv, LedgerInv, NEW h \in Handlers, Admin(h)
  PROVE  [Ledger!LNext]_(Ledger!lvars)
<1>1. CASE \/ \E a \in Amounts \cup {Total}, why \in Reasons, p \in BOOLEAN :
                AskRefund(h, a, why, p)
           \/ FindTwin(h) \/ CheckRef(h)
  BY <1>1, LedgerFrame DEF AskRefund, FindTwin, CheckRef, ledger, external
<1>2. ASSUME NEW r \in Rows, Insert(h, r) PROVE Ledger!LNext
  <2>1. PICK d : d = [amount |-> ask[h].amount, reason |-> ask[h].reason]
    OBVIOUS
  <2>2. ask[h].amount > 0 /\ ask[h].amount \in 0..Total
    BY <1>2 DEF Insert, PaidBackInv, BeforeGateway, TypeOK
  <2>3. d.amount \in 1..Total
    <3>1. d.amount = ask[h].amount
      BY <2>1
    <3> QED BY <2>2, <3>1, RefundAssumption
  <2> QED BY <1>2, <2>1, <2>3, LedgerWrite DEF Insert, NewRow, external
<1>3. CASE Supersede(h)
  BY <1>3 DEF Supersede, MoneyInv
<1>4. CASE Record(h)
  <2>1. mine[h] \in Rows \cup {0} /\ gateway > 0
    BY <1>4 DEF Record, PaidBackInv, AfterGateway, TypeOK
  <2>2. mine[h] # 0 => status[mine[h]] # "absent"
    BY <1>4 DEF Record, HeldRows, Holds, Counting
  <2> QED BY <1>4, <2>1, <2>2, LedgerSettle DEF Record, Recorded, external
<1>5. CASE RecordFailure(h)
  <2>1. mine[h] # 0 => mine[h] \in Rows /\ status[mine[h]] \in Counting /\ mine[h] \notin moved
    BY <1>5 DEF RecordFailure, HeldRows, Holds, MoneyInv, TypeOK
  <2>2. UNCHANGED <<RowAmounts, gateway, moved, paymentStatus>>
    BY <1>5 DEF RecordFailure, RowAmounts, external
  <2>3. CASE mine[h] = 0
    <3>1. status' = status
      BY <1>5, <2>3 DEF RecordFailure, TypeOK, Rows
    <3> QED BY <1>5, <3>1, LedgerFrame DEF RecordFailure, external
  <2>4. CASE mine[h] # 0
    <3>1. Ledger!Refuse(mine[h])
      BY <1>5, <2>1, <2>2, <2>4 DEF RecordFailure, RowAmounts, Counting, Ledger!Refuse
    <3> QED BY <2>1, <2>4, <3>1 DEF Ledger!LNext
  <2> QED BY <2>3, <2>4
<1> QED BY <1>1, <1>2, <1>3, <1>4, <1>5 DEF Admin

LEMMA LedgerOthers ==
  ASSUME TypeOK, PaidBackInv, NEW h \in Handlers, Others(h)
  PROVE  [Ledger!LNext]_(Ledger!lvars)
<1>1. UNCHANGED <<status, detail, gateway, moved>>
  BY DEF Others, AskAcp, AskRetracto, CancelOrder, AskRetry, FinishAcp, FinishRetracto,
         FinishRetry, ledger, external
<1>2. step[h] = "accepted" => gateway > 0
  BY DEF PaidBackInv, AfterGateway
<1>3. paymentStatus' = paymentStatus \/ (gateway > 0 /\ paymentStatus' = "refunded")
  BY <1>2 DEF Others, AskAcp, AskRetracto, CancelOrder, AskRetry, FinishAcp, FinishRetracto,
         FinishRetry, MarkRefunded
<1> QED BY <1>1, <1>3, LedgerMark

LEMMA LedgerNotified ==
  ASSUME OwnRefs, TypeOK, PaidBackInv, LedgerInv, NEW h \in Handlers, Notified(h)
  PROVE  [Ledger!LNext]_(Ledger!lvars)
<1>1. CASE Notify(h) \/ FindRow(h)
  BY <1>1, LedgerFrame DEF Notify, FindRow, ledger, external
<1>2. CASE SyncRow(h)
  <2>1. /\ mine[h] \in Rows \cup {0} /\ gateway > 0
        /\ mine[h] # 0 => status[mine[h]] # "absent"
    BY <1>2 DEF SyncRow, PaidBackInv, AfterGateway, TypeOK, LedgerInv
  <2> QED BY <1>2, <2>1, LedgerSettle DEF SyncRow, external
<1>3. ASSUME NEW r \in Rows, CreateRow(h, r) PROVE Ledger!LNext
  <2>1. PICK d : d = [amount |-> ask[h].amount, reason |-> "gateway_initiated"]
    OBVIOUS
  <2>2. ask[h].amount > 0 /\ ask[h].amount \in 0..Total /\ ask[h].amount <= gateway
    BY <1>3 DEF CreateRow, LedgerInv, TypeOK
  <2>3. d.amount \in 1..Total /\ d.amount <= gateway
    <3>1. d.amount = ask[h].amount
      BY <2>1
    <3> QED BY <2>2, <3>1, RefundAssumption
  <2> QED BY <1>3, <2>1, <2>3, LedgerWrite DEF CreateRow, NewRow, external
<1>4. CASE MarkNotified(h)
  <2>1. gateway > 0
    BY <1>4 DEF MarkNotified, PaidBackInv, AfterGateway
  <2> QED BY <1>4, <2>1, LedgerMark DEF MarkNotified, ledger, external
<1> QED BY <1>1, <1>2, <1>3, <1>4 DEF Notified

LEMMA LedgerGateway ==
  ASSUME TypeOK, HeldRows, PaidBackInv, MoneyInv, LedgerInv, NEW h \in Handlers,
         GatewayAccepts(h)
  PROVE  Ledger!LNext
<1>1. /\ ask[h].amount \in 1..Total /\ gateway + ask[h].amount <= Total
      /\ gateway' = gateway + ask[h].amount
  <2>1. ask[h].amount > 0 /\ ask[h].amount \in 0..Total
    BY DEF GatewayAccepts, PaidBackInv, BeforeGateway, TypeOK
  <2> QED BY <2>1, RefundAssumption DEF GatewayAccepts, Charge
<1>2. UNCHANGED <<status, RowAmounts, paymentStatus>>
  BY DEF GatewayAccepts, ledger, RowAmounts
<1>3. CASE mine[h] = 0
  <2>1. moved' = moved
    BY <1>3 DEF GatewayAccepts
  <2>2. Ledger!GiveBackUnrecorded(ask[h].amount)
    BY <1>1, <1>2, <2>1 DEF RowAmounts, Ledger!GiveBackUnrecorded
  <2> QED BY <1>1, <2>2 DEF Ledger!LNext
<1>4. CASE mine[h] # 0
  <2>1. /\ mine[h] \in Rows /\ mine[h] \notin moved /\ status[mine[h]] \in Counting
        /\ RowAmounts[mine[h]] = ask[h].amount
    BY <1>4 DEF GatewayAccepts, TypeOK, MoneyInv, HeldRows, Holds, LedgerInv, RowAmounts
  <2>2. moved' = moved \cup {mine[h]}
    BY <1>4 DEF GatewayAccepts
  <2>3. Ledger!GiveBack(mine[h])
    BY <1>1, <1>2, <2>1, <2>2 DEF RowAmounts, Counting, Ledger!GiveBack
  <2> QED BY <2>1, <2>3 DEF Ledger!LNext
<1> QED BY <1>3, <1>4

LEMMA StepKeepsLedger ==
  ASSUME OwnRefs, TypeOK, HeldRows, PaidBackInv, MoneyInv, LedgerInv, [Next]_vars
  PROVE  [Ledger!LNext]_(Ledger!lvars)
<1>1. CASE UNCHANGED vars
  BY <1>1, LedgerFrame DEF vars, ledger, external
<1>2. ASSUME NEW h \in Handlers, GatewayRefuses(h) \/ Abort(h)
      PROVE  UNCHANGED Ledger!lvars
  BY <1>2, LedgerFrame DEF GatewayRefuses, Abort, ledger, external
<1> QED BY <1>1, <1>2, LedgerAdmin, LedgerOthers, LedgerNotified, LedgerGateway DEF Next

(* Where the gateway names every refund and its answers arrive, the five    *)
(* routes together keep the ledger they share: a row is paid once and in    *)
(* its amount, stays in the ledger once it was, and the order is marked     *)
(* only after money went back (refund/route.ts:18-29).                      *)
THEOREM RefundsImplementLedger ==
  ASSUME OwnRefs, ~LostAnswers
  PROVE  Spec => KeepsLedger
<1>1. Init => Ledger!LInit
  <2>1. ASSUME Init PROVE RowAmounts = [r \in Rows |-> 0]
    BY <2>1 DEF Init, RowAmounts
  <2> QED BY <2>1 DEF Init, RowAmounts, Ledger!LInit
<1>2. TypeOK /\ HeldRows /\ MoneyInv /\ [Next]_vars => MoneyInv'
  BY MoneyStep
<1>3. TypeOK /\ HeldRows /\ PaidBackInv /\ LedgerInv /\ [Next]_vars => LedgerInv'
  BY LedgerInvStep
<1>4. TypeOK /\ HeldRows /\ PaidBackInv /\ MoneyInv /\ LedgerInv /\ [Next]_vars =>
        [Ledger!LNext]_(Ledger!lvars)
  BY StepKeepsLedger
<1> QED
  BY <1>1, <1>2, <1>3, <1>4, PaidBackInit, PaidBackStep, MoneyInit, LedgerInit, RowsInUseCount,
     RefundsTypeCorrect, PTL DEF Spec, KeepsLedger, Ledger!LSpec

-----------------------------------------------------------------------------
(* The refund-retry job.                                                    *)

(* What a run reads is a sequence of events that are due with their notes.  *)
LEMMA BatchType ==
  ASSUME RetryTypeOK, NEW n \in 1..BatchSize, NEW batch \in Oldest(n)
  PROVE  Read(n, batch) \in Seq(Items) /\ Len(Read(n, batch)) = n
<1>0. Due \subseteq Events
  BY DEF Due, RetryTypeOK
<1>1. n \in Nat /\ batch \in [1..n -> Events]
  <2>1. batch \in [1..n -> Due]
    BY DEF Oldest
  <2>2. n \in Nat
    BY RetryAssumption
  <2>3. batch \in [1..n -> Events]
    BY <1>0, <2>1
  <2> QED BY <2>2, <2>3
<1>2. \A i \in 1..n : [event |-> batch[i], note |-> note[batch[i]]] \in Items
  BY <1>1 DEF Items, RetryTypeOK
<1> QED BY <1>1, <1>2 DEF Read

(* The event at hand, and the rest of the batch.                            *)
LEMMA HeadType ==
  ASSUME RetryTypeOK, NEW j \in Jobs, todo[j] # <<>>
  PROVE  /\ Current(j) \in Items /\ Current(j).event \in Events
         /\ Current(j).note \in Notes
         /\ Tail(todo[j]) \in Seq(Items) /\ Len(Tail(todo[j])) <= BatchSize
<1>1. todo[j] \in Seq(Items) /\ Len(todo[j]) <= BatchSize /\ BatchSize \in Nat
  BY RetryAssumption DEF RetryTypeOK
<1>2. Current(j) \in Items
  BY <1>1 DEF Current
<1>3. Tail(todo[j]) \in Seq(Items) /\ Len(Tail(todo[j])) <= BatchSize
  BY <1>1
<1> QED BY <1>2, <1>3 DEF Items

(* An answer is about the event at hand: the gateway accepts only what it   *)
(* pays.                                                                    *)
AnswerInv ==
  /\ \A j \in Jobs : answer[j] # "none" => todo[j] # <<>>
  /\ \A j \in Jobs : answer[j] = "accepted" => Current(j).event \in paid

RetryInv == RetryTypeOK /\ AnswerInv /\ RefundedWasPaid

LEMMA RetryInitInv == RetryInit => RetryInv
<1> SUFFICES ASSUME RetryInit PROVE RetryInv
  OBVIOUS
<1>1. [order |-> FALSE, retry |-> 0] \in Notes
  BY RetryAssumption DEF Notes
<1>2. note \in [Events -> Notes]
  BY <1>1 DEF RetryInit
<1>3. todo \in [Jobs -> Seq(Items)] /\ \A j \in Jobs : Len(todo[j]) <= BatchSize
  BY RetryAssumption DEF RetryInit
<1>4. RetryTypeOK
  BY <1>2, <1>3, RetryAssumption DEF RetryInit, RetryTypeOK, Types, Answers
<1> QED BY <1>4 DEF RetryInit, RetryInv, AnswerInv, RefundedWasPaid

(* NextEvent leaves the other runs alone and this one without an answer.    *)
LEMMA NextEventInv ==
  ASSUME RetryInv, NEW j \in Jobs, todo[j] # <<>>, NextEvent(j), paid' = paid
  PROVE  /\ todo' \in [Jobs -> Seq(Items)] /\ \A k \in Jobs : Len(todo'[k]) <= BatchSize
         /\ answer' \in [Jobs -> Answers]
         /\ AnswerInv'
<1>1. todo \in [Jobs -> Seq(Items)] /\ answer \in [Jobs -> Answers]
      /\ \A k \in Jobs : Len(todo[k]) <= BatchSize
  BY DEF RetryInv, RetryTypeOK
<1>2. Tail(todo[j]) \in Seq(Items) /\ Len(Tail(todo[j])) <= BatchSize
  BY HeadType DEF RetryInv
<1>3. todo' \in [Jobs -> Seq(Items)] /\ \A k \in Jobs : Len(todo'[k]) <= BatchSize
  BY <1>1, <1>2 DEF NextEvent
<1>4. \A k \in Jobs : k # j => todo'[k] = todo[k] /\ answer'[k] = answer[k]
  BY <1>1 DEF NextEvent
<1>5. answer' \in [Jobs -> Answers] /\ answer'[j] = "none"
  BY <1>1 DEF NextEvent, Answers
<1>6. AnswerInv'
  BY <1>4, <1>5 DEF RetryInv, AnswerInv, Current
<1> QED BY <1>3, <1>5, <1>6

(* An answer of the gateway is kept for the event that was asked about.     *)
LEMMA AskInv ==
  ASSUME RetryInv, NEW j \in Jobs, todo[j] # <<>>, NEW a \in Answers,
         answer' = [answer EXCEPT ![j] = a], UNCHANGED todo, paid \subseteq paid',
         a = "accepted" => Current(j).event \in paid'
  PROVE  answer' \in [Jobs -> Answers] /\ AnswerInv'
<1>1. answer \in [Jobs -> Answers]
  BY DEF RetryInv, RetryTypeOK
<1>2. answer' \in [Jobs -> Answers] /\ answer'[j] = a
      /\ \A k \in Jobs : k # j => answer'[k] = answer[k]
  BY <1>1
<1> QED BY <1>2 DEF RetryInv, AnswerInv, Current

LEMMA RetryStep == RetryInv /\ [RetryNext]_retryVars => RetryInv'
<1> SUFFICES ASSUME RetryInv, [RetryNext]_retryVars PROVE RetryInv'
  OBVIOUS
<1> USE RetryAssumption
<1>0. CASE UNCHANGED retryVars
  BY <1>0 DEF retryVars, RetryInv, RetryTypeOK, AnswerInv, Current, RefundedWasPaid
<1>1. ASSUME NEW e \in Events, Age(e) PROVE RetryInv'
  BY <1>1 DEF Age, RetryInv, RetryTypeOK, AnswerInv, Current, RefundedWasPaid
<1>2. ASSUME NEW e \in Events, NEW named \in BOOLEAN, WriteFailure(e, named) PROVE RetryInv'
  <2>1. [order |-> named, retry |-> 0] \in Notes
    BY DEF Notes
  <2>2. RetryTypeOK'
    BY <1>2, <2>1 DEF WriteFailure, RetryInv, RetryTypeOK, Types
  <2>3. AnswerInv'
    BY <1>2 DEF WriteFailure, RetryInv, AnswerInv, Current
  <2>4. RefundedWasPaid'
    BY <1>2 DEF WriteFailure, RetryInv, RetryTypeOK, RefundedWasPaid
  <2> QED BY <2>2, <2>3, <2>4 DEF RetryInv
<1>3. ASSUME NEW j \in Jobs, StartRun(j) PROVE RetryInv'
  <2>0. PICK n \in 1..BatchSize :
          \E batch \in Oldest(n) : todo' = [todo EXCEPT ![j] = Read(n, batch)]
    BY <1>3 DEF StartRun
  <2>1. PICK batch \in Oldest(n) : todo' = [todo EXCEPT ![j] = Read(n, batch)]
    BY <2>0
  <2>2. Read(n, batch) \in Seq(Items) /\ Len(Read(n, batch)) = n
    BY BatchType DEF RetryInv
  <2>3. todo' \in [Jobs -> Seq(Items)] /\ \A k \in Jobs : Len(todo'[k]) <= BatchSize
    BY <2>1, <2>2 DEF RetryInv, RetryTypeOK
  <2>4. RetryTypeOK'
    BY <1>3, <2>3 DEF StartRun, RetryInv, RetryTypeOK
  <2>5. \A k \in Jobs : answer'[k] = answer[k] /\ (k # j => todo'[k] = todo[k])
    BY <1>3, <2>1 DEF StartRun, RetryInv, RetryTypeOK
  <2>6. answer[j] = "none" /\ paid' = paid
    BY <1>3 DEF StartRun, RetryInv, AnswerInv
  <2>7. AnswerInv'
    BY <2>5, <2>6 DEF RetryInv, AnswerInv, Current
  <2> QED BY <1>3, <2>4, <2>7 DEF StartRun, RetryInv, RefundedWasPaid
<1>4. ASSUME NEW j \in Jobs, Skip(j) \/ Throw(j) PROVE RetryInv'
  <2>1. todo[j] # <<>> /\ NextEvent(j) /\ UNCHANGED <<type, note, old, paid, failures, alerted>>
    BY <1>4 DEF Skip, Throw
  <2> QED BY <2>1, NextEventInv DEF RetryInv, RetryTypeOK, RefundedWasPaid
<1>5. ASSUME NEW j \in Jobs, MarkEvent(j) PROVE RetryInv'
  <2>1. todo[j] # <<>> /\ Current(j).event \in paid /\ NextEvent(j)
    BY <1>5 DEF MarkEvent, Success, RetryInv, AnswerInv
  <2>2. Current(j).event \in Events
    BY <2>1, HeadType DEF RetryInv
  <2>3. [order |-> FALSE, retry |-> 0] \in Notes
    BY DEF Notes
  <2>4. RetryTypeOK'
    BY <1>5, <2>1, <2>2, <2>3, NextEventInv DEF MarkEvent, Done, RetryInv, RetryTypeOK, Types
  <2>5. AnswerInv'
    BY <1>5, <2>1, NextEventInv DEF MarkEvent
  <2>6. RefundedWasPaid'
    BY <1>5, <2>1, <2>2 DEF MarkEvent, Done, RetryInv, RetryTypeOK, RefundedWasPaid
  <2> QED BY <2>4, <2>5, <2>6 DEF RetryInv
<1>6. ASSUME NEW j \in Jobs, CountFailure(j) PROVE RetryInv'
  <2> DEFINE e == Current(j).event
  <2> DEFINE exhausted == RetryCount(j) >= GiveUpAt
  <2>1. todo[j] # <<>> /\ NextEvent(j) /\ paid' = paid /\ old' = old
    BY <1>6 DEF CountFailure, RetryInv, AnswerInv
  <2>2. e \in Events /\ Current(j).note.retry \in 0..GiveUpAt
    BY <2>1, HeadType DEF RetryInv, Notes
  <2>3. FirstMark(j) \in 0..GiveUpAt /\ exhausted \in BOOLEAN
    BY <2>2 DEF FirstMark, RetryCount
  <2>g. PICK givenUp \in {exhausted, FALSE} :
          /\ type' = [type EXCEPT ![e] = IF givenUp THEN "refund_error" ELSE @]
          /\ note' = [note EXCEPT ![e] =
               [order |-> ~givenUp, retry |-> IF givenUp THEN 0 ELSE FirstMark(j)]]
    BY <1>6 DEF CountFailure
  <2>4. [order |-> ~givenUp, retry |-> IF givenUp THEN 0 ELSE FirstMark(j)] \in Notes
    <3>1. CASE givenUp
      BY <3>1 DEF Notes
    <3>2. CASE ~givenUp
      BY <2>3, <3>2 DEF Notes
    <3> QED BY <3>1, <3>2
  <2>5. note' \in [Events -> Notes]
    BY <2>g, <2>4 DEF RetryInv, RetryTypeOK
  <2>6. type' \in [Events -> Types]
    BY <2>g, <2>2 DEF RetryInv, RetryTypeOK, Types
  <2>7. failures' \in [Events -> 0..MaxFailures] /\ alerted' \subseteq Events
    <3>1. failures \in [Events -> 0..MaxFailures] /\ alerted \subseteq Events
      BY DEF RetryInv, RetryTypeOK
    <3>2. failures' = [failures EXCEPT ![e] = IF @ < MaxFailures THEN @ + 1 ELSE @]
      BY <1>6 DEF CountFailure
    <3>3. alerted' = alerted \cup {e} \/ alerted' = alerted
      BY <1>6 DEF CountFailure
    <3>4. (IF failures[e] < MaxFailures THEN failures[e] + 1 ELSE failures[e]) \in 0..MaxFailures
      <4>1. failures[e] \in 0..MaxFailures
        BY <2>2, <3>1
      <4> HIDE DEF e
      <4> QED BY <4>1
    <3>5. failures' \in [Events -> 0..MaxFailures]
      BY <3>1, <3>2, <3>4
    <3> QED BY <2>2, <3>1, <3>3, <3>5
  <2>8. RetryTypeOK'
    BY <2>1, <2>5, <2>6, <2>7, NextEventInv DEF RetryInv, RetryTypeOK
  <2>9. \A d \in Events : type'[d] = "refunded" => type[d] = "refunded"
    BY <2>g, <2>2 DEF RetryInv, RetryTypeOK
  <2> QED BY <2>1, <2>8, <2>9, NextEventInv DEF RetryInv, RefundedWasPaid
<1>7. ASSUME NEW j \in Jobs, RetryAccepted(j) PROVE RetryInv'
  <2>1. todo[j] # <<>> /\ paid' = paid \cup {Current(j).event}
    BY <1>7 DEF RetryAccepted, Asking
  <2>2. Current(j).event \in Events
    BY <2>1, HeadType DEF RetryInv
  <2>3. answer' \in [Jobs -> Answers] /\ AnswerInv'
    BY <1>7, <2>1, AskInv DEF RetryAccepted, Answers
  <2> QED BY <1>7, <2>1, <2>2, <2>3 DEF RetryAccepted, RetryInv, RetryTypeOK, RefundedWasPaid
<1>8. ASSUME NEW j \in Jobs, RetryRefused(j) PROVE RetryInv'
  <2>1. answer' \in [Jobs -> Answers] /\ AnswerInv'
    BY <1>8, AskInv DEF RetryRefused, Asking, Answers
  <2> QED BY <1>8, <2>1 DEF RetryRefused, RetryInv, RetryTypeOK, RefundedWasPaid
<1>9. ASSUME NEW j \in Jobs, Restart(j) PROVE RetryInv'
  <2>1. todo' \in [Jobs -> Seq(Items)] /\ \A k \in Jobs : Len(todo'[k]) <= BatchSize
    BY <1>9 DEF Restart, RetryInv, RetryTypeOK
  <2>2. answer' \in [Jobs -> Answers]
    BY <1>9 DEF Restart, RetryInv, RetryTypeOK, Answers
  <2>3. \A k \in Jobs : k # j => answer'[k] = answer[k] /\ todo'[k] = todo[k]
    BY <1>9 DEF Restart, RetryInv, RetryTypeOK
  <2>4. answer'[j] = "none" /\ paid' = paid
    BY <1>9 DEF Restart, RetryInv, RetryTypeOK
  <2>5. AnswerInv'
    BY <2>3, <2>4 DEF RetryInv, AnswerInv, Current
  <2> QED BY <1>9, <2>1, <2>2, <2>5 DEF Restart, RetryInv, RetryTypeOK, RefundedWasPaid
<1> QED BY <1>0, <1>1, <1>2, <1>3, <1>4, <1>5, <1>6, <1>7, <1>8, <1>9 DEF RetryNext, Run

(* Every event, note, batch and answer is well formed, for any number of    *)
(* events and of runs of the job at once.                                   *)
THEOREM RetryTypeCorrect == RetrySpec => []RetryTypeOK
<1>1. RetryInv => RetryTypeOK
  BY DEF RetryInv
<1> QED BY <1>1, RetryInitInv, RetryStep, PTL DEF RetrySpec

(* An event that says refunded stands for money the gateway gave back, even *)
(* when several runs hold the same event and writes fail.                   *)
THEOREM RefundedEventsWerePaid == RetrySpec => []RefundedWasPaid
<1>1. RetryInv => RefundedWasPaid
  BY DEF RetryInv
<1> QED BY <1>1, RetryInitInv, RetryStep, PTL DEF RetrySpec

(* No mark in a note counts past one, in the events or in the batches.      *)
MarkInv ==
  /\ alerted = {}
  /\ \A e \in Events : note[e].retry <= 1
  /\ \A j \in Jobs : \A i \in 1..Len(todo[j]) : todo[j][i].note.retry <= 1

LEMMA MarksOfTail ==
  ASSUME RetryInv, MarkInv, NEW j \in Jobs, todo[j] # <<>>,
         todo' = [todo EXCEPT ![j] = Tail(@)]
  PROVE  \A k \in Jobs : \A i \in 1..Len(todo'[k]) : todo'[k][i].note.retry <= 1
<1>1. todo \in [Jobs -> Seq(Items)]
  BY DEF RetryInv, RetryTypeOK
<1>2. todo'[j] = Tail(todo[j]) /\ \A k \in Jobs : k # j => todo'[k] = todo[k]
  BY <1>1
<1>3. \A i \in 1..Len(Tail(todo[j])) :
        Tail(todo[j])[i] = todo[j][i + 1] /\ i + 1 \in 1..Len(todo[j])
  BY <1>1
<1> QED BY <1>2, <1>3 DEF MarkInv

LEMMA MarkStep ==
  ASSUME GiveUpAt > 2, RetryInv, MarkInv, [RetryNext]_retryVars
  PROVE  MarkInv'
<1> USE RetryAssumption
<1>1. CASE UNCHANGED retryVars
  BY <1>1 DEF retryVars, MarkInv
<1>2. ASSUME NEW e \in Events, Age(e) PROVE MarkInv'
  BY <1>2 DEF Age, MarkInv
<1>3. ASSUME NEW e \in Events, NEW named \in BOOLEAN, WriteFailure(e, named) PROVE MarkInv'
  <2>1. \A d \in Events : note'[d] = note[d] \/ note'[d] = [order |-> named, retry |-> 0]
    BY <1>3 DEF WriteFailure, RetryInv, RetryTypeOK
  <2> QED BY <1>3, <2>1 DEF WriteFailure, MarkInv
<1>4. ASSUME NEW j \in Jobs, StartRun(j) PROVE MarkInv'
  <2>1. PICK n \in 1..BatchSize :
          \E batch \in Oldest(n) : todo' = [todo EXCEPT ![j] = Read(n, batch)]
    BY <1>4 DEF StartRun
  <2>2. PICK batch \in Oldest(n) : todo' = [todo EXCEPT ![j] = Read(n, batch)]
    BY <2>1
  <2>3. Len(Read(n, batch)) = n
    BY BatchType DEF RetryInv
  <2>4. \A i \in 1..n : batch[i] \in Events
    BY DEF Oldest, Due, RetryInv, RetryTypeOK
  <2>5. \A i \in 1..n : Read(n, batch)[i].note = note[batch[i]]
    BY DEF Read
  <2>6. \A i \in 1..n : Read(n, batch)[i].note.retry <= 1
    BY <2>4, <2>5 DEF MarkInv
  <2>7. todo'[j] = Read(n, batch) /\ \A k \in Jobs : k # j => todo'[k] = todo[k]
    BY <2>2 DEF RetryInv, RetryTypeOK
  <2> QED BY <1>4, <2>3, <2>6, <2>7 DEF StartRun, MarkInv
<1>5. ASSUME NEW j \in Jobs, Skip(j) \/ Throw(j) \/ MarkEvent(j) PROVE MarkInv'
  <2>1. todo[j] # <<>> /\ todo' = [todo EXCEPT ![j] = Tail(@)] /\ alerted' = alerted
    BY <1>5 DEF Skip, Throw, MarkEvent, Success, NextEvent, RetryInv, AnswerInv
  <2>2. \A d \in Events : note'[d] = note[d] \/ note'[d] = [order |-> FALSE, retry |-> 0]
    BY <1>5 DEF Skip, Throw, MarkEvent, RetryInv, RetryTypeOK
  <2>3. \A d \in Events : note'[d].retry <= 1
    BY <2>2 DEF MarkInv
  <2> QED BY <2>1, <2>3, MarksOfTail DEF MarkInv
<1>6. ASSUME NEW j \in Jobs, CountFailure(j) PROVE MarkInv'
  <2> DEFINE e == Current(j).event
  <2>1. todo[j] # <<>> /\ todo' = [todo EXCEPT ![j] = Tail(@)]
    BY <1>6 DEF CountFailure, NextEvent, RetryInv, AnswerInv
  <2>2. Current(j) = todo[j][1] /\ 1 \in 1..Len(todo[j])
    BY <2>1 DEF Current, RetryInv, RetryTypeOK
  <2>3. Current(j).note.retry \in 0..GiveUpAt /\ Current(j).note.retry <= 1
    BY <2>1, <2>2, HeadType DEF MarkInv, RetryInv, Notes
  <2>4. ~(RetryCount(j) >= GiveUpAt) /\ FirstMark(j) <= 1
    BY <2>3 DEF RetryCount, FirstMark
  <2>5. note' = [note EXCEPT ![e] = [order |-> TRUE, retry |-> FirstMark(j)]]
        /\ alerted' = alerted
    BY <1>6, <2>4 DEF CountFailure
  <2>6. \A d \in Events : note'[d] = note[d] \/ note'[d].retry = FirstMark(j)
    BY <2>5 DEF RetryInv, RetryTypeOK
  <2> QED BY <2>1, <2>4, <2>5, <2>6, MarksOfTail DEF MarkInv
<1>7. ASSUME NEW j \in Jobs, RetryAccepted(j) \/ RetryRefused(j) PROVE MarkInv'
  BY <1>7 DEF RetryAccepted, RetryRefused, MarkInv
<1>8. ASSUME NEW j \in Jobs, Restart(j) PROVE MarkInv'
  <2>1. todo'[j] = <<>> /\ \A k \in Jobs : k # j => todo'[k] = todo[k]
    BY <1>8 DEF Restart, RetryInv, RetryTypeOK
  <2>2. \A k \in Jobs : \A i \in 1..Len(todo'[k]) : todo'[k][i].note.retry <= 1
    <3> SUFFICES ASSUME NEW k \in Jobs PROVE \A i \in 1..Len(todo'[k]) : todo'[k][i].note.retry <= 1
      OBVIOUS
    <3>1. CASE k = j
      <4>1. Len(todo'[k]) = 0
        BY <2>1, <3>1
      <4> QED BY <4>1
    <3>2. CASE k # j
      BY <2>1, <3>2 DEF MarkInv
    <3> QED BY <3>1, <3>2
  <2>3. note' = note /\ alerted' = alerted
    BY <1>8 DEF Restart
  <2> QED BY <2>2, <2>3 DEF MarkInv
<1> QED BY <1>1, <1>2, <1>3, <1>4, <1>5, <1>6, <1>7, <1>8 DEF RetryNext, Run

(* The job that gives up after GiveUpAt > 2 failures never does: it reads   *)
(* the first mark of a note and writes the next one behind it, so no event  *)
(* is ever given up, or alerted about, however often the gateway refuses.   *)
THEOREM AlertIsNeverSent ==
  ASSUME GiveUpAt > 2
  PROVE  RetrySpec => [](alerted = {})
<1>1. RetryInit => MarkInv
  <2> SUFFICES ASSUME RetryInit PROVE MarkInv
    OBVIOUS
  <2>1. \A e \in Events : note[e].retry = 0
    BY DEF RetryInit
  <2>2. \A j \in Jobs : todo[j] = <<>>
    BY DEF RetryInit
  <2> QED BY <2>1, <2>2 DEF RetryInit, MarkInv
<1>2. RetryInv /\ MarkInv /\ [RetryNext]_retryVars => MarkInv'
  BY MarkStep
<1>3. MarkInv => alerted = {}
  BY DEF MarkInv
<1> QED BY <1>1, <1>2, <1>3, RetryInitInv, RetryStep, PTL DEF RetrySpec
=============================================================================
