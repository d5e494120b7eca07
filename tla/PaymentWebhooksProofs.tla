----------------------- MODULE PaymentWebhooksProofs -----------------------
(***************************************************************************)
(* Proofs about PaymentWebhooks for any number of notifications, instances *)
(* and concurrent requests, with restarts and expiring deduplication.      *)
(***************************************************************************)
EXTENDS PaymentWebhooks, TLAPS

(* A handler that read the order as paid read it after a sound payment, and *)
(* with its date: what it writes back later is therefore still right.       *)
ReadPaidIsBacked == \A h \in Handlers : read[h].paid => sound /\ read[h].dated

PaidInv == TypeOK /\ PaidBySoundPayment /\ PaidIsDated /\ ReadPaidIsBacked

(* Work in progress is remembered by its instance.                          *)
WorkIsSeen ==
  \A h \in Handlers : step[h] # "idle" => Notification(h) \in seen[Instance(h)]

WorkerInv == TypeOK /\ WorkIsSeen /\ OneWorkerPerNotification

-----------------------------------------------------------------------------
LEMMA TypeInit == Init => TypeOK
<1> SUFFICES ASSUME Init PROVE TypeOK
  OBVIOUS
<1>1. /\ paymentStatus \in OrderStatuses /\ paidAt \in BOOLEAN /\ sound \in BOOLEAN
      /\ step \in [Handlers -> Steps] /\ work \in [Handlers -> Instances \X Notifications]
      /\ transitions \in Nat /\ fired \in Nat
  BY DEF Init, OrderStatuses, Steps
<1>2. read \in [Handlers -> [paid: BOOLEAN, dated: BOOLEAN]]
  BY DEF Init
<1>3. /\ seen \in [Instances -> SUBSET Notifications] /\ audited \subseteq Notifications
      /\ firing \in [Instances -> Nat] /\ applied \in [Notifications -> Nat]
  BY DEF Init
<1> QED BY <1>1, <1>2, <1>3 DEF TypeOK

LEMMA TypeStep == TypeOK /\ [Next]_vars => TypeOK'
<1> SUFFICES ASSUME TypeOK, [Next]_vars PROVE TypeOK'
  OBVIOUS
<1> USE DEF TypeOK, order, dedup, history
<1>0. CASE UNCHANGED vars
  BY <1>0 DEF vars
<1>1. ASSUME NEW h \in Handlers, NEW i \in Instances, NEW n \in Notifications,
             Receive(h, i, n)
      PROVE  TypeOK'
  BY <1>1 DEF Receive, Remember, GoTo, Steps
<1>2. ASSUME NEW h \in Handlers, LookUpAudit(h) \/ Audit(h)
      PROVE  TypeOK'
  BY <1>2 DEF LookUpAudit, Audit, GoTo, Steps, Notification
<1>3. ASSUME NEW h \in Handlers, LookUpOrder(h)
      PROVE  TypeOK'
  <2>1. step' \in [Handlers -> Steps]
    BY <1>3 DEF LookUpOrder, GoTo, Steps
  <2>2. PICK now \in [paid: BOOLEAN, dated: BOOLEAN] :
          now = [paid |-> paymentStatus = "paid", dated |-> paidAt]
    BY Zenon
  <2>3. read' = [read EXCEPT ![h] = now] \/ read' = read
    BY <1>3, <2>2, Zenon DEF LookUpOrder
  <2>4. read' \in [Handlers -> [paid: BOOLEAN, dated: BOOLEAN]]
    BY <2>3
  <2> QED BY <1>3, <2>1, <2>4 DEF LookUpOrder
<1>4. ASSUME NEW h \in Handlers, WriteMismatch(h) \/ WriteFails(h)
      PROVE  TypeOK'
  BY <1>4 DEF WriteMismatch, WriteFails, GoTo, Steps, OrderStatuses
<1>5. ASSUME NEW h \in Handlers, Apply(h)
      PROVE  TypeOK'
  <2>1. Notification(h) \in Notifications /\ Instance(h) \in Instances
    BY DEF Notification, Instance
  <2>2. paymentStatus' \in OrderStatuses
    <3>1. Status[Notification(h)] \in Reported /\ "paid" \in Reported
      BY <2>1, WebhookAssumption DEF Reported
    <3>2. paymentStatus' = "paid" \/ paymentStatus' = Status[Notification(h)]
      BY <1>5 DEF Apply
    <3> QED BY <3>1, <3>2 DEF OrderStatuses
  <2>3. paidAt' \in BOOLEAN /\ sound' \in BOOLEAN
    BY <1>5, <2>1 DEF Apply, StampPaidAt
  <2>4. step' \in [Handlers -> Steps]
    BY <1>5 DEF Apply, GoTo, Steps
  <2>6. transitions' \in {transitions, transitions + 1} /\ fired' = fired
    BY <1>5 DEF Apply
  <2>5. firing' \in [Instances -> Nat] /\ applied' \in [Notifications -> Nat]
    BY <1>5, <2>1 DEF Apply
  <2> QED BY <1>5, <2>2, <2>3, <2>4, <2>5, <2>6 DEF Apply
<1>6. ASSUME NEW i \in Instances, FireCapi(i)
      PROVE  TypeOK'
  BY <1>6 DEF FireCapi
<1>7. ASSUME NEW i \in Instances, Restart(i)
      PROVE  TypeOK'
  BY <1>7 DEF Restart, Steps
<1>8. ASSUME NEW i \in Instances, NEW n \in Notifications, ForgetSeen(i, n)
      PROVE  TypeOK'
  BY <1>8 DEF ForgetSeen
<1>9. ASSUME NEW n \in Notifications, ForgetAudited(n)
      PROVE  TypeOK'
  BY <1>9 DEF ForgetAudited
<1> QED BY <1>0, <1>1, <1>2, <1>3, <1>4, <1>5, <1>6, <1>7, <1>8, <1>9 DEF Next

(* The state of every handler, map and order keeps its type.                *)
THEOREM WebhooksTypeCorrect == Spec => []TypeOK
BY TypeInit, TypeStep, PTL DEF Spec

-----------------------------------------------------------------------------
LEMMA PaidInit == Init => PaidInv
BY TypeInit DEF Init, PaidInv, PaidBySoundPayment, PaidIsDated, ReadPaidIsBacked

LEMMA PaidStep == PaidInv /\ [Next]_vars => PaidInv'
<1> SUFFICES ASSUME PaidInv, [Next]_vars PROVE PaidInv'
  OBVIOUS
<1>t. TypeOK'
  BY TypeStep DEF PaidInv
<1>0. ASSUME UNCHANGED <<paymentStatus, paidAt, read, sound>>
      PROVE  PaidInv'
  BY <1>t, <1>0 DEF PaidInv, PaidBySoundPayment, PaidIsDated, ReadPaidIsBacked
<1>1. ASSUME NEW h \in Handlers, LookUpOrder(h)
      PROVE  PaidInv'
  <2>2. PICK now \in [paid: BOOLEAN, dated: BOOLEAN] :
          now = [paid |-> paymentStatus = "paid", dated |-> paidAt]
    BY Zenon DEF PaidInv, TypeOK
  <2>3. read' = [read EXCEPT ![h] = now] \/ read' = read
    BY <1>1, <2>2, Zenon DEF LookUpOrder
  <2>4. now.paid => sound /\ now.dated
    BY <2>2 DEF PaidInv, PaidBySoundPayment, PaidIsDated
  <2>1. \A g \in Handlers : read'[g].paid => sound /\ read'[g].dated
    BY <2>3, <2>4 DEF PaidInv, TypeOK, ReadPaidIsBacked
  <2> QED BY <1>t, <1>1, <2>1
          DEF LookUpOrder, PaidInv, PaidBySoundPayment, PaidIsDated,
              ReadPaidIsBacked, order, history
<1>2. ASSUME NEW h \in Handlers, WriteMismatch(h)
      PROVE  PaidInv'
  BY <1>t, <1>2 DEF WriteMismatch, PaidInv, PaidBySoundPayment, PaidIsDated,
                    ReadPaidIsBacked, history
<1>3. ASSUME NEW h \in Handlers, Apply(h)
      PROVE  PaidInv'
  <2> DEFINE n == Notification(h)
  <2>1. n \in Notifications
    BY DEF PaidInv, TypeOK, Notification
  <2>2. paymentStatus' = "paid" => Approved(n)
    BY <1>3 DEF Apply, Approved
  <2>3. Approved(n) => (~Contradicted(n) \/ read[h].paid)
    BY <1>3 DEF Apply, Refused
  <2>4. sound => sound'
    BY <1>3 DEF Apply
  <2>5. Approved(n) => sound' /\ paidAt'
    <3>1. CASE read[h].paid
      BY <1>3, <2>4, <3>1 DEF Apply, StampPaidAt, PaidInv, ReadPaidIsBacked
    <3>2. CASE ~read[h].paid
      BY <1>3, <2>3, <3>2 DEF Apply, StampPaidAt
    <3> QED BY <3>1, <3>2
  <2>6. ReadPaidIsBacked'
    BY <1>3, <2>4 DEF Apply, PaidInv, ReadPaidIsBacked
  <2> QED BY <1>t, <2>2, <2>5, <2>6 DEF PaidInv, PaidBySoundPayment, PaidIsDated
<1>4. ASSUME \/ UNCHANGED vars
             \/ \E h \in Handlers :
                  \/ \E i \in Instances, n \in Notifications : Receive(h, i, n)
                  \/ LookUpAudit(h) \/ WriteFails(h) \/ Audit(h)
             \/ \E i \in Instances :
                  \/ FireCapi(i) \/ Restart(i)
                  \/ \E n \in Notifications : ForgetSeen(i, n)
             \/ \E n \in Notifications : ForgetAudited(n)
      PROVE  UNCHANGED <<paymentStatus, paidAt, read, sound>>
  BY <1>4 DEF vars, order, history, Receive, LookUpAudit, WriteFails, Audit,
              FireCapi, Restart, ForgetSeen, ForgetAudited
<1> QED BY <1>0, <1>1, <1>2, <1>3, <1>4 DEF Next

(* An order is paid only by a payment that neither the card results nor the *)
(* amount it reports contradict, for whatever notifications.                *)
THEOREM PaidOnlyBySoundPayments == Spec => []PaidBySoundPayment
<1>1. PaidInv => PaidBySoundPayment
  BY DEF PaidInv
<1> QED BY <1>1, PaidInit, PaidStep, PTL DEF Spec

(* A paid order has its payment date, under every interleaving.             *)
THEOREM PaidOrdersAreDated == Spec => []PaidIsDated
<1>1. PaidInv => PaidIsDated
  BY DEF PaidInv
<1> QED BY <1>1, PaidInit, PaidStep, PTL DEF Spec

-----------------------------------------------------------------------------
LEMMA WorkerInit == Init => WorkerInv
BY TypeInit DEF Init, WorkerInv, WorkIsSeen, OneWorkerPerNotification

LEMMA WorkerStep == WorkerInv /\ [Next]_vars => WorkerInv'
<1> SUFFICES ASSUME WorkerInv, [Next]_vars PROVE WorkerInv'
  OBVIOUS
<1>t. TypeOK'
  BY TypeStep DEF WorkerInv
<1>0. ASSUME UNCHANGED <<seen, work>>,
             \A h \in Handlers : step'[h] # "idle" => step[h] # "idle"
      PROVE  WorkerInv'
  BY <1>t, <1>0 DEF WorkerInv, WorkIsSeen, OneWorkerPerNotification, Notification, Instance
<1>1. ASSUME NEW h \in Handlers, NEW i \in Instances, NEW n \in Notifications,
             Receive(h, i, n)
      PROVE  WorkerInv'
  <2>1. ASSUME NEW g \in Handlers, step[g] # "idle"
        PROVE  work[g] # <<i, n>>
    <3>1. work[g][2] \in seen[work[g][1]]
      BY <2>1 DEF WorkerInv, WorkIsSeen, Notification, Instance
    <3>2. n \notin seen[i]
      BY <1>1 DEF Receive
    <3> QED BY <3>1, <3>2
  <2>2. /\ \A g \in Handlers : step'[g] = IF g = h THEN "audit lookup" ELSE step[g]
        /\ \A g \in Handlers : g # h => work'[g] = work[g]
        /\ work'[h] = <<i, n>> /\ work'[h][1] = i /\ work'[h][2] = n
    BY <1>1 DEF Receive, GoTo, WorkerInv, TypeOK
  <2>3. \A j \in Instances : seen[j] \subseteq seen'[j] /\ n \in seen'[i]
    BY <1>1 DEF Receive, Remember, WorkerInv, TypeOK
  <2>4. OneWorkerPerNotification'
    <3> SUFFICES ASSUME NEW g \in Handlers, NEW k \in Handlers, g # k,
                        step'[g] # "idle", step'[k] # "idle"
                 PROVE  work'[g] # work'[k]
      BY Zenon DEF OneWorkerPerNotification
    <3>1. CASE g = h
      BY <2>1, <2>2, <3>1
    <3>2. CASE k = h
      BY <2>1, <2>2, <3>2
    <3>3. CASE g # h /\ k # h
      BY <2>2, <3>3 DEF WorkerInv, OneWorkerPerNotification
    <3> QED BY <3>1, <3>2, <3>3
  <2>5. ASSUME NEW g \in Handlers, step'[g] # "idle"
        PROVE  work'[g][2] \in seen'[work'[g][1]]
    <3>1. CASE g = h
      BY <2>2, <2>3, <3>1
    <3>2. CASE g # h
      <4>1. work[g] \in Instances \X Notifications /\ work[g][1] \in Instances
        BY DEF WorkerInv, TypeOK
      <4>2. work[g][2] \in seen[work[g][1]]
        BY <2>2, <2>5, <3>2 DEF WorkerInv, WorkIsSeen, Notification, Instance
      <4> QED BY <2>2, <2>3, <3>2, <4>1, <4>2
    <3> QED BY <3>1, <3>2
  <2> QED BY <1>t, <2>4, <2>5 DEF WorkerInv, WorkIsSeen, Notification, Instance
<1>2. ASSUME NEW i \in Instances, Restart(i)
      PROVE  WorkerInv'
  <2>1. \A h \in Handlers : step'[h] # "idle" => step[h] # "idle" /\ work[h][1] # i
    BY <1>2 DEF Restart, WorkerInv, TypeOK, Instance
  <2>2. \A j \in Instances : j # i => seen'[j] = seen[j]
    BY <1>2 DEF Restart, WorkerInv, TypeOK
  <2>3. work' = work
    BY <1>2 DEF Restart
  <2>4. \A h \in Handlers : work[h][1] \in Instances
    BY DEF WorkerInv, TypeOK
  <2> QED BY <1>t, <2>1, <2>2, <2>3, <2>4
          DEF WorkerInv, WorkIsSeen, OneWorkerPerNotification, Notification, Instance
<1>3. ASSUME NEW i \in Instances, NEW n \in Notifications, ForgetSeen(i, n)
      PROVE  WorkerInv'
  <2>1. \A h \in Handlers : step[h] # "idle" => work[h] # <<i, n>>
    BY <1>3 DEF ForgetSeen, WorksOn
  <2>2. \A h \in Handlers : work[h] = <<work[h][1], work[h][2]>>
                            /\ work[h][1] \in Instances /\ work[h][2] \in Notifications
    BY DEF WorkerInv, TypeOK
  <2>3. \A j \in Instances, m \in Notifications :
          m \in seen[j] /\ <<j, m>> # <<i, n>> => m \in seen'[j]
    BY <1>3 DEF ForgetSeen, WorkerInv, TypeOK
  <2>4. UNCHANGED <<work, step>>
    BY <1>3 DEF ForgetSeen
  <2>5. WorkIsSeen'
    BY <2>1, <2>2, <2>3, <2>4 DEF WorkerInv, WorkIsSeen, Notification, Instance
  <2> QED BY <1>t, <2>4, <2>5 DEF WorkerInv, OneWorkerPerNotification
<1>4. ASSUME \/ UNCHANGED vars
             \/ \E h \in Handlers :
                  \/ LookUpAudit(h) \/ LookUpOrder(h) \/ WriteMismatch(h)
                  \/ Apply(h) \/ WriteFails(h) \/ Audit(h)
             \/ \E i \in Instances : FireCapi(i)
             \/ \E n \in Notifications : ForgetAudited(n)
      PROVE  /\ UNCHANGED <<seen, work>>
             /\ \A h \in Handlers : step'[h] # "idle" => step[h] # "idle"
  BY <1>4 DEF vars, dedup, LookUpAudit, LookUpOrder, WriteMismatch, Apply,
              WriteFails, Audit, FireCapi, ForgetAudited, GoTo, WorkerInv, TypeOK
<1> QED BY <1>0, <1>1, <1>2, <1>3, <1>4 DEF Next

(* One instance never works twice at once on one notification, whatever     *)
(* expires and whoever restarts.                                            *)
THEOREM OneWorkerPerInstance == Spec => []OneWorkerPerNotification
<1>1. WorkerInv => OneWorkerPerNotification
  BY DEF WorkerInv
<1> QED BY <1>1, WorkerInit, WorkerStep, PTL DEF Spec
=============================================================================
