-------------------------- MODULE DianInvoiceProofs --------------------------
(***************************************************************************)
(* Proofs about DianInvoice for any orders, requests, runs, batch size,    *)
(* number of retries and width of the numbers.                             *)
(***************************************************************************)
EXTENDS DianInvoice, TLAPS

USE DEF draw

(* What a submitter holds are invoices that exist.                          *)
HeldInv ==
  \A w \in Submitters :
    /\ \A i \in todo[w] : number[i.order] # 0
    /\ call[w] # None => number[Current(w)] # 0

Inv == TypeOK /\ HeldInv

LEMMA InitHolds == Init => Inv
BY DianAssumption DEF Init, Inv, TypeOK, HeldInv, Statuses

(* Frames: what a group of actions leaves of the submitters' state.         *)
LEMMA TouchType ==
  ASSUME TypeOK, NEW o \in Orders, Touch(o)
  PROVE  older' \subseteq Orders \X Orders /\ age' \in [Orders -> {"fresh", "old", "due"}]
BY DEF TypeOK, Touch

LEMMA CallFacts ==
  ASSUME TypeOK, NEW w \in Submitters, call[w] # None
  PROVE  /\ call[w] \in Calls /\ call[w].item \in Items /\ Current(w) \in Orders
         /\ call[w].number \in Nat /\ call[w].result \in Results
         /\ call[w].item.count \in Nat /\ call[w].item.job \in BOOLEAN
BY DEF TypeOK, Calls, Items, Current

(* A call that goes on keeps its item.                                      *)
LEMMA ContinueFacts ==
  ASSUME TypeOK, NEW w \in Submitters, call[w] # None,
         NEW s \in Steps, NEW n \in Nat, NEW r \in Results, Continue(w, s, n, r)
  PROVE  /\ todo' = todo
         /\ call' \in [Submitters -> Calls \cup {None}]
         /\ call'[w] # None /\ call'[w].step = s /\ call'[w].item = call[w].item
         /\ call'[w].result = r /\ call'[w].number = n
         /\ \A v \in Submitters \ {w} : call'[v] = call[v]
<1>1. call[w].item \in Items
  BY CallFacts
<1>2. [item |-> call[w].item, step |-> s, number |-> n, result |-> r] \in Calls
  BY <1>1 DEF Calls
<1>3. todo' = todo /\ call' = [call EXCEPT ![w] =
                        [item |-> call[w].item, step |-> s, number |-> n, result |-> r]]
  BY DEF Continue
<1> QED BY <1>2, <1>3, NoneAssumption DEF TypeOK

LEMMA ReturnFacts ==
  ASSUME TypeOK, NEW w \in Submitters, Return(w)
  PROVE  /\ todo' = todo
         /\ call' \in [Submitters -> Calls \cup {None}]
         /\ call'[w] = None
         /\ \A v \in Submitters \ {w} : call'[v] = call[v]
BY DEF TypeOK, Return

(* Where the calls and the numbers stay, what is held still exists.         *)
LEMMA HeldFrame ==
  ASSUME Inv, todo' = todo, number' = number,
         \A v \in Submitters : call'[v] # None => call[v] # None /\ call'[v].item = call[v].item
  PROVE  HeldInv'
BY DEF Inv, HeldInv, Current

LEMMA GenerateStep ==
  ASSUME Inv, NEW g \in Generators, Upsert(g) \/ Abandon(g) \/ \E o \in Orders : ReadLast(g, o)
  PROVE  Inv'
<1> USE DEF row
<1>1. CASE Upsert(g)
  <2> DEFINE o == draft[g].order
  <2>1. o \in Orders /\ draft[g].number \in Nat \ {0}
    BY <1>1 DEF Inv, TypeOK, Upsert, Drafts
  <2>2. /\ number' = [number EXCEPT ![o] = draft[g].number]
        /\ status' = [status EXCEPT ![o] = "pending_submission"]
        /\ Touch(o) /\ draft' = [draft EXCEPT ![g] = None]
        /\ UNCHANGED <<retry, together, todo, call, submits, accepted, failures, audited>>
    BY <1>1 DEF Upsert
  <2>3. \A p \in Orders : number[p] # 0 => number'[p] # 0
    BY <2>1, <2>2 DEF Inv, TypeOK
  <2>4. \A w \in Submitters : call[w] # None => Current(w) \in Orders
    BY CallFacts DEF Inv
  <2>5. \A w \in Submitters : \A i \in todo[w] : i.order \in Orders
    BY DEF Inv, TypeOK, Items
  <2>6. HeldInv'
    BY <2>2, <2>3, <2>4, <2>5 DEF Inv, HeldInv, Current
  <2>7. number' \in [Orders -> Nat] /\ status' \in [Orders -> Statuses]
    BY <2>1, <2>2 DEF Inv, TypeOK, Statuses
  <2>8. \A p \in Orders : status'[p] = "absent" <=> number'[p] = 0
    BY <2>1, <2>2 DEF Inv, TypeOK
  <2>9. older' \subseteq Orders \X Orders /\ age' \in [Orders -> {"fresh", "old", "due"}]
    BY <2>1, <2>2, TouchType DEF Inv
  <2> HIDE DEF o
  <2> QED BY <2>2, <2>6, <2>7, <2>8, <2>9 DEF Inv, TypeOK
<1>2. CASE Abandon(g)
  BY <1>2 DEF Abandon, Inv, TypeOK, HeldInv, Current
<1>3. ASSUME NEW o \in Orders, ReadLast(g, o)
      PROVE  Inv'
  <2>1. PICK n \in LastNumber : draft' = [draft EXCEPT ![g] = [order |-> o, number |-> n + 1]]
    BY <1>3 DEF ReadLast
  <2>2. n \in Nat
    BY DEF LastNumber, Used, Inv, TypeOK
  <2>3. [order |-> o, number |-> n + 1] \in Drafts
    BY <2>2 DEF Drafts
  <2>4. /\ UNCHANGED <<row, todo, call, submits, accepted, failures, audited>>
        /\ together' = together \cup {{o, p} : p \in Beside(o)}
    BY <1>3 DEF ReadLast
  <2>5. Beside(o) \subseteq Orders
    BY DEF Beside, Inv, TypeOK, Drafts
  <2>6. \A s \in together' : s \subseteq Orders
    BY <2>4, <2>5 DEF Inv, TypeOK
  <2>7. draft' \in [Generators -> Drafts \cup {None}]
    BY <2>1, <2>3 DEF Inv, TypeOK
  <2>8. TypeOK'
    BY <2>4, <2>6, <2>7 DEF Inv, TypeOK
  <2>9. HeldInv'
    BY <2>4 DEF Inv, HeldInv, Current
  <2> QED BY <2>8, <2>9 DEF Inv
<1> QED BY <1>1, <1>2, <1>3

LEMMA ProceedStep ==
  ASSUME Inv, NEW w \in Submitters, Proceed(w)
  PROVE  Inv'
<1>1. call[w] # None
  BY DEF Proceed, Save, Reply, ResetCount, CountFailure, Make, Fail, At
<1>2. /\ Current(w) \in Orders /\ call[w].number \in Nat /\ call[w].result \in Results
      /\ call[w].item.count \in Nat
  BY <1>1, CallFacts DEF Inv
<1>3. number[Current(w)] # 0 /\ status[Current(w)] # "absent"
  BY <1>1, <1>2 DEF Inv, HeldInv, TypeOK
<1>4. CASE Save(w)
  <2>1. /\ status' = [status EXCEPT ![Current(w)] = call[w].result]
        /\ Touch(Current(w)) /\ Continue(w, "sent", 0, "pending")
        /\ UNCHANGED <<number, retry, draw, submits, accepted, failures, audited>>
    BY <1>4 DEF Save
  <2>2. call' \in [Submitters -> Calls \cup {None}] /\ HeldInv'
    BY <1>1, <2>1, ContinueFacts, HeldFrame DEF Inv, Steps, Results
  <2>3. status' \in [Orders -> Statuses] /\ \A o \in Orders : status'[o] = "absent" <=> number'[o] = 0
    BY <1>2, <1>3, <2>1 DEF Inv, TypeOK, Statuses, Results
  <2>4. older' \subseteq Orders \X Orders /\ age' \in [Orders -> {"fresh", "old", "due"}]
    BY <1>2, <2>1, TouchType DEF Inv
  <2>5. todo' = todo
    BY <2>1 DEF Continue
  <2> QED BY <2>1, <2>2, <2>3, <2>4, <2>5 DEF Inv, TypeOK
<1>5. CASE Reply(w)
  <2>1. Return(w) /\ UNCHANGED <<row, draw, submits, accepted, failures, audited>>
    BY <1>5 DEF Reply
  <2>2. todo' = todo /\ call' \in [Submitters -> Calls \cup {None}] /\ HeldInv'
    BY <2>1, ReturnFacts, HeldFrame DEF Inv, row
  <2> QED BY <2>1, <2>2 DEF Inv, TypeOK, row
<1>6. CASE ResetCount(w)
  <2>1. /\ retry' = [retry EXCEPT ![Current(w)] = 0] /\ Touch(Current(w)) /\ Return(w)
        /\ UNCHANGED <<number, status, draw, submits, accepted, failures, audited>>
    BY <1>6 DEF ResetCount
  <2>2. todo' = todo /\ call' \in [Submitters -> Calls \cup {None}] /\ HeldInv'
    BY <2>1, ReturnFacts, HeldFrame DEF Inv
  <2>3. older' \subseteq Orders \X Orders /\ age' \in [Orders -> {"fresh", "old", "due"}]
    BY <1>2, <2>1, TouchType DEF Inv
  <2>4. retry' \in [Orders -> Nat]
    BY <1>2, <2>1 DEF Inv, TypeOK
  <2> QED BY <2>1, <2>2, <2>3, <2>4 DEF Inv, TypeOK
<1>7. CASE CountFailure(w)
  <2>1. /\ retry' = [retry EXCEPT ![Current(w)] = call[w].item.count + 1]
        /\ Touch(Current(w)) /\ Return(w)
        /\ UNCHANGED <<number, draw, submits, accepted, failures>>
    BY <1>7 DEF CountFailure
  <2>2. \/ status' = [status EXCEPT ![Current(w)] = "failed"] /\ audited' = audited \cup {Current(w)}
        \/ UNCHANGED <<status, audited>>
    BY <1>7 DEF CountFailure
  <2>3. todo' = todo /\ call' \in [Submitters -> Calls \cup {None}] /\ HeldInv'
    BY <2>1, ReturnFacts, HeldFrame DEF Inv
  <2>4. older' \subseteq Orders \X Orders /\ age' \in [Orders -> {"fresh", "old", "due"}]
    BY <1>2, <2>1, TouchType DEF Inv
  <2>5. retry' \in [Orders -> Nat]
    BY <1>2, <2>1 DEF Inv, TypeOK
  <2>6. status' \in [Orders -> Statuses] /\ \A o \in Orders : status'[o] = "absent" <=> number'[o] = 0
    BY <1>2, <1>3, <2>1, <2>2 DEF Inv, TypeOK, Statuses
  <2>7. audited' \subseteq Orders
    BY <1>2, <2>2 DEF Inv, TypeOK
  <2> QED BY <2>1, <2>3, <2>4, <2>5, <2>6, <2>7 DEF Inv, TypeOK
<1>8. ASSUME NEW a \in Answers, Make(w, a)
      PROVE  Inv'
  <2>1. /\ Continue(w, "made", 0, AdapterStatus(a))
        /\ UNCHANGED <<row, draw, submits, failures, audited>>
    BY <1>8 DEF Make
  <2>2. AdapterStatus(a) \in Results
    BY DEF AdapterStatus, Answers, Results
  <2>3. todo' = todo /\ call' \in [Submitters -> Calls \cup {None}] /\ HeldInv'
    BY <1>1, <2>1, <2>2, ContinueFacts, HeldFrame DEF Inv, Steps, row
  <2>4. accepted' \subseteq Orders \X Nat
    BY <1>2, <1>8 DEF Inv, TypeOK, Make
  <2> QED BY <2>1, <2>3, <2>4 DEF Inv, TypeOK, row
<1>9. ASSUME NEW written \in BOOLEAN, Fail(w, written)
      PROVE  Inv'
  <2>1. /\ Continue(w, "failed", 0, "pending")
        /\ UNCHANGED <<number, status, retry, draw, submits, accepted, audited>>
    BY <1>9 DEF Fail
  <2>2. todo' = todo /\ call' \in [Submitters -> Calls \cup {None}] /\ HeldInv'
    BY <1>1, <2>1, ContinueFacts, HeldFrame DEF Inv, Steps, Results
  <2>3. older' \subseteq Orders \X Orders /\ age' \in [Orders -> {"fresh", "old", "due"}]
    BY <1>2, <1>9, TouchType DEF Inv, Fail, TypeOK
  <2>4. failures' \in [Orders -> 0..MaxRetries]
    BY <1>2, <1>9, DianAssumption DEF Inv, TypeOK, Fail
  <2> QED BY <2>1, <2>2, <2>3, <2>4 DEF Inv, TypeOK
<1> QED BY <1>4, <1>5, <1>6, <1>7, <1>8, <1>9 DEF Proceed

LEMMA InvStep == Inv /\ [Next]_vars => Inv'
<1> SUFFICES ASSUME Inv, [Next]_vars PROVE Inv'
  OBVIOUS
<1>1. ASSUME NEW o \in Orders, Elapse(o) PROVE Inv'
  BY <1>1 DEF Elapse, Inv, TypeOK, HeldInv, Current, Pending
<1>2. ASSUME NEW w \in Submitters, NEW o \in Orders, Submit(w, o) PROVE Inv'
  <2>1. [order |-> o, count |-> 0, job |-> FALSE] \in Items
    BY DEF Items
  <2>2. number[o] # 0 /\ submits' = submits + 1
        /\ todo' = [todo EXCEPT ![w] = {[order |-> o, count |-> 0, job |-> FALSE]}]
        /\ UNCHANGED <<row, draw, call, accepted, failures, audited>>
    BY <1>2 DEF Submit
  <2>3. TypeOK'
    BY <2>1, <2>2 DEF Inv, TypeOK, row
  <2>4. HeldInv'
    BY <2>2 DEF Inv, TypeOK, HeldInv, Current, row
  <2> QED BY <2>3, <2>4 DEF Inv
<1>3. ASSUME NEW w \in Submitters, StartRun(w) PROVE Inv'
  <2>1. todo' = [todo EXCEPT ![w] = Eligible]
        /\ UNCHANGED <<row, draw, call, submits, accepted, failures, audited>>
    BY <1>3 DEF StartRun
  <2>2. \A i \in Eligible : \E o \in Orders :
          /\ i = [order |-> o, count |-> retry[o], job |-> TRUE]
          /\ status[o] = "pending_submission"
    BY DEF Eligible, Candidates, Pending
  <2>3. ASSUME NEW i \in Eligible PROVE i \in Items /\ number[i.order] # 0
    <3>1. PICK o \in Orders : /\ i = [order |-> o, count |-> retry[o], job |-> TRUE]
                              /\ status[o] = "pending_submission"
      BY <2>2
    <3>2. retry[o] \in Nat /\ number[o] # 0
      BY <3>1 DEF Inv, TypeOK
    <3> QED BY <3>1, <3>2 DEF Items
  <2>4. TypeOK'
    BY <2>1, <2>3 DEF Inv, TypeOK, row
  <2>5. HeldInv'
    BY <2>1, <2>3 DEF Inv, TypeOK, HeldInv, Current, row
  <2> QED BY <2>4, <2>5 DEF Inv
<1>4. ASSUME NEW w \in Submitters, NEW i \in todo[w], ReadInvoice(w, i) PROVE Inv'
  <2>1. /\ todo' = [todo EXCEPT ![w] = todo[w] \ {i}]
        /\ call' = [call EXCEPT ![w] = [item |-> i, step |-> "asked",
                                        number |-> number[i.order], result |-> "pending"]]
        /\ UNCHANGED <<row, draw, submits, accepted, failures, audited>>
    BY <1>4 DEF ReadInvoice
  <2>2. i \in Items /\ i.order \in Orders
    BY DEF Inv, TypeOK, Items
  <2>3. [item |-> i, step |-> "asked", number |-> number[i.order], result |-> "pending"] \in Calls
    BY <2>2 DEF Inv, TypeOK, Calls, Steps, Results
  <2>4. TypeOK'
    BY <2>1, <2>3 DEF Inv, TypeOK, row
  <2>5. call'[w].item = i /\ number[i.order] # 0
    BY <2>1 DEF Inv, TypeOK, HeldInv
  <2>6. \A v \in Submitters : todo'[v] \subseteq todo[v] /\ (v # w => call'[v] = call[v])
    BY <2>1 DEF Inv, TypeOK
  <2>7. HeldInv'
    BY <2>1, <2>5, <2>6 DEF Inv, HeldInv, Current, row
  <2> QED BY <2>4, <2>7 DEF Inv
<1>5. ASSUME NEW w \in Submitters, Throw(w) PROVE Inv'
  <2>1. Return(w) /\ UNCHANGED <<row, draw, submits, accepted, failures, audited>>
    BY <1>5 DEF Throw
  <2>2. todo' = todo /\ call' \in [Submitters -> Calls \cup {None}] /\ HeldInv'
    BY <2>1, ReturnFacts, HeldFrame DEF Inv, row
  <2> QED BY <2>1, <2>2 DEF Inv, TypeOK, row
<1>6. ASSUME NEW w \in Submitters, Restart(w) PROVE Inv'
  BY <1>6 DEF Restart, Inv, TypeOK, HeldInv, Current, row
<1>7. CASE UNCHANGED vars
  BY <1>7 DEF vars, Inv, TypeOK, HeldInv, Current
<1> QED BY <1>1, <1>2, <1>3, <1>4, <1>5, <1>6, <1>7, GenerateStep, ProceedStep DEF Next

(* The state keeps its type, whatever is generated, submitted and retried   *)
(* at once: in particular an order without an invoice never gets a status   *)
(* from a late answer (dian-invoicing.ts:405-421).                          *)
THEOREM InvoiceTypeCorrect == Spec => []TypeOK
<1>1. Inv => TypeOK
  BY DEF Inv
<1> QED BY <1>1, InitHolds, InvStep, PTL DEF Spec

--------------------------------------------------------------------------------------------------------
(* Numbers: of what is drawn at once, only pairs in together may be equal.  *)
NumberInv ==
  /\ NumbersDiffer
  /\ \A g, h \in Generators : draft[g] # None /\ draft[h] # None =>
       draft[g].order = draft[h].order \/ {draft[g].order, draft[h].order} \in together
  /\ \A g \in Generators, o \in Orders :
       draft[g] # None /\ draft[g].number <= LastPadded /\ number[o] = draft[g].number =>
         o = draft[g].order \/ {o, draft[g].order} \in together

(* What the last number by text tells of the padded ones.                   *)
LEMMA NextIsNew ==
  ASSUME TypeOK, NEW n \in LastNumber, n + 1 <= LastPadded, NEW o \in Orders
  PROVE  number[o] # n + 1
<1>1. n \in Nat
  BY DEF LastNumber, Used, TypeOK
<1> SUFFICES ASSUME number[o] = n + 1 PROVE FALSE
  OBVIOUS
<1>2. n + 1 \in Used
  BY <1>1 DEF Used
<1>3. TextOrder(n + 1) <= TextOrder(n)
  BY <1>2 DEF LastNumber
<1> QED BY <1>1, <1>3, DianAssumption DEF TextOrder

LEMMA NumberStep ==
  ASSUME Inv, NumberInv, [Next]_vars
  PROVE  NumberInv'
<1>1. ASSUME NEW g \in Generators, NEW o \in Orders, ReadLast(g, o)
      PROVE  NumberInv'
  <2>1. PICK n \in LastNumber : draft' = [draft EXCEPT ![g] = [order |-> o, number |-> n + 1]]
    BY <1>1 DEF ReadLast
  <2>2. number' = number /\ n \in Nat
    BY <1>1 DEF ReadLast, row, LastNumber, Used, Inv, TypeOK
  <2>3. draft'[g].number = n + 1 /\ draft'[g].order = o
    BY <2>1 DEF Inv, TypeOK
  <2>4. n + 1 <= LastPadded => \A p \in Orders : number[p] # n + 1
    BY NextIsNew DEF Inv
  <2>5. together \subseteq together' /\ \A p \in Beside(o) : {o, p} \in together'
    BY <1>1 DEF ReadLast
  <2>6. \A h \in Generators : h # g => draft'[h] = draft[h]
    BY <2>1 DEF Inv, TypeOK
  <2>7. ASSUME NEW h \in Generators, h # g, draft'[h] # None
        PROVE  draft'[h].order = o \/ {o, draft'[h].order} \in together'
    <3>1. draft[h] # None /\ draft'[h] = draft[h]
      BY <2>6, <2>7
    <3>2. draft[h].order = o \/ draft[h].order \in Beside(o)
      BY <3>1 DEF Beside
    <3> QED BY <2>5, <3>1, <3>2
  <2>8. \A x, y : {x, y} = {y, x}
    OBVIOUS
  <2>9. ASSUME NEW h \in Generators, NEW k \in Generators, draft'[h] # None, draft'[k] # None
        PROVE  draft'[h].order = draft'[k].order
                 \/ {draft'[h].order, draft'[k].order} \in together'
    <3>1. CASE h = g
      BY <2>3, <2>7, <2>9, <3>1
    <3>2. CASE k = g
      <4>1. {draft'[h].order, o} = {o, draft'[h].order}
        BY <2>8
      <4> QED BY <2>3, <2>7, <2>9, <3>2, <4>1
    <3>3. CASE h # g /\ k # g
      BY <2>5, <2>6, <2>9, <3>3 DEF NumberInv
    <3> QED BY <3>1, <3>2, <3>3
  <2>10. NumbersDiffer'
    BY <2>2, <2>5 DEF NumberInv, NumbersDiffer
  <2>11. \A h \in Generators, p \in Orders :
           draft'[h] # None /\ draft'[h].number <= LastPadded /\ number'[p] = draft'[h].number =>
             p = draft'[h].order \/ {p, draft'[h].order} \in together'
    BY <2>2, <2>3, <2>4, <2>5, <2>6 DEF NumberInv
  <2> QED BY <2>9, <2>10, <2>11 DEF NumberInv
<1>2. ASSUME NEW g \in Generators, Upsert(g)
      PROVE  NumberInv'
  <2> DEFINE o == draft[g].order
  <2>1. /\ draft[g] # None /\ o \in Orders /\ draft[g].number \in Nat
        /\ number' = [number EXCEPT ![o] = draft[g].number]
        /\ draft' = [draft EXCEPT ![g] = None] /\ together' = together
    BY <1>2 DEF Upsert, Inv, TypeOK, Drafts
  <2>2. \A h \in Generators : draft'[h] # None => draft[h] # None /\ draft'[h] = draft[h]
    BY <2>1 DEF Inv, TypeOK
  <2>3. number'[o] = draft[g].number /\ \A p \in Orders \ {o} : number'[p] = number[p]
    BY <2>1 DEF Inv, TypeOK
  <2>4. ASSUME NEW p \in Orders \ {o}, number'[p] = number'[o], number'[o] \in 1..LastPadded
        PROVE  {p, o} \in together' /\ {o, p} \in together'
    <3>1. {p, o} \in together
      BY <2>1, <2>3, <2>4, DianAssumption DEF NumberInv
    <3>2. {p, o} = {o, p}
      OBVIOUS
    <3> QED BY <2>1, <3>1, <3>2
  <2>5. NumbersDiffer'
    <3> SUFFICES ASSUME NEW p \in Orders, NEW q \in Orders, p # q, number'[p] = number'[q],
                        number'[p] \in 1..LastPadded
                 PROVE  {p, q} \in together'
      BY DEF NumbersDiffer
    <3>1. CASE p = o
      BY <2>4, <3>1
    <3>2. CASE q = o
      BY <2>4, <3>2
    <3>3. CASE p # o /\ q # o
      BY <2>1, <2>3, <3>3 DEF NumberInv, NumbersDiffer
    <3> QED BY <3>1, <3>2, <3>3
  <2>6. ASSUME NEW h \in Generators, NEW p \in Orders, draft'[h] # None,
               draft'[h].number <= LastPadded, number'[p] = draft'[h].number
        PROVE  p = draft'[h].order \/ {p, draft'[h].order} \in together'
    <3>1. CASE p = o
      <4>1. draft[h] # None /\ draft'[h] = draft[h]
        BY <2>2, <2>6
      <4> QED BY <2>1, <3>1, <4>1 DEF NumberInv
    <3>2. CASE p # o
      BY <2>1, <2>2, <2>3, <2>6, <3>2 DEF NumberInv
    <3> QED BY <3>1, <3>2
  <2>7. \A h, k \in Generators : draft'[h] # None /\ draft'[k] # None =>
          draft'[h].order = draft'[k].order \/ {draft'[h].order, draft'[k].order} \in together'
    BY <2>1, <2>2 DEF NumberInv
  <2> HIDE DEF o
  <2> QED BY <2>5, <2>6, <2>7 DEF NumberInv
<1>3. ASSUME NEW g \in Generators, Abandon(g)
      PROVE  NumberInv'
  <2>1. number' = number /\ together' = together /\ draft' = [draft EXCEPT ![g] = None]
    BY <1>3 DEF Abandon, row
  <2>2. \A h \in Generators : draft'[h] # None => draft[h] # None /\ draft'[h] = draft[h]
    BY <2>1 DEF Inv, TypeOK
  <2> QED BY <2>1, <2>2 DEF NumberInv, NumbersDiffer
<1>4. CASE UNCHANGED <<number, draft, together>>
  BY <1>4 DEF NumberInv, NumbersDiffer
<1>5. ASSUME NEW w \in Submitters, Proceed(w) PROVE UNCHANGED <<number, draft, together>>
  BY <1>5 DEF Proceed, Save, Reply, ResetCount, CountFailure, Make, Fail, row
<1> QED
  BY <1>1, <1>2, <1>3, <1>4, <1>5
  DEF Next, vars, row, Elapse, Submit, StartRun, ReadInvoice, Throw, Restart

(* No two orders share a number that padStart keeps in order unless it was  *)
(* drawn for both at once (dian-invoicing.ts:157-166), however often and by *)
(* however many requests invoices are generated again.                      *)
THEOREM NumbersAreUnique == Spec => []NumbersDiffer
<1>1. Init => NumberInv
  BY DianAssumption DEF Init, NumberInv, NumbersDiffer
<1>2. Inv /\ NumberInv /\ [Next]_vars => NumberInv'
  BY NumberStep
<1>3. NumberInv => NumbersDiffer
  BY DEF NumberInv
<1> QED BY <1>1, <1>2, <1>3, InitHolds, InvStep, PTL DEF Spec

--------------------------------------------------
(* Acceptance: an answer that is about to be written as accepted is one.    *)
AcceptInv ==
  /\ AcceptedByDian
  /\ \A w \in Submitters : At(w, "made") /\ call[w].result = "accepted" =>
       \E s \in accepted : s[1] = Current(w)

LEMMA AcceptFrame ==
  ASSUME Inv, AcceptInv, accepted' = accepted,
         \A o \in Orders : status'[o] = "accepted" => status[o] = "accepted",
         \A w \in Submitters : At(w, "made")' => call'[w] = call[w]
  PROVE  AcceptInv'
BY DEF AcceptInv, AcceptedByDian, At, Current

LEMMA AcceptStep ==
  ASSUME Inv, AcceptInv, [Next]_vars
  PROVE  AcceptInv'
<1>1. ASSUME NEW w \in Submitters, NEW a \in Answers, Make(w, a)
      PROVE  AcceptInv'
  <2>1. call[w] # None /\ Current(w) \in Orders
    BY <1>1, CallFacts DEF Make, At, Inv
  <2>2. AdapterStatus(a) \in Results /\ (AdapterStatus(a) = "accepted" => a = "accepted")
    BY DEF AdapterStatus, Answers, Results
  <2>3. Continue(w, "made", 0, AdapterStatus(a)) /\ status' = status
    BY <1>1 DEF Make, row
  <2>4. accepted \subseteq accepted' /\
          (a = "accepted" => <<Current(w), call[w].number>> \in accepted')
    BY <1>1 DEF Make
  <2>5. /\ call'[w].item = call[w].item /\ call'[w].result = AdapterStatus(a)
        /\ \A v \in Submitters \ {w} : call'[v] = call[v]
    BY <2>1, <2>2, <2>3, ContinueFacts DEF Inv, Steps
  <2>6. call'[w].result = "accepted" => \E s \in accepted' : s[1] = Current(w)'
    BY <2>2, <2>4, <2>5 DEF Current
  <2>7. AcceptedByDian'
    BY <2>3, <2>4 DEF AcceptInv, AcceptedByDian
  <2>8. \A v \in Submitters \ {w} : At(v, "made")' /\ call'[v].result = "accepted" =>
          \E s \in accepted' : s[1] = Current(v)'
    BY <2>4, <2>5 DEF AcceptInv, At, Current
  <2> QED BY <2>6, <2>7, <2>8 DEF AcceptInv
<1>2. ASSUME NEW w \in Submitters, Save(w)
      PROVE  AcceptInv'
  <2>1. call[w] # None /\ Current(w) \in Orders
    BY <1>2, CallFacts DEF Save, At, Inv
  <2>2. /\ status' = [status EXCEPT ![Current(w)] = call[w].result] /\ accepted' = accepted
        /\ Continue(w, "sent", 0, "pending") /\ At(w, "made")
    BY <1>2 DEF Save
  <2>3. call'[w].step = "sent" /\ \A v \in Submitters \ {w} : call'[v] = call[v]
    BY <2>1, <2>2, ContinueFacts DEF Inv, Steps, Results
  <2>4. AcceptedByDian'
    BY <2>1, <2>2 DEF AcceptInv, AcceptedByDian, Inv, TypeOK
  <2> QED BY <2>2, <2>3, <2>4 DEF AcceptInv, At, Current
<1>3. ASSUME NEW w \in Submitters, NEW written \in BOOLEAN, Fail(w, written)
      PROVE  AcceptInv'
  <2>1. call[w] # None /\ Continue(w, "failed", 0, "pending") /\ UNCHANGED <<status, accepted>>
    BY <1>3 DEF Fail, At
  <2>2. call'[w].step = "failed" /\ \A v \in Submitters \ {w} : call'[v] = call[v]
    BY <2>1, ContinueFacts DEF Inv, Steps, Results
  <2> QED BY <2>1, <2>2, AcceptFrame DEF At
<1>4. ASSUME NEW w \in Submitters,
             Reply(w) \/ ResetCount(w) \/ CountFailure(w) \/ Throw(w)
      PROVE  AcceptInv'
  <2>1. Return(w) /\ accepted' = accepted
    BY <1>4 DEF Reply, ResetCount, CountFailure, Throw
  <2>2. \A o \in Orders : status'[o] = "accepted" => status[o] = "accepted"
    BY <1>4 DEF Reply, ResetCount, CountFailure, Throw, row, Inv, TypeOK
  <2> QED BY <2>1, <2>2, ReturnFacts, AcceptFrame DEF At, Inv
<1>5. ASSUME NEW w \in Submitters, NEW i \in todo[w], ReadInvoice(w, i)
      PROVE  AcceptInv'
  <2>1. call'[w].step = "asked" /\ UNCHANGED <<status, accepted>>
        /\ \A v \in Submitters \ {w} : call'[v] = call[v]
    BY <1>5 DEF ReadInvoice, row, Inv, TypeOK
  <2> QED BY <2>1, AcceptFrame DEF At
<1>6. ASSUME NEW w \in Submitters, Restart(w)
      PROVE  AcceptInv'
  <2>1. call'[w] = None /\ UNCHANGED <<status, accepted>>
        /\ \A v \in Submitters \ {w} : call'[v] = call[v]
    BY <1>6 DEF Restart, row, Inv, TypeOK
  <2> QED BY <2>1, AcceptFrame DEF At
<1>7. ASSUME NEW g \in Generators, Upsert(g)
      PROVE  AcceptInv'
  <2>1. UNCHANGED <<call, accepted>> /\
        \A o \in Orders : status'[o] = "accepted" => status[o] = "accepted"
    BY <1>7 DEF Upsert, Inv, TypeOK
  <2> QED BY <2>1, AcceptFrame
<1>8. CASE UNCHANGED <<call, status, accepted>>
  BY <1>8, AcceptFrame
<1> QED
  BY <1>1, <1>2, <1>3, <1>4, <1>5, <1>6, <1>7, <1>8
  DEF Next, vars, row, Elapse, Submit, StartRun, Proceed, Abandon, ReadLast

(* Whichever of any number of concurrent submissions wrote it, an accepted  *)
(* invoice stands for one that DIAN accepted for that order.                *)
THEOREM AcceptedMeansAccepted == Spec => []AcceptedByDian
<1>1. Init => AcceptInv
  BY DEF Init, AcceptInv, AcceptedByDian, At
<1>2. Inv /\ AcceptInv /\ [Next]_vars => AcceptInv'
  BY AcceptStep
<1>3. AcceptInv => AcceptedByDian
  BY DEF AcceptInv
<1> QED BY <1>1, <1>2, <1>3, InitHolds, InvStep, PTL DEF Spec

-----------------------------------------------------------------------------
(* Retries: a count, wherever it is held, is covered by failures.  Counts   *)
(* are written from old reads, so only this bound survives, not equality.   *)
Covers(o, n) == n <= failures[o] \/ failures[o] = MaxRetries

TriedInv ==
  /\ GivenUpWhenTried
  /\ \A o \in Orders : Covers(o, retry[o])
  /\ \A w \in Submitters : \A i \in todo[w] : i.job => Covers(i.order, i.count)
  /\ \A w \in Submitters : call[w] # None /\ call[w].item.job =>
       /\ Covers(Current(w), call[w].item.count)
       /\ call[w].step = "failed" => Covers(Current(w), call[w].item.count + 1)

(* What stays covered when failures only grow.                              *)
LEMMA TriedFrame ==
  ASSUME Inv, TriedInv, audited' = audited,
         \A o \in Orders : failures'[o] = failures[o],
         \A o \in Orders : status'[o] = "failed" => status[o] = "failed",
         \A o \in Orders : retry'[o] = retry[o] \/ retry'[o] = 0,
         \A w \in Submitters : todo'[w] \subseteq todo[w],
         \A w \in Submitters : call'[w] # None =>
           /\ call[w] # None /\ call'[w].item = call[w].item
           /\ call'[w].step = "failed" => call[w].step = "failed"
  PROVE  TriedInv'
<1>1. GivenUpWhenTried'
  BY DEF TriedInv, GivenUpWhenTried
<1>2. \A o \in Orders : failures[o] \in Nat /\ retry[o] \in Nat
  BY DianAssumption DEF Inv, TypeOK
<1>3. \A o \in Orders, n \in Nat : Covers(o, n) => Covers(o, n)'
  BY DEF Covers
<1>4. \A o \in Orders : Covers(o, retry[o])'
  BY <1>2, <1>3 DEF TriedInv, Covers
<1>5. \A w \in Submitters : \A i \in todo'[w] : i.job => Covers(i.order, i.count)'
  BY <1>3 DEF TriedInv, Inv, TypeOK, Items
<1>6. ASSUME NEW w \in Submitters, call'[w] # None, call'[w].item.job
      PROVE  /\ Covers(Current(w), call[w].item.count)'
             /\ call'[w].step = "failed" => Covers(Current(w), call[w].item.count + 1)'
  <2>1. call[w] # None /\ call'[w].item = call[w].item /\ Current(w) \in Orders
        /\ call[w].item.count \in Nat
    BY <1>6, CallFacts DEF Inv
  <2>2. Current(w)' = Current(w)
    BY <2>1 DEF Current
  <2>3. /\ Covers(Current(w), call[w].item.count)
        /\ call'[w].step = "failed" => Covers(Current(w), call[w].item.count + 1)
    BY <1>6, <2>1 DEF TriedInv
  <2>4. failures'[Current(w)] = failures[Current(w)]
    BY <2>1
  <2> QED BY <2>1, <2>2, <2>3, <2>4 DEF Covers
<1> QED BY <1>1, <1>4, <1>5, <1>6 DEF TriedInv

LEMMA FailStep ==
  ASSUME Inv, TriedInv, NEW w \in Submitters, NEW written \in BOOLEAN, Fail(w, written)
  PROVE  TriedInv'
<1> DEFINE o == Current(w)
<1>1. call[w] # None /\ o \in Orders /\ call[w].item.count \in Nat /\ call[w].item.job \in BOOLEAN
  BY CallFacts DEF Fail, At, Inv
<1>2. /\ Continue(w, "failed", 0, "pending")
      /\ UNCHANGED <<number, status, retry, draw, submits, accepted, audited>>
      /\ failures' = IF call[w].item.job /\ failures[o] < MaxRetries
                     THEN [failures EXCEPT ![o] = failures[o] + 1] ELSE failures
  BY DEF Fail
<1>3. /\ todo' = todo /\ call'[w].item = call[w].item /\ call'[w].step = "failed"
      /\ \A v \in Submitters \ {w} : call'[v] = call[v]
  BY <1>1, <1>2, ContinueFacts DEF Inv, Steps, Results
<1>4. \A p \in Orders : /\ failures[p] \in 0..MaxRetries /\ failures'[p] \in 0..MaxRetries
                        /\ failures[p] <= failures'[p]
  BY <1>1, <1>2, DianAssumption DEF Inv, TypeOK
<1>5. \A p \in Orders, n \in Nat : Covers(p, n) => Covers(p, n)'
  BY <1>4, DianAssumption DEF Covers
<1>6. call[w].item.job => failures'[o] = MaxRetries \/ failures'[o] = failures[o] + 1
  BY <1>1, <1>2, <1>4, DianAssumption DEF Inv, TypeOK
<1>7. call[w].item.job => Covers(o, call[w].item.count)
  BY <1>1 DEF TriedInv
<1>8. call[w].item.job => call[w].item.count + 1 <= failures'[o] \/ failures'[o] = MaxRetries
  BY <1>1, <1>4, <1>6, <1>7, DianAssumption DEF Covers
<1>9. Current(w)' = o
  BY <1>3 DEF Current
<1>10. call[w].item.job => Covers(Current(w), call[w].item.count)'
                           /\ Covers(Current(w), call[w].item.count + 1)'
  BY <1>1, <1>3, <1>4, <1>8, <1>9 DEF Covers
<1>11. GivenUpWhenTried'
  BY <1>2, <1>4, DianAssumption DEF TriedInv, GivenUpWhenTried
<1>12. \A p \in Orders : Covers(p, retry[p])'
  BY <1>2, <1>5 DEF TriedInv, Inv, TypeOK
<1>13. \A v \in Submitters : \A i \in todo'[v] : i.job => Covers(i.order, i.count)'
  BY <1>3, <1>5 DEF TriedInv, Inv, TypeOK, Items
<1>14. ASSUME NEW v \in Submitters \ {w}, call'[v] # None, call'[v].item.job
       PROVE  /\ Covers(Current(v), call[v].item.count)'
              /\ call'[v].step = "failed" => Covers(Current(v), call[v].item.count + 1)'
  <2>1. call'[v] = call[v] /\ Current(v)' = Current(v)
    BY <1>3 DEF Current
  <2>2. Current(v) \in Orders /\ call[v].item.count \in Nat
    BY <1>14, <2>1, CallFacts DEF Inv
  <2>3. /\ Covers(Current(v), call[v].item.count)
        /\ call[v].step = "failed" => Covers(Current(v), call[v].item.count + 1)
    BY <1>14, <2>1 DEF TriedInv
  <2>4. failures[Current(v)] <= failures'[Current(v)] /\ failures'[Current(v)] \in 0..MaxRetries
        /\ failures[Current(v)] \in 0..MaxRetries
    BY <1>4, <2>2
  <2> QED BY <2>1, <2>2, <2>3, <2>4, DianAssumption DEF Covers
<1> HIDE DEF o
<1> QED BY <1>3, <1>10, <1>11, <1>12, <1>13, <1>14 DEF TriedInv

LEMMA CountStep ==
  ASSUME Inv, TriedInv, NEW w \in Submitters, CountFailure(w)
  PROVE  TriedInv'
<1> DEFINE o == Current(w)
           n == call[w].item.count
<1>1. call[w] # None /\ o \in Orders /\ n \in Nat
  BY CallFacts DEF CountFailure, At, Inv
<1>2. /\ retry' = [retry EXCEPT ![o] = n + 1] /\ Return(w) /\ failures' = failures
      /\ IF Exhausted(n)
         THEN status' = [status EXCEPT ![o] = "failed"] /\ audited' = audited \cup {o}
         ELSE UNCHANGED <<status, audited>>
  BY DEF CountFailure
<1>3. Covers(o, n + 1)
  BY <1>1 DEF CountFailure, At, TriedInv
<1>4. /\ todo' = todo /\ call'[w] = None
      /\ \A v \in Submitters \ {w} : call'[v] = call[v]
  BY <1>2, ReturnFacts DEF Inv
<1>5. Exhausted(n) => failures[o] >= MaxRetries
  BY <1>1, <1>3, DianAssumption DEF Exhausted, Covers, Inv, TypeOK
<1>6. GivenUpWhenTried'
  <2>1. CASE Exhausted(n)
    BY <1>1, <1>2, <1>5, <2>1 DEF TriedInv, GivenUpWhenTried, Inv, TypeOK
  <2>2. CASE ~Exhausted(n)
    BY <1>2, <2>2 DEF TriedInv, GivenUpWhenTried
  <2> QED BY <2>1, <2>2
<1>7. \A p \in Orders : Covers(p, retry[p])'
  BY <1>1, <1>2, <1>3 DEF TriedInv, Covers, Inv, TypeOK
<1> HIDE DEF o, n
<1> QED BY <1>2, <1>4, <1>6, <1>7 DEF TriedInv, Covers, Current

LEMMA TriedStep ==
  ASSUME Inv, TriedInv, [Next]_vars
  PROVE  TriedInv'
<1>1. ASSUME NEW w \in Submitters, NEW a \in Answers, Make(w, a)
      PROVE  TriedInv'
  <2>1. call[w] # None /\ Continue(w, "made", 0, AdapterStatus(a))
        /\ UNCHANGED <<status, retry, audited, failures>>
    BY <1>1 DEF Make, At, row
  <2>2. AdapterStatus(a) \in Results
    BY DEF AdapterStatus, Answers, Results
  <2>3. /\ todo' = todo /\ call'[w].step = "made" /\ call'[w].item = call[w].item
        /\ \A v \in Submitters \ {w} : call'[v] = call[v]
    BY <2>1, <2>2, ContinueFacts DEF Inv, Steps
  <2> QED BY <2>1, <2>3, TriedFrame
<1>2. ASSUME NEW w \in Submitters, Save(w)
      PROVE  TriedInv'
  <2>1. /\ call[w] # None /\ Continue(w, "sent", 0, "pending")
        /\ status' = [status EXCEPT ![Current(w)] = call[w].result]
        /\ UNCHANGED <<retry, audited, failures>>
    BY <1>2 DEF Save, At
  <2>2. call[w].result \in Results
    BY <2>1, CallFacts DEF Inv
  <2>3. /\ todo' = todo /\ call'[w].step = "sent" /\ call'[w].item = call[w].item
        /\ \A v \in Submitters \ {w} : call'[v] = call[v]
    BY <2>1, ContinueFacts DEF Inv, Steps, Results
  <2>4. \A o \in Orders : status'[o] = "failed" => status[o] = "failed"
    BY <2>1, <2>2 DEF Inv, TypeOK, Results
  <2> QED BY <2>1, <2>3, <2>4, TriedFrame
<1>3. ASSUME NEW w \in Submitters, Reply(w) \/ ResetCount(w) \/ Throw(w)
      PROVE  TriedInv'
  <2>1. Return(w) /\ UNCHANGED <<status, audited, failures>>
    BY <1>3 DEF Reply, ResetCount, Throw, row
  <2>2. \A o \in Orders : retry'[o] = retry[o] \/ retry'[o] = 0
    BY <1>3 DEF Reply, ResetCount, Throw, row, Inv, TypeOK
  <2>3. /\ todo' = todo /\ call'[w] = None
        /\ \A v \in Submitters \ {w} : call'[v] = call[v]
    BY <2>1, ReturnFacts DEF Inv
  <2> QED BY <2>1, <2>2, <2>3, TriedFrame
<1>4. ASSUME NEW w \in Submitters, NEW i \in todo[w], ReadInvoice(w, i)
      PROVE  TriedInv'
  <2>1. /\ call'[w].step = "asked" /\ call'[w].item = i
        /\ \A v \in Submitters \ {w} : call'[v] = call[v]
        /\ \A v \in Submitters : todo'[v] \subseteq todo[v]
        /\ UNCHANGED <<status, retry, audited, failures>>
    BY <1>4 DEF ReadInvoice, row, Inv, TypeOK
  <2>2. i.job => Covers(i.order, i.count)
    BY DEF TriedInv
  <2>3. GivenUpWhenTried'
    BY <2>1 DEF TriedInv, GivenUpWhenTried
  <2> QED BY <2>1, <2>2, <2>3 DEF TriedInv, Covers, Current
<1>5. ASSUME NEW w \in Submitters, StartRun(w)
      PROVE  TriedInv'
  <2>1. /\ todo' = [todo EXCEPT ![w] = Eligible]
        /\ UNCHANGED <<status, retry, audited, failures, call>>
    BY <1>5 DEF StartRun, row
  <2>2. ASSUME NEW i \in Eligible PROVE Covers(i.order, i.count)
    <3>1. PICK o \in Orders : i = [order |-> o, count |-> retry[o], job |-> TRUE]
      BY DEF Eligible, Candidates, Pending
    <3> QED BY <3>1 DEF TriedInv
  <2>3. GivenUpWhenTried'
    BY <2>1 DEF TriedInv, GivenUpWhenTried
  <2>4. \A v \in Submitters : \A i \in todo'[v] : i.job => Covers(i.order, i.count)
    BY <2>1, <2>2 DEF TriedInv, Inv, TypeOK
  <2> QED BY <2>1, <2>3, <2>4 DEF TriedInv, Covers, Current
<1>6. ASSUME NEW w \in Submitters, NEW o \in Orders, Submit(w, o)
      PROVE  TriedInv'
  <2>1. /\ todo' = [todo EXCEPT ![w] = {[order |-> o, count |-> 0, job |-> FALSE]}]
        /\ UNCHANGED <<status, retry, audited, failures, call>>
    BY <1>6 DEF Submit, row
  <2>2. GivenUpWhenTried'
    BY <2>1 DEF TriedInv, GivenUpWhenTried
  <2>3. \A v \in Submitters : \A i \in todo'[v] : i.job => Covers(i.order, i.count)
    BY <2>1 DEF TriedInv, Inv, TypeOK
  <2> QED BY <2>1, <2>2, <2>3 DEF TriedInv, Covers, Current
<1>7. ASSUME NEW w \in Submitters, Restart(w)
      PROVE  TriedInv'
  <2>1. /\ call'[w] = None /\ UNCHANGED <<status, retry, audited, failures>>
        /\ \A v \in Submitters \ {w} : call'[v] = call[v]
        /\ \A v \in Submitters : todo'[v] \subseteq todo[v]
    BY <1>7 DEF Restart, row, Inv, TypeOK
  <2> QED BY <2>1, TriedFrame
<1>8. ASSUME NEW g \in Generators, Upsert(g)
      PROVE  TriedInv'
  <2>1. UNCHANGED <<retry, todo, call, failures, audited>> /\
        \A o \in Orders : status'[o] = "failed" => status[o] = "failed"
    BY <1>8 DEF Upsert, Inv, TypeOK
  <2> QED BY <2>1, TriedFrame
<1>9. CASE UNCHANGED <<status, retry, todo, call, failures, audited>>
  BY <1>9, TriedFrame
<1> QED
  BY <1>1, <1>2, <1>3, <1>4, <1>5, <1>6, <1>7, <1>8, <1>9, FailStep, CountStep
  DEF Next, vars, row, Elapse, Proceed, Abandon, ReadLast

(* An invoice is given up only after MaxRetries of its submissions failed,  *)
(* and with an audit entry, for any number of concurrent runs that write    *)
(* their counts from old reads (dian-invoicing.ts:657-683).                 *)
THEOREM GivenUpAfterRetries == Spec => []GivenUpWhenTried
<1>1. Init => TriedInv
  BY DianAssumption DEF Init, TriedInv, GivenUpWhenTried, Covers
<1>2. Inv /\ TriedInv /\ [Next]_vars => TriedInv'
  BY TriedStep
<1>3. TriedInv => GivenUpWhenTried
  BY DEF TriedInv
<1> QED BY <1>1, <1>2, <1>3, InitHolds, InvStep, PTL DEF Spec
=============================================================================
