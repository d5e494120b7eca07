---------------------------- MODULE EscrowProofs ----------------------------
(***************************************************************************)
(* Proofs about Escrow for every set of orders, calls and amounts.         *)
(***************************************************************************)
EXTENDS Escrow, TLAPS

(* A call refers to one order at most, and to one that has a holding.       *)
TargetsExist ==
  /\ \A c \in Calls : \A o, p \in target[c] : o = p
  /\ \A c \in Calls : \A o \in target[c] : status[o] # "absent"

PaidInv == TypeOK /\ TargetsExist /\ ReleasedIsPaid

LEMMA OwedType == ASSUME TypeOK PROVE \A o \in Orders : Owed(o) \in Nat
BY DEF TypeOK, Owed, SellerAmount

LEMMA PaidInit == Init => PaidInv
BY DEF Init, PaidInv, TypeOK, TargetsExist, ReleasedIsPaid, Statuses, Ops

(* What a step leaves alone it does not break.                              *)
LEMMA CallsOnly ==
  ASSUME PaidInv, UNCHANGED <<status, holding, credited>>,
         expired' \in [Orders -> BOOLEAN],
         op' \in [Calls -> Ops],
         target' \in [Calls -> SUBSET Orders],
         batch' \in [Calls -> SUBSET Orders],
         \A c \in Calls : op'[c] = "none" <=> target'[c] = {},
         \A c \in Calls : \A o, p \in target'[c] : o = p,
         \A c \in Calls : \A o \in target'[c] : status[o] # "absent"
  PROVE  PaidInv'
BY DEF PaidInv, TypeOK, TargetsExist, ReleasedIsPaid, SellerAmount

LEMMA ReadKeeps ==
  ASSUME PaidInv, NEW c \in Calls, NEW name \in Ops \ {"none"}, NEW o \in Orders,
         NEW accepted, "absent" \notin accepted, Read(c, name, o, accepted),
         batch' \in [Calls -> SUBSET Orders]
  PROVE  PaidInv'
<1>1. /\ op' \in [Calls -> Ops] /\ target' \in [Calls -> SUBSET Orders]
      /\ expired' \in [Orders -> BOOLEAN]
      /\ UNCHANGED <<status, holding, credited>>
      /\ \A d \in Calls : op'[d] = "none" <=> target'[d] = {}
      /\ \A d \in Calls : \A p, q \in target'[d] : p = q
      /\ \A d \in Calls : \A p \in target'[d] : status[p] # "absent"
  BY DEF Read, PaidInv, TypeOK, TargetsExist
<1> QED BY <1>1, CallsOnly

LEMMA AnswerKeeps ==
  ASSUME PaidInv, NEW c \in Calls, Answer(c)
  PROVE  /\ op' \in [Calls -> Ops] /\ target' \in [Calls -> SUBSET Orders]
         /\ \A d \in Calls : op'[d] = "none" <=> target'[d] = {}
         /\ \A d \in Calls : target'[d] \in {target[d], {}}
BY DEF Answer, PaidInv, TypeOK, Ops

(* A write leaves what it wrote, and only release writes "released".        *)
LEMMA WriteKeeps ==
  ASSUME PaidInv, NEW c \in Calls, NEW name \in Ops \ {"none"},
         NEW to \in Statuses \ {"absent"}, Write(c, name, to),
         credited' \in [Orders -> Nat],
         \A o \in Orders : credited'[o] >= credited[o],
         to = "released" =>
           \A o \in target[c] : holding[o].seller => credited'[o] >= SellerAmount(o)
  PROVE  PaidInv'
<1>1. PICK o \in target[c] : status' = [status EXCEPT ![o] = to]
  BY DEF Write
<1>2. o \in Orders
  BY DEF PaidInv, TypeOK
<1>3. /\ op' \in [Calls -> Ops] /\ target' \in [Calls -> SUBSET Orders]
      /\ \A d \in Calls : op'[d] = "none" <=> target'[d] = {}
      /\ \A d \in Calls : target'[d] \in {target[d], {}}
      /\ UNCHANGED <<holding, expired, batch>>
  BY AnswerKeeps DEF Write
<1>4. TypeOK'
  BY <1>1, <1>2, <1>3 DEF PaidInv, TypeOK
<1>5. TargetsExist'
  <2>1. \A d \in Calls : target'[d] \subseteq target[d] /\ target[d] \subseteq Orders
    BY <1>3 DEF PaidInv, TypeOK
  <2>2. \A d \in Calls : \A p, q \in target'[d] : p = q
    BY <2>1 DEF PaidInv, TargetsExist
  <2>3. \A p \in Orders : status[p] # "absent" => status'[p] # "absent"
    BY <1>1, <1>2 DEF PaidInv, TypeOK
  <2>4. \A d \in Calls : \A p \in target'[d] : status'[p] # "absent"
    BY <2>1, <2>3 DEF PaidInv, TargetsExist
  <2> QED BY <2>2, <2>4 DEF TargetsExist
<1>6. ReleasedIsPaid'
  <2> SUFFICES ASSUME NEW p \in Orders, status'[p] = "released", holding[p].seller
               PROVE  credited'[p] >= SellerAmount(p)
    BY <1>3 DEF ReleasedIsPaid, SellerAmount
  <2>0. credited[p] \in Nat /\ credited'[p] \in Nat /\ credited'[p] >= credited[p]
        /\ SellerAmount(p) \in Int
    BY DEF PaidInv, TypeOK, SellerAmount
  <2>1. CASE p = o
    BY <2>1, <1>1, <1>2 DEF PaidInv, TypeOK
  <2>2. CASE p # o
    BY <2>0, <2>2, <1>1, <1>2 DEF PaidInv, TypeOK, ReleasedIsPaid
  <2> QED BY <2>1, <2>2
<1> QED BY <1>4, <1>5, <1>6 DEF PaidInv

LEMMA PaidStep == PaidInv /\ [Next]_vars => PaidInv'
<1> SUFFICES ASSUME PaidInv, [Next]_vars PROVE PaidInv'
  OBVIOUS
<1>0. CASE UNCHANGED vars
  BY <1>0 DEF vars, PaidInv, TypeOK, TargetsExist, ReleasedIsPaid, SellerAmount
<1>1. ASSUME NEW o \in Orders, NEW a \in Amounts, NEW k \in Commissions,
             NEW seller \in BOOLEAN, CreateHolding(o, a, k, seller)
      PROVE  PaidInv'
  <2>1. TypeOK'
    BY <1>1, EscrowAssumption DEF CreateHolding, PaidInv, TypeOK, Statuses
  <2>2. TargetsExist'
    BY <1>1 DEF CreateHolding, PaidInv, TypeOK, TargetsExist
  <2>3. ReleasedIsPaid'
    BY <1>1 DEF CreateHolding, PaidInv, TypeOK, ReleasedIsPaid, SellerAmount
  <2> QED BY <2>1, <2>2, <2>3 DEF PaidInv
<1>2. ASSUME NEW o \in Orders, Elapse(o)
      PROVE  PaidInv'
  BY <1>2 DEF Elapse, PaidInv, TypeOK, TargetsExist, ReleasedIsPaid, SellerAmount
<1>3. ASSUME NEW c \in Calls, NEW o \in Orders,
             ReadForRelease(c, o) \/ ReadForRefund(c, o) \/ ReadForDispute(c, o)
      PROVE  PaidInv'
  <2>1. batch' \in [Calls -> SUBSET Orders]
    BY <1>3 DEF ReadForRelease, ReadForRefund, ReadForDispute, PaidInv, TypeOK
  <2> QED BY <1>3, <2>1, ReadKeeps
          DEF ReadForRelease, ReadForRefund, ReadForDispute, ReleaseAccepts,
              RefundAccepts, Ops
<1>4. ASSUME NEW c \in Calls, NEW o \in Orders, NextInBatch(c, o)
      PROVE  PaidInv'
  <2>1. batch' \in [Calls -> SUBSET Orders]
    BY <1>4 DEF NextInBatch, PaidInv, TypeOK
  <2>2. CASE Read(c, "release", o, ReleaseAccepts)
    BY <2>1, <2>2, ReadKeeps DEF ReleaseAccepts, Ops
  <2>3. CASE UNCHANGED <<status, holding, expired, credited, op, target>>
    BY <2>1, <2>3 DEF PaidInv, TypeOK, TargetsExist, ReleasedIsPaid, SellerAmount
  <2> QED BY <1>4, <2>2, <2>3 DEF NextInBatch
<1>5. ASSUME NEW c \in Calls, StartAutoRelease(c)
      PROVE  PaidInv'
  <2>1. batch' \in [Calls -> SUBSET Orders]
    BY <1>5 DEF StartAutoRelease, Due, PaidInv, TypeOK
  <2> QED BY <1>5, <2>1
          DEF StartAutoRelease, PaidInv, TypeOK, TargetsExist, ReleasedIsPaid, SellerAmount
<1>6. ASSUME NEW c \in Calls, CommitRelease(c)
      PROVE  PaidInv'
  <2>1. \A o \in Orders : credited[o] \in Nat /\ SellerAmount(o) \in Int /\ Owed(o) \in Nat
    BY OwedType DEF PaidInv, TypeOK, SellerAmount
  <2>2. /\ credited' \in [Orders -> Nat]
        /\ \A o \in Orders : credited'[o] >= credited[o]
        /\ \A o \in target[c] : holding[o].seller => credited'[o] >= SellerAmount(o)
    BY <1>6, <2>1 DEF CommitRelease, PaidInv, TypeOK, Owed
  <2> QED BY <1>6, <2>2, WriteKeeps DEF CommitRelease, Ops, Statuses
<1>7. ASSUME NEW c \in Calls, CommitRefund(c) \/ CommitDispute(c)
      PROVE  PaidInv'
  <2>1. /\ credited' \in [Orders -> Nat]
        /\ \A o \in Orders : credited'[o] >= credited[o]
    BY <1>7 DEF CommitRefund, CommitDispute, PaidInv, TypeOK
  <2> QED BY <1>7, <2>1, WriteKeeps DEF CommitRefund, CommitDispute, Ops, Statuses
<1>8. ASSUME NEW c \in Calls, WriteFails(c) \/ Crash(c)
      PROVE  PaidInv'
  <2>1. Answer(c) /\ UNCHANGED <<status, holding, expired, credited>>
    BY <1>8 DEF WriteFails, Crash
  <2>2. batch' \in [Calls -> SUBSET Orders]
    BY <1>8 DEF WriteFails, Crash, PaidInv, TypeOK
  <2>3. /\ expired' \in [Orders -> BOOLEAN]
        /\ \A d \in Calls : \A o, p \in target'[d] : o = p
        /\ \A d \in Calls : \A o \in target'[d] : status[o] # "absent"
    BY <2>1, AnswerKeeps DEF PaidInv, TypeOK, TargetsExist
  <2> QED BY <2>1, <2>2, <2>3, AnswerKeeps, CallsOnly
<1> QED BY <1>0, <1>1, <1>2, <1>3, <1>4, <1>5, <1>6, <1>7, <1>8 DEF Next, Commit

(* Type correctness of escrow under any concurrency.                        *)
THEOREM EscrowTypeCorrect == Spec => []TypeOK
<1>1. PaidInv => TypeOK
  BY DEF PaidInv
<1> QED BY <1>1, PaidInit, PaidStep, PTL DEF Spec

(* Whatever runs at the same time, a holding recorded as released has paid  *)
(* its seller.                                                              *)
THEOREM ReleasedHoldingsArePaid == Spec => []ReleasedIsPaid
<1>1. PaidInv => ReleasedIsPaid
  BY DEF PaidInv
<1> QED BY <1>1, PaidInit, PaidStep, PTL DEF Spec

-----------------------------------------------------------------------------
(* The contract's history of findings, as KeepsContract maps it.            *)
Found == [c \in Calls |-> {[op |-> op[c], order |-> o] : o \in target[c]}]
OwedTo == [o \in Orders |-> Owed(o)]

LEMMA CreationIsHold ==
  ASSUME PaidInv, NEW o \in Orders, NEW a \in Amounts, NEW k \in Commissions,
         NEW seller \in BOOLEAN, CreateHolding(o, a, k, seller)
  PROVE  Contract!Hold(o)
<1>1. Owed(o)' \in Nat
  BY EscrowAssumption DEF CreateHolding, PaidInv, TypeOK, Owed, SellerAmount
<1>2. \A p \in Orders : p # o => Owed(p)' = Owed(p)
  BY DEF CreateHolding, PaidInv, TypeOK, Owed, SellerAmount
<1>3. OwedTo' = [OwedTo EXCEPT ![o] = Owed(o)']
  BY <1>2 DEF OwedTo
<1>4. OwedTo'[o] = Owed(o)'
  BY DEF OwedTo
<1>5. UNCHANGED Found
  BY DEF CreateHolding, Found
<1> QED BY <1>1, <1>3, <1>4, <1>5 DEF CreateHolding, Contract!Hold, Found, OwedTo

LEMMA ReadIsFinding ==
  ASSUME PaidInv, NEW c \in Calls, NEW name \in {"release", "refund", "dispute"},
         NEW o \in Orders, op[c] = "none",
         Read(c, name, o, Contract!Accepts(name))
  PROVE  Contract!Find(c, name, o)
<1>1. Found[c] = {}
  BY DEF PaidInv, TypeOK, Found
<1>2. \A d \in Calls : op'[d] = (IF d = c THEN name ELSE op[d])
                       /\ target'[d] = (IF d = c THEN {o} ELSE target[d])
  BY DEF Read, PaidInv, TypeOK
<1>3. Found' = [Found EXCEPT ![c] = {[op |-> name, order |-> o]}]
  BY <1>2 DEF Found
<1>4. UNCHANGED OwedTo
  BY DEF Read, OwedTo, Owed, SellerAmount
<1> QED BY <1>1, <1>3, <1>4 DEF Read, Contract!Find, Found, OwedTo

(* An answer forgets what the call had found.                               *)
LEMMA AnswerForgets ==
  ASSUME PaidInv, NEW c \in Calls, Answer(c)
  PROVE  Found' = [Found EXCEPT ![c] = {}]
<1>1. \A d \in Calls : op'[d] = (IF d = c THEN "none" ELSE op[d])
                       /\ target'[d] = (IF d = c THEN {} ELSE target[d])
  BY DEF Answer, PaidInv, TypeOK
<1> QED BY <1>1 DEF Found

LEMMA AnswerIsGivingUp ==
  ASSUME PaidInv, NEW c \in Calls, Answer(c), UNCHANGED <<status, holding, credited>>
  PROVE  Contract!GiveUp(c)
<1>1. UNCHANGED OwedTo
  BY DEF OwedTo, Owed, SellerAmount
<1> QED BY <1>1, AnswerForgets DEF Contract!GiveUp, Found, OwedTo

(* A commit settles the one order the call had found.                       *)
LEMMA CommitSettles ==
  ASSUME PaidInv, NEW c \in Calls, Commit(c)
  PROVE  \E name \in {"release", "refund", "dispute"}, o \in Orders :
           Contract!Settle(c, name, o)
<1>1. PICK name \in {"release", "refund", "dispute"} :
        /\ Write(c, name, Contract!Leaves(name))
        /\ name = "release" => CommitRelease(c)
        /\ name # "release" => UNCHANGED credited
  BY DEF Commit, CommitRelease, CommitRefund, CommitDispute, Contract!Leaves
<1>2. PICK o \in target[c] : status' = [status EXCEPT ![o] = Contract!Leaves(name)]
  BY <1>1 DEF Write
<1>3. o \in Orders /\ target[c] = {o} /\ op[c] = name
  BY <1>1, <1>2 DEF PaidInv, TypeOK, TargetsExist, Write
<1>4. [op |-> name, order |-> o] \in Found[c]
  BY <1>3 DEF Found
<1>5. Found' = [Found EXCEPT ![c] = {}]
  BY <1>1, AnswerForgets DEF Write
<1>6. UNCHANGED OwedTo
  BY <1>1 DEF Write, OwedTo, Owed, SellerAmount
<1>7. credited' = [credited EXCEPT ![o] = IF name = "release" THEN @ + OwedTo[o] ELSE @]
  <2>1. CASE name = "release"
    BY <1>1, <1>3, <2>1 DEF CommitRelease, OwedTo, PaidInv, TypeOK
  <2>2. CASE name # "release"
    BY <1>1, <1>3, <2>2 DEF PaidInv, TypeOK
  <2> QED BY <2>1, <2>2
<1>8. Contract!Settle(c, name, o)
  BY <1>2, <1>4, <1>5, <1>6, <1>7 DEF Contract!Settle, Found, OwedTo
<1> QED BY <1>3, <1>8

LEMMA StepKeepsContract ==
  ASSUME PaidInv, [Next]_vars
  PROVE  [Contract!CNext]_(Contract!cvars)
<1>1. ASSUME NEW o \in Orders, NEW a \in Amounts, NEW k \in Commissions,
             NEW seller \in BOOLEAN, CreateHolding(o, a, k, seller)
      PROVE  Contract!CNext
  BY <1>1, CreationIsHold DEF Contract!CNext
<1>2. ASSUME NEW c \in Calls, Commit(c)
      PROVE  Contract!CNext
  BY <1>2, CommitSettles DEF Contract!CNext
<1>3. ASSUME NEW c \in Calls, NEW name \in {"release", "refund", "dispute"},
             NEW o \in Orders, op[c] = "none",
             Read(c, name, o, Contract!Accepts(name))
      PROVE  Contract!CNext
  BY <1>3, ReadIsFinding DEF Contract!CNext
<1>4. ASSUME NEW c \in Calls, WriteFails(c) \/ Crash(c)
      PROVE  Contract!CNext
  BY <1>4, AnswerIsGivingUp DEF WriteFails, Crash, Contract!CNext
<1>5. ASSUME UNCHANGED <<status, holding, credited, op, target>>
      PROVE  UNCHANGED Contract!cvars
  BY <1>5 DEF Contract!cvars, Owed, SellerAmount
<1>6. ASSUME NEW c \in Calls, NEW o \in Orders,
             \/ ReadForRelease(c, o) \/ ReadForRefund(c, o) \/ ReadForDispute(c, o)
             \/ NextInBatch(c, o)
      PROVE  [Contract!CNext]_(Contract!cvars)
  <2>1. op[c] = "none"
    BY <1>6 DEF ReadForRelease, ReadForRefund, ReadForDispute, NextInBatch, Free
  <2>2. CASE UNCHANGED <<status, holding, expired, credited, op, target>>
    BY <2>2, <1>5
  <2>3. CASE Read(c, "release", o, ReleaseAccepts)
    BY <2>1, <2>3, <1>3 DEF ReleaseAccepts, Contract!Accepts
  <2>4. CASE Read(c, "refund", o, RefundAccepts)
    BY <2>1, <2>4, <1>3 DEF RefundAccepts, Contract!Accepts
  <2>5. CASE Read(c, "dispute", o, {"holding"})
    BY <2>1, <2>5, <1>3 DEF Contract!Accepts
  <2> QED BY <1>6, <2>2, <2>3, <2>4, <2>5
          DEF ReadForRelease, ReadForRefund, ReadForDispute, NextInBatch
<1>7. ASSUME \/ UNCHANGED vars \/ \E o \in Orders : Elapse(o)
             \/ \E c \in Calls : StartAutoRelease(c)
      PROVE  UNCHANGED Contract!cvars
  BY <1>5, <1>7 DEF vars, Elapse, StartAutoRelease
<1> QED BY <1>1, <1>2, <1>4, <1>6, <1>7 DEF Next

(* However many calls run at the same time, fail or crash, escrow settles   *)
(* every order as its contract says: a change rests on the call's own       *)
(* finding, a release pays what is owed once, nothing else pays.            *)
THEOREM EscrowImplementsContract == Spec => KeepsContract
<1>1. Init => Contract!CInit
  <2> SUFFICES ASSUME Init PROVE Contract!CInit
    OBVIOUS
  <2>1. \A o \in Orders : Owed(o) = 0
    BY DEF Init, Owed
  <2>2. Found = [c \in Calls |-> {}] /\ OwedTo = [o \in Orders |-> 0]
    BY <2>1 DEF Init, Found, OwedTo
  <2> QED BY <2>2 DEF Init, Contract!CInit, Found, OwedTo
<1>2. PaidInv /\ [Next]_vars => [Contract!CNext]_(Contract!cvars)
  BY StepKeepsContract
<1> QED BY <1>1, <1>2, PaidInit, PaidStep, PTL DEF Spec, KeepsContract, Contract!CSpec
=============================================================================
