------------------------------- MODULE Escrow -------------------------------
(***************************************************************************)
(* Marketplace escrow: escrow.service.ts and the escrow-auto-release job.  *)
(* Every operation reads the holding, decides on its status and then       *)
(* writes it by orderId alone; the release writes the holding, the seller's*)
(* wallet and the ledger row in one transaction.  Calls run concurrently:  *)
(* the queue worker takes several jobs at once and every instance has its  *)
(* own timers.                                                             *)
(***************************************************************************)
EXTENDS Integers, FiniteSets

CONSTANTS
  Orders,
  Calls,       \* service calls that may be running at the same time
  Amounts,     \* amounts a holding may have
  Commissions, \* platform commissions
  BatchSize    \* "take": how many expired holdings one job handles (50)

ASSUME EscrowAssumption ==
  /\ Amounts \subseteq Nat /\ Commissions \subseteq Nat
  /\ \A a \in Amounts, k \in Commissions : k <= a
  /\ BatchSize \in Nat \ {0}

VARIABLES
  status,    \* EscrowHolding.status by order
  holding,   \* the other columns: amount, commission, whether it has a seller
  expired,   \* autoReleaseAt has passed
  credited,  \* history: wallet credits posted for the order
  op,        \* what each call is about to write: release, refund, dispute
  target,    \* the holding each call has read and found in the right status
  batch      \* orders an escrow-auto-release job has still to handle

vars == <<status, holding, expired, credited, op, target, batch>>

Statuses == {"absent", "holding", "released", "refunded", "disputed"}
Ops == {"none", "release", "refund", "dispute"}

TypeOK ==
  /\ status \in [Orders -> Statuses]
  /\ holding \in [Orders -> [amount: Nat, commission: Nat, seller: BOOLEAN]]
  /\ expired \in [Orders -> BOOLEAN]
  /\ credited \in [Orders -> Nat]
  /\ op \in [Calls -> Ops]
  /\ target \in [Calls -> SUBSET Orders]
  /\ batch \in [Calls -> SUBSET Orders]
  /\ \A c \in Calls : op[c] = "none" <=> target[c] = {}

Init ==
  /\ status = [o \in Orders |-> "absent"]
  /\ holding = [o \in Orders |-> [amount |-> 0, commission |-> 0, seller |-> FALSE]]
  /\ expired = [o \in Orders |-> FALSE]
  /\ credited = [o \in Orders |-> 0]
  /\ op = [c \in Calls |-> "none"]
  /\ target = [c \in Calls |-> {}]
  /\ batch = [c \in Calls |-> {}]

SellerAmount(o) == holding[o].amount - holding[o].commission

(* What a release credits: nothing without a seller or a positive amount.   *)
Owed(o) == IF holding[o].seller /\ SellerAmount(o) > 0 THEN SellerAmount(o) ELSE 0

-----------------------------------------------------------------------------
(* createHolding; orderId is unique.                                        *)
CreateHolding(o, amount, commission, seller) ==
  /\ status[o] = "absent"
  /\ status' = [status EXCEPT ![o] = "holding"]
  /\ holding' = [holding EXCEPT ![o] =
       [amount |-> amount, commission |-> commission, seller |-> seller]]
  /\ UNCHANGED <<expired, credited, op, target, batch>>

(* Seven days pass.                                                         *)
Elapse(o) ==
  /\ status[o] # "absent"
  /\ expired' = [expired EXCEPT ![o] = TRUE]
  /\ UNCHANGED <<status, holding, credited, op, target, batch>>

-----------------------------------------------------------------------------
Free(c) == op[c] = "none" /\ batch[c] = {}

(* An operation's findUnique and its status check.  A holding in another    *)
(* status is answered with success: false and nothing is written.           *)
Read(c, name, o, accepted) ==
  /\ status[o] \in accepted
  /\ op' = [op EXCEPT ![c] = name]
  /\ target' = [target EXCEPT ![c] = {o}]
  /\ UNCHANGED <<status, holding, expired, credited>>

ReleaseAccepts == {"holding"}
RefundAccepts == {"holding", "disputed"}

(* Mutant: release forgets to look at the status.                           *)
ReleaseUnchecked(c, o) ==
  Free(c) /\ Read(c, "release", o, Statuses \ {"absent"}) /\ UNCHANGED batch

ReadForRelease(c, o) ==
  Free(c) /\ Read(c, "release", o, ReleaseAccepts) /\ UNCHANGED batch

ReadForRefund(c, o) ==
  Free(c) /\ Read(c, "refund", o, RefundAccepts) /\ UNCHANGED batch

ReadForDispute(c, o) ==
  Free(c) /\ Read(c, "dispute", o, {"holding"}) /\ UNCHANGED batch

(* Mutant: the job's query compares autoReleaseAt the wrong way round.      *)
DueTooEarly == {o \in Orders : status[o] = "holding" /\ ~expired[o]}

(* The job's findMany: at most BatchSize expired holdings, in no order.     *)
Due == {o \in Orders : status[o] = "holding" /\ expired[o]}

StartAutoRelease(c) ==
  /\ Free(c)
  /\ \E picked \in SUBSET Due :
       /\ picked # {}
       /\ Cardinality(picked) <= BatchSize
       /\ picked = Due \/ Cardinality(picked) = BatchSize
       /\ batch' = [batch EXCEPT ![c] = picked]
  /\ UNCHANGED <<status, holding, expired, credited, op, target>>

(* The job's loop calls release on the next holding; one that is no longer  *)
(* holding counts as an error and the loop goes on.                         *)
NextInBatch(c, o) ==
  /\ op[c] = "none" /\ o \in batch[c]
  /\ batch' = [batch EXCEPT ![c] = @ \ {o}]
  /\ \/ Read(c, "release", o, ReleaseAccepts)
     \/ /\ status[o] \notin ReleaseAccepts
        /\ UNCHANGED <<status, holding, expired, credited, op, target>>

-----------------------------------------------------------------------------
Answer(c) ==
  /\ op' = [op EXCEPT ![c] = "none"]
  /\ target' = [target EXCEPT ![c] = {}]

(* The update by orderId, whatever the status has become meanwhile.         *)
Write(c, name, to) ==
  /\ op[c] = name
  /\ \E o \in target[c] : status' = [status EXCEPT ![o] = to]
  /\ Answer(c)
  /\ UNCHANGED <<holding, expired, batch>>

(* Mutant: the holding is released and the wallet credit is forgotten.      *)
ReleaseWithoutCredit(c) == Write(c, "release", "released") /\ UNCHANGED credited

(* Mutant: release writes "completed", which is no status of a holding.     *)
ReleaseAsCompleted(c) == Write(c, "release", "completed") /\ UNCHANGED credited

(* The release transaction: status, wallet increment and ledger row commit  *)
(* together.                                                                *)
CommitRelease(c) ==
  /\ Write(c, "release", "released")
  /\ credited' = [o \in Orders |->
       IF o \in target[c] THEN credited[o] + Owed(o) ELSE credited[o]]

CommitRefund(c) == Write(c, "refund", "refunded") /\ UNCHANGED credited

CommitDispute(c) == Write(c, "dispute", "disputed") /\ UNCHANGED credited

(* The write throws and rolls back; the call answers success: false, and a  *)
(* job goes on with the rest of its batch.                                  *)
WriteFails(c) ==
  /\ op[c] # "none"
  /\ Answer(c)
  /\ UNCHANGED <<status, holding, expired, credited, batch>>

(* The process stops; what had not been written is lost.                    *)
Crash(c) ==
  /\ ~Free(c)
  /\ Answer(c)
  /\ batch' = [batch EXCEPT ![c] = {}]
  /\ UNCHANGED <<status, holding, expired, credited>>

Commit(c) == CommitRelease(c) \/ CommitRefund(c) \/ CommitDispute(c)

Next ==
  \/ \E o \in Orders :
       \/ \E a \in Amounts, k \in Commissions, seller \in BOOLEAN :
            CreateHolding(o, a, k, seller)
       \/ Elapse(o)
  \/ \E c \in Calls :
       \/ \E o \in Orders :
            \/ ReadForRelease(c, o) \/ ReadForRefund(c, o) \/ ReadForDispute(c, o)
            \/ NextInBatch(c, o)
       \/ StartAutoRelease(c)
       \/ Commit(c) \/ WriteFails(c) \/ Crash(c)

Spec == Init /\ [][Next]_vars

(* The timer enqueues the job again and again and the worker runs it, and   *)
(* neither it nor its loop is shut out for ever by other calls (SF).  A     *)
(* call that has read ends (WF), and a release tried again and again is     *)
(* written in the end (SF).  That people call anything is not assumed.      *)
Fairness ==
  \A c \in Calls :
    /\ SF_vars(StartAutoRelease(c))
    /\ \A o \in Orders : SF_vars(NextInBatch(c, o))
    /\ WF_vars(Commit(c) \/ WriteFails(c))
    /\ SF_vars(CommitRelease(c))

FairSpec == Spec /\ Fairness

-----------------------------------------------------------------------------
(* A holding recorded as released has paid its seller: the status and the   *)
(* wallet credit are one transaction (escrow.service.ts:113), whatever else *)
(* runs.                                                                    *)
ReleasedIsPaid ==
  \A o \in Orders :
    status[o] = "released" /\ holding[o].seller => credited[o] >= SellerAmount(o)

(* cron-scheduler.ts:141 says the handlers "are idempotent and safe to run  *)
(* concurrently": an order's seller is paid at most once.  Violated.        *)
PaidAtMostOnce == \A o \in Orders : credited[o] <= SellerAmount(o)

(* A disputed escrow "está retenido hasta resolución manual": no step       *)
(* releases it (alert sent by openDispute, escrow.service.ts:243).          *)
DisputeHolds ==
  [][\A o \in Orders : status[o] = "disputed" => status'[o] # "released"]_vars

(* release "Credits the seller's wallet + platform commission wallet"       *)
(* (escrow.service.ts:91): what is credited for a released order is all     *)
(* that was held.                                                           *)
ReleaseDistributesAll ==
  \A o \in Orders :
    status[o] = "released" /\ holding[o].seller => credited[o] >= holding[o].amount

(* A call has found a holding fit for what it is about to write.            *)
Contract == INSTANCE EscrowContract WITH
  owed <- [o \in Orders |-> Owed(o)],
  found <- [c \in Calls |-> {[op |-> op[c], order |-> o] : o \in target[c]}]

(* However many calls race, a holding changes only by a call that found it  *)
(* in a status that allows the change, each such release pays what is owed  *)
(* once, and nothing else pays: after a refund, a release or a dispute only *)
(* a release that had read the holding before it can still pay.             *)
KeepsContract == Contract!CSpec

(* An expired holding does not stay held: the job releases it unless it was *)
(* refunded or disputed first, through failed writes and restarts.          *)
ExpiredIsSettled ==
  \A o \in Orders : (status[o] = "holding" /\ expired[o]) ~> status[o] # "holding"
=============================================================================
