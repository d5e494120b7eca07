--------------------------- MODULE EscrowContract ---------------------------
(***************************************************************************)
(* What escrow promises for an order however many calls run at once: the   *)
(* holding changes only by a call that itself found it in a status that    *)
(* allows the change; a release pays the seller what is owed, once for the *)
(* finding it rests on; nothing else pays.  No status returns to holding,  *)
(* so once an order is settled or disputed only releases that had found it *)
(* held before can still pay.  The flow at the head of escrow.service.ts   *)
(* and the status comments of EscrowHolding in prisma/schema.prisma.       *)
(***************************************************************************)
EXTENDS Naturals

CONSTANTS Orders, Calls

VARIABLES status,   \* status of each order's holding
          owed,     \* what a release of it owes its seller
          credited, \* what the seller has received for it
          found     \* the change each call may make: it found the order fit

cvars == <<status, owed, credited, found>>

(* The statuses each operation accepts and the one it leaves.               *)
Accepts(op) == IF op = "refund" THEN {"holding", "disputed"} ELSE {"holding"}

Leaves(op) ==
  CASE op = "release" -> "released"
    [] op = "refund"  -> "refunded"
    [] op = "dispute" -> "disputed"

CInit == /\ status = [o \in Orders |-> "absent"]
         /\ owed = [o \in Orders |-> 0]
         /\ credited = [o \in Orders |-> 0]
         /\ found = [c \in Calls |-> {}]

Hold(o) ==
  /\ status[o] = "absent"
  /\ status' = [status EXCEPT ![o] = "holding"]
  /\ owed'[o] \in Nat
  /\ owed' = [owed EXCEPT ![o] = owed'[o]]
  /\ UNCHANGED <<credited, found>>

Find(c, op, o) ==
  /\ found[c] = {}
  /\ status[o] \in Accepts(op)
  /\ found' = [found EXCEPT ![c] = {[op |-> op, order |-> o]}]
  /\ UNCHANGED <<status, owed, credited>>

GiveUp(c) ==
  /\ found' = [found EXCEPT ![c] = {}]
  /\ UNCHANGED <<status, owed, credited>>

Settle(c, op, o) ==
  /\ [op |-> op, order |-> o] \in found[c]
  /\ found' = [found EXCEPT ![c] = {}]
  /\ status' = [status EXCEPT ![o] = Leaves(op)]
  /\ credited' = [credited EXCEPT ![o] = IF op = "release" THEN @ + owed[o] ELSE @]
  /\ UNCHANGED owed

CNext ==
  \/ \E o \in Orders : Hold(o)
  \/ \E c \in Calls :
       \/ GiveUp(c)
       \/ \E op \in {"release", "refund", "dispute"}, o \in Orders :
            Find(c, op, o) \/ Settle(c, op, o)

CSpec == CInit /\ [][CNext]_cvars
=============================================================================
