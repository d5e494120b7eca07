---------------------------- MODULE RefundRetry ----------------------------
(***************************************************************************)
(* The refund-retry job: every five minutes it takes the oldest            *)
(* refund_failed events, finds each one's order in the text of its note and*)
(* asks the gateway again.  Each instance of the application runs its own. *)
(***************************************************************************)
EXTENDS Integers, Sequences, FiniteSets

CONSTANTS
  Events,      \* refund_failed events, numbered as they are created
  Jobs,        \* job runs in progress at once
  BatchSize,   \* take: 10
  GiveUpAt,    \* retryCount >= 5
  MaxFailures  \* bound: failures counted

ASSUME RetryAssumption ==
  /\ Events \subseteq Nat
  /\ BatchSize \in Nat \ {0} /\ GiveUpAt \in Nat \ {0} /\ MaxFailures \in Nat

VARIABLES
  type,      \* OrderEvent.type
  note,      \* what the job reads in OrderEvent.note
  old,       \* created more than five minutes ago
  todo,      \* the events each run still holds, with the note it read
  answer,    \* what the gateway answered for the first of them
  paid,      \* the gateway has refunded the event's order
  failures,  \* history: retries that failed
  alerted    \* events given up with an alert

retryVars == <<type, note, old, todo, answer, paid, failures, alerted>>

Types   == {"absent", "refund_failed", "refunded", "refund_error"}
Answers == {"none", "accepted", "refused"}

(* order: the note names the order; retry: the number of its first mark     *)
(* "retry:n", 0 if it has none.                                             *)
Notes == [order: BOOLEAN, retry: 0..GiveUpAt]
Items == [event: Events, note: Notes]

RetryTypeOK ==
  /\ type \in [Events -> Types]
  /\ note \in [Events -> Notes]
  /\ old \subseteq Events
  /\ todo \in [Jobs -> Seq(Items)] /\ \A j \in Jobs : Len(todo[j]) <= BatchSize
  /\ answer \in [Jobs -> Answers]
  /\ paid \subseteq Events /\ alerted \subseteq Events
  /\ failures \in [Events -> 0..MaxFailures]

RetryInit ==
  /\ type = [e \in Events |-> "absent"]
  /\ note = [e \in Events |-> [order |-> FALSE, retry |-> 0]]
  /\ old = {}
  /\ todo = [j \in Jobs |-> <<>>]
  /\ answer = [j \in Jobs |-> "none"]
  /\ paid = {} /\ alerted = {}
  /\ failures = [e \in Events |-> 0]

(* The refund route or a retracto writes the event.  The order is in its    *)
(* orderId; the note names it only if the gateway's message or the          *)
(* operator's text happens to.                                              *)
WriteFailure(e, named) ==
  /\ type[e] = "absent"
  /\ \A d \in Events : d < e => type[d] # "absent"
  /\ type' = [type EXCEPT ![e] = "refund_failed"]
  /\ note' = [note EXCEPT ![e] = [order |-> named, retry |-> 0]]
  /\ UNCHANGED <<old, todo, answer, paid, failures, alerted>>

Age(e) ==
  /\ type[e] # "absent" /\ e \notin old
  /\ old' = old \cup {e}
  /\ UNCHANGED <<type, note, todo, answer, paid, failures, alerted>>

(* Mutant: the events of the last five minutes are taken, not the others.   *)
DueRecent == {e \in Events \ old : type[e] = "refund_failed"}

Due == {e \in old : type[e] = "refund_failed"}

(* findMany: the oldest of them, in the order of their creation; fewer than *)
(* BatchSize only if there are no more.                                     *)
Oldest(n) ==
  {batch \in [1..n -> Due] :
     /\ \A i, k \in 1..n : i < k => batch[i] < batch[k]
     /\ \A i \in 1..n : \A d \in Due : d < batch[i] => \E k \in 1..n : batch[k] = d
     /\ n = BatchSize \/ \A d \in Due : \E i \in 1..n : batch[i] = d}

Read(n, batch) == [i \in 1..n |-> [event |-> batch[i], note |-> note[batch[i]]]]

StartRun(j) ==
  /\ todo[j] = <<>>
  /\ \E n \in 1..BatchSize : \E batch \in Oldest(n) :
       todo' = [todo EXCEPT ![j] = Read(n, batch)]
  /\ UNCHANGED <<type, note, old, answer, paid, failures, alerted>>

Current(j) == Head(todo[j])

NextEvent(j) ==
  /\ todo' = [todo EXCEPT ![j] = Tail(@)]
  /\ answer' = [answer EXCEPT ![j] = "none"]

(* No order in the note: continue.                                          *)
Skip(j) ==
  /\ todo[j] # <<>> /\ ~Current(j).note.order
  /\ NextEvent(j)
  /\ UNCHANGED <<type, note, old, paid, failures, alerted>>

(* adapter.refund(order.total): once the gateway has given the order's      *)
(* money back it refuses to do so again.                                    *)
Asking(j) == todo[j] # <<>> /\ Current(j).note.order /\ answer[j] = "none"

RetryAccepted(j) ==
  /\ Asking(j) /\ Current(j).event \notin paid
  /\ answer' = [answer EXCEPT ![j] = "accepted"]
  /\ paid' = paid \cup {Current(j).event}
  /\ UNCHANGED <<type, note, old, todo, failures, alerted>>

RetryRefused(j) ==
  /\ Asking(j)
  /\ answer' = [answer EXCEPT ![j] = "refused"]
  /\ UNCHANGED <<type, note, old, todo, paid, failures, alerted>>

(* Mutant: any answer is a success.                                         *)
SuccessOrAnswer(j) == answer[j] # "none"

Success(j) == answer[j] = "accepted"

(* Mutant: the type that a retracto's own refund is given.                  *)
DoneAsRetracto == "refund_processed"

Done == "refunded"

(* The event becomes the record of the refund; its note is replaced.        *)
MarkEvent(j) ==
  /\ Success(j)
  /\ type' = [type EXCEPT ![Current(j).event] = Done]
  /\ note' = [note EXCEPT ![Current(j).event] = [order |-> FALSE, retry |-> 0]]
  /\ NextEvent(j)
  /\ UNCHANGED <<old, paid, failures, alerted>>

(* note.match finds the first mark, and the new one is appended.            *)
RetryCount(j) == Current(j).note.retry + 1
FirstMark(j)  == IF Current(j).note.retry = 0 THEN RetryCount(j) ELSE Current(j).note.retry

(* The count is written first, then the alert is sent and the event given   *)
(* up in a second write that may fail (another run may look in between: it  *)
(* sees what a failed second write leaves).  For the code's limit of 5 none *)
(* of this happens: see AlertAfterFailures.                                 *)
CountFailure(j) ==
  /\ answer[j] = "refused" /\ ~Success(j)
  /\ LET e == Current(j).event
         exhausted == RetryCount(j) >= GiveUpAt
     IN  \E givenUp \in {exhausted, FALSE} :
         /\ type' = [type EXCEPT ![e] = IF givenUp THEN "refund_error" ELSE @]
         /\ note' = [note EXCEPT ![e] =
              [order |-> ~givenUp, retry |-> IF givenUp THEN 0 ELSE FirstMark(j)]]
         /\ alerted' = IF exhausted THEN alerted \cup {e} ELSE alerted
         /\ failures' = [failures EXCEPT ![e] = IF @ < MaxFailures THEN @ + 1 ELSE @]
  /\ NextEvent(j)
  /\ UNCHANGED <<old, paid>>

(* The gateway's call or a write throws, whatever it did: the run goes on   *)
(* with the next event.                                                     *)
Throw(j) ==
  /\ todo[j] # <<>>
  /\ NextEvent(j)
  /\ UNCHANGED <<type, note, old, paid, failures, alerted>>

(* The instance restarts in the middle of a run.                            *)
Restart(j) ==
  /\ todo[j] # <<>>
  /\ todo' = [todo EXCEPT ![j] = <<>>]
  /\ answer' = [answer EXCEPT ![j] = "none"]
  /\ UNCHANGED <<type, note, old, paid, failures, alerted>>

Run(j) == Skip(j) \/ MarkEvent(j) \/ CountFailure(j)

RetryNext ==
  \/ \E e \in Events : Age(e) \/ \E named \in BOOLEAN : WriteFailure(e, named)
  \/ \E j \in Jobs : \/ StartRun(j) \/ Run(j) \/ Throw(j) \/ Restart(j)
                     \/ RetryAccepted(j) \/ RetryRefused(j)

RetrySpec == RetryInit /\ [][RetryNext]_retryVars

(* Time passes and the interval starts a run on every instance, for ever    *)
(* (cron-scheduler.ts:102-120).  Runs are not cut short at the same place   *)
(* for ever, and a gateway asked again and again accepts.                   *)
At(j, e) == todo[j] # <<>> /\ Current(j).event = e

Fairness ==
  /\ \A e \in Events : WF_retryVars(Age(e))
  /\ \A j \in Jobs : WF_retryVars(StartRun(j))
  /\ \A j \in Jobs, e \in Events :
       /\ SF_retryVars(At(j, e) /\ Run(j))
       /\ SF_retryVars(At(j, e) /\ RetryAccepted(j))
       /\ SF_retryVars(At(j, e) /\ (RetryAccepted(j) \/ RetryRefused(j)))

RetryFairSpec == RetrySpec /\ Fairness

-----------------------------------------------------------------------------
(* An event that says refunded stands for money the gateway gave back, even *)
(* when two runs hold the same event.                                       *)
RefundedWasPaid == \A e \in Events : type[e] = "refunded" => e \in paid

(* Older events that never leave the front of the batch: the note names no  *)
(* order, or the gateway refunded it and the success was not written.       *)
Stuck(e) == {d \in Events : /\ d < e /\ type[d] = "refund_failed"
                            /\ ~note[d].order \/ d \in paid}

(* "retries the refund" (cron-scheduler.ts:100-101), as far as it goes: the *)
(* order of an event whose note names it is refunded in the end, unless a   *)
(* whole batch of older events is stuck in front of it.                     *)
NamedIsRefunded ==
  \A e \in Events :
    (type[e] = "refund_failed" /\ note[e].order) ~>
      (e \in paid \/ Cardinality(Stuck(e)) >= BatchSize)

(* The same for every event.                                                *)
EveryFailureIsRefunded ==
  \A e \in Events : (type[e] = "refund_failed") ~> (e \in paid \cup alerted)

(* "Fires alert after 5 failures" (cron-scheduler.ts:101).                  *)
AlertAfterFailures ==
  \A e \in Events : failures[e] >= GiveUpAt => e \in alerted
=============================================================================
