----------------------------- MODULE DianInvoice -----------------------------
(***************************************************************************)
(* Electronic invoices: the draft of an order's invoice with its number,   *)
(* its submission to DIAN through Alegra by a person or by the retry job,  *)
(* and the job's count of failures.  The orders are those of one tenant.   *)
(***************************************************************************)
EXTENDS Integers, FiniteSets

CONSTANTS
  Orders,      \* orders of the tenant
  None,
  Generators,  \* requests that generate an invoice at once
  Submitters,  \* requests that submit one, and runs of the job, at once
  BatchSize,   \* MAX_INVOICES_PER_RUN
  MaxRetries,  \* MAX_DIAN_RETRIES
  LastPadded,  \* 9999: the last number that padStart(4) makes as wide as the others
  MaxNumber,   \* bound: numbers given out
  MaxSubmits   \* bound: submissions a person asks for

ASSUME DianAssumption ==
  /\ BatchSize \in Nat \ {0} /\ MaxRetries \in Nat \ {0}
  /\ LastPadded \in Nat \ {0} /\ MaxNumber \in Nat /\ MaxSubmits \in Nat

VARIABLES
  number,    \* Invoice.invoiceNumber of each order, 0 before it has an invoice
  status,    \* Invoice.dianStatus
  retry,     \* Invoice.dianRetryCount
  older,     \* pairs of orders, the first with the earlier Invoice.updatedAt
  age,       \* how much of the backoff has passed since updatedAt
  draft,     \* what each generating request read
  together,  \* history: pairs of orders whose drafts were in progress at once
  todo,      \* the invoices each submitter still holds, with the count it read
  call,      \* submitToDian for the one it is at
  submits,   \* submissions asked for by a person
  accepted,  \* external: invoices that DIAN accepted, by order and number
  failures,  \* history: submissions by the job that failed, up to MaxRetries
  audited    \* orders with a submission_failed entry in the audit log

row   == <<number, status, retry, older, age>>
draw  == <<draft, together>>
vars  == <<number, status, retry, older, age, draft, together, todo, call, submits,
           accepted, failures, audited>>

Results  == {"accepted", "pending", "rejected"}
Answers  == Results \cup {"none"}
Statuses == Results \cup {"absent", "pending_submission", "failed"}
Steps    == {"asked", "made", "sent", "failed"}
Drafts   == [order : Orders, number : Nat \ {0}]
Items    == [order : Orders, count : Nat, job : BOOLEAN]
Calls    == [item : Items, step : Steps, number : Nat, result : Results]

ASSUME NoneAssumption == None \notin Drafts /\ None \notin Calls

TypeOK ==
  /\ number \in [Orders -> Nat]
  /\ status \in [Orders -> Statuses]
  /\ \A o \in Orders : status[o] = "absent" <=> number[o] = 0
  /\ retry \in [Orders -> Nat]
  /\ older \subseteq Orders \X Orders
  /\ age \in [Orders -> {"fresh", "old", "due"}]
  /\ draft \in [Generators -> Drafts \cup {None}]
  /\ \A s \in together : s \subseteq Orders
  /\ todo \in [Submitters -> SUBSET Items]
  /\ call \in [Submitters -> Calls \cup {None}]
  /\ submits \in Nat
  /\ accepted \subseteq Orders \X Nat
  /\ failures \in [Orders -> 0..MaxRetries]
  /\ audited \subseteq Orders

Init ==
  /\ number = [o \in Orders |-> 0]
  /\ status = [o \in Orders |-> "absent"]
  /\ retry = [o \in Orders |-> 0]
  /\ older = {}
  /\ age = [o \in Orders |-> "fresh"]
  /\ draft = [g \in Generators |-> None]
  /\ together = {}
  /\ todo = [w \in Submitters |-> {}]
  /\ call = [w \in Submitters |-> None]
  /\ submits = 0
  /\ accepted = {}
  /\ failures = [o \in Orders |-> 0]
  /\ audited = {}

-----------------------------------------------------------------------------
(* updatedAt: every update of the row sets it.                              *)
Touch(o) ==
  /\ older' = {s \in older : s[1] # o /\ s[2] # o}
                 \cup {<<p, o>> : p \in {q \in Orders \ {o} : number[q] # 0}}
  /\ age' = [age EXCEPT ![o] = "fresh"]

Pending == {o \in Orders : status[o] = "pending_submission"}

(* Five minutes pass, then the whole of the backoff.                        *)
Elapse(o) ==
  /\ o \in Pending /\ age[o] # "due"
  /\ age[o] = "fresh" => \A p \in Pending : <<p, o>> \in older => age[p] # "fresh"
  /\ age' = [age EXCEPT ![o] = IF @ = "fresh" THEN "old" ELSE "due"]
  /\ UNCHANGED <<number, status, retry, older, draw, todo, call, submits, accepted,
                 failures, audited>>

-----------------------------------------------------------------------------
(* Numbers are ordered as the text of the column: the five digits of 10000  *)
(* compare with the four of 1000.                                           *)
TextOrder(n) == IF n <= LastPadded THEN 20 * n ELSE 2 * n + 1

Used == {number[o] : o \in Orders} \ {0}

(* Mutant: the number of invoices, not the last number.                     *)
LastByCount == {Cardinality(Used)}

(* findFirst orderBy invoiceNumber desc.                                    *)
LastNumber ==
  IF Used = {} THEN {0}
  ELSE {n \in Used : \A m \in Used : TextOrder(m) <= TextOrder(n)}

(* The orders whose drafts are in progress while one is read for o.         *)
Beside(o) == {draft[g].order : g \in {h \in Generators : draft[h] # None}} \ {o}

ReadLast(g, o) ==
  /\ draft[g] = None
  /\ \E n \in LastNumber :
       /\ n < MaxNumber
       /\ draft' = [draft EXCEPT ![g] = [order |-> o, number |-> n + 1]]
  /\ together' = together \cup {{o, p} : p \in Beside(o)}
  /\ UNCHANGED <<row, todo, call, submits, accepted, failures, audited>>

(* The upsert by orderId: a second draft takes the place of the first,      *)
(* whatever became of it, and keeps its count of retries.                   *)
Upsert(g) ==
  /\ draft[g] # None
  /\ LET o == draft[g].order
     IN  /\ number' = [number EXCEPT ![o] = draft[g].number]
         /\ status' = [status EXCEPT ![o] = "pending_submission"]
         /\ Touch(o)
  /\ draft' = [draft EXCEPT ![g] = None]
  /\ UNCHANGED <<retry, together, todo, call, submits, accepted, failures, audited>>

(* The tenant has no NIT, or the request stops before the upsert.           *)
Abandon(g) ==
  /\ draft[g] # None
  /\ draft' = [draft EXCEPT ![g] = None]
  /\ UNCHANGED <<row, together, todo, call, submits, accepted, failures, audited>>

-----------------------------------------------------------------------------
Idle(w)    == todo[w] = {} /\ call[w] = None
At(w, s)   == call[w] # None /\ call[w].step = s
Current(w) == call[w].item.order

Return(w) == call' = [call EXCEPT ![w] = None] /\ UNCHANGED todo

(* A person submits an invoice: its status is not looked at.                *)
Submit(w, o) ==
  /\ Idle(w) /\ number[o] # 0 /\ submits < MaxSubmits
  /\ submits' = submits + 1
  /\ todo' = [todo EXCEPT ![w] = {[order |-> o, count |-> 0, job |-> FALSE]}]
  /\ UNCHANGED <<row, draw, call, accepted, failures, audited>>

(* findMany: the oldest, untouched for five minutes.                        *)
Candidates ==
  LET rested == {o \in Pending : age[o] # "fresh"}
  IN  {o \in rested : Cardinality({p \in rested : <<p, o>> \in older}) < BatchSize}

(* Mutant: only an invoice that has failed before is due.                   *)
DueAfterFailure(o) == age[o] = "due" /\ retry[o] > 0

(* dianBackoffMs: the first wait is the five minutes themselves.            *)
Due(o) == age[o] = "due" \/ (age[o] = "old" /\ retry[o] = 0)

Eligible == {[order |-> o, count |-> retry[o], job |-> TRUE] : o \in {c \in Candidates : Due(c)}}

StartRun(w) ==
  /\ Idle(w) /\ Eligible # {}
  /\ todo' = [todo EXCEPT ![w] = Eligible]
  /\ UNCHANGED <<row, draw, call, submits, accepted, failures, audited>>

-----------------------------------------------------------------------------
(* submitToDian: the row is read, with the number in its metadata.          *)
ReadInvoice(w, i) ==
  /\ call[w] = None /\ i \in todo[w]
  /\ todo' = [todo EXCEPT ![w] = @ \ {i}]
  /\ call' = [call EXCEPT ![w] = [item |-> i, step |-> "asked",
                                  number |-> number[i.order], result |-> "pending"]]
  /\ UNCHANGED <<row, draw, submits, accepted, failures, audited>>

Continue(w, s, n, r) ==
  /\ call' = [call EXCEPT ![w] = [item |-> call[w].item, step |-> s, number |-> n, result |-> r]]
  /\ UNCHANGED todo

(* Mutant: the answer's status, if any.                                     *)
StatusAsAnswered(a) == a

(* Mutant: an answer without a status is taken as accepted.                 *)
StatusByDefault(a) == IF a = "none" THEN "accepted" ELSE a

(* createInvoice: Alegra's answer may name no status.                       *)
AdapterStatus(a) == IF a = "none" THEN "pending" ELSE a

(* Alegra makes an invoice, whether it made one before or not, and DIAN     *)
(* accepts it, rejects it or has not answered yet.                          *)
Make(w, a) ==
  /\ At(w, "asked")
  /\ accepted' = IF a = "accepted"
                 THEN accepted \cup {<<Current(w), call[w].number>>} ELSE accepted
  /\ Continue(w, "made", 0, AdapterStatus(a))
  /\ UNCHANGED <<row, draw, submits, failures, audited>>

(* Alegra's status is written to the row, whatever the row says by now.     *)
Save(w) ==
  /\ At(w, "made")
  /\ status' = [status EXCEPT ![Current(w)] = call[w].result]
  /\ Touch(Current(w))
  /\ Continue(w, "sent", 0, "pending")
  /\ UNCHANGED <<number, retry, draw, submits, accepted, failures, audited>>

(* Not configured, refused, or no answer within 15 seconds, Alegra having   *)
(* made the invoice or not.  The error is written if it can be.             *)
Fail(w, written) ==
  /\ At(w, "asked") \/ At(w, "made")
  /\ Continue(w, "failed", 0, "pending")
  /\ IF written THEN Touch(Current(w)) ELSE UNCHANGED <<older, age>>
  /\ failures' = IF call[w].item.job /\ failures[Current(w)] < MaxRetries
                 THEN [failures EXCEPT ![Current(w)] = @ + 1] ELSE failures
  /\ UNCHANGED <<number, status, retry, draw, submits, accepted, audited>>

(* The person's request ends with the submission.                           *)
Reply(w) ==
  /\ At(w, "sent") \/ At(w, "failed")
  /\ ~call[w].item.job
  /\ Return(w)
  /\ UNCHANGED <<row, draw, submits, accepted, failures, audited>>

(* The job writes the count from the one its query read.                    *)
ResetCount(w) ==
  /\ At(w, "sent") /\ call[w].item.job
  /\ retry' = [retry EXCEPT ![Current(w)] = 0]
  /\ Touch(Current(w))
  /\ Return(w)
  /\ UNCHANGED <<number, status, draw, submits, accepted, failures, audited>>

(* Mutant: one attempt too early.                                           *)
OneTooEarly(count) == count + 2 >= MaxRetries

Exhausted(count) == count + 1 >= MaxRetries

CountFailure(w) ==
  /\ At(w, "failed") /\ call[w].item.job
  /\ retry' = [retry EXCEPT ![Current(w)] = call[w].item.count + 1]
  /\ IF Exhausted(call[w].item.count)
     THEN /\ status' = [status EXCEPT ![Current(w)] = "failed"]
          /\ audited' = audited \cup {Current(w)}
     ELSE UNCHANGED <<status, audited>>
  /\ Touch(Current(w))
  /\ Return(w)
  /\ UNCHANGED <<number, draw, submits, accepted, failures>>

(* The database throws: the job goes on with the next invoice.              *)
Throw(w) ==
  /\ call[w] # None
  /\ Return(w)
  /\ UNCHANGED <<row, draw, submits, accepted, failures, audited>>

(* The instance stops.                                                      *)
Restart(w) ==
  /\ ~Idle(w)
  /\ todo' = [todo EXCEPT ![w] = {}]
  /\ call' = [call EXCEPT ![w] = None]
  /\ UNCHANGED <<row, draw, submits, accepted, failures, audited>>

Proceed(w) ==
  \/ Save(w) \/ Reply(w) \/ ResetCount(w) \/ CountFailure(w)
  \/ \E a \in Answers : Make(w, a)
  \/ \E written \in BOOLEAN : Fail(w, written)

Next ==
  \/ \E o \in Orders : Elapse(o)
  \/ \E g \in Generators : Upsert(g) \/ Abandon(g) \/ \E o \in Orders : ReadLast(g, o)
  \/ \E w \in Submitters :
       \/ StartRun(w) \/ Proceed(w) \/ Throw(w) \/ Restart(w)
       \/ \E i \in todo[w] : ReadInvoice(w, i)
       \/ \E o \in Orders : Submit(w, o)

Spec == Init /\ [][Next]_vars

(* Time passes and the timer starts runs, for ever.  Runs that are cut short*)
(* again and again are not always cut short in the same step of the same    *)
(* invoice.                                                                 *)
Fairness ==
  /\ \A o \in Orders : WF_vars(Elapse(o))
  /\ \A w \in Submitters : WF_vars(StartRun(w))
  /\ \A w \in Submitters, o \in Orders :
       /\ SF_vars(\E i \in todo[w] : i.order = o /\ ReadInvoice(w, i))
       /\ \A s \in Steps : SF_vars(At(w, s) /\ Current(w) = o /\ Proceed(w))

FairSpec == Spec /\ Fairness

-----------------------------------------------------------------------------
(* DIAN's numbering: two orders share a number only when it was drawn for   *)
(* both at once, or is wider than padStart keeps in order, however often    *)
(* their invoices are generated again (dian-invoicing.ts:157-166).          *)
NumbersDiffer ==
  \A o, p \in Orders : o # p /\ number[o] = number[p] =>
    number[o] \notin 1..LastPadded \/ {o, p} \in together

(* An invoice said to be accepted stands for one that DIAN accepted for the *)
(* order, whichever of the concurrent submissions wrote it.                 *)
AcceptedByDian ==
  \A o \in Orders : status[o] = "accepted" => \E s \in accepted : s[1] = o

(* "Max 5 retries per invoice": it is given up only after that many         *)
(* submissions failed since the order's first draft (a success in between   *)
(* takes none back), and with an entry for a person to follow, although runs*)
(* on several instances write their counts over each other.                 *)
GivenUpWhenTried ==
  \A o \in Orders :
    status[o] = "failed" => failures[o] >= MaxRetries /\ o \in audited

(* An invoice does not stay pending_submission for ever                     *)
(* (dian-invoicing.ts:489-492): it is submitted or given up.                *)
PendingIsSettled ==
  \A o \in Orders :
    status[o] = "pending_submission" ~> status[o] # "pending_submission"

(* The same for an invoice that DIAN had not decided when Alegra answered:  *)
(* "checkStatus() can be called later to poll" (dian-alegra.ts:27).         *)
UndecidedIsSettled == \A o \in Orders : status[o] = "pending" ~> status[o] # "pending"

(* DIAN accepts one invoice of an order.                                    *)
OneInvoice == \A s, t \in accepted : s[1] = t[1] => s = t

(* The number of an accepted invoice is one that DIAN accepted.             *)
AcceptedNumber ==
  \A o \in Orders : status[o] = "accepted" => <<o, number[o]>> \in accepted

(* "re-generating the same order's invoice returns the same CUFE"           *)
(* (dian-invoicing.ts:263-264): an invoice keeps its number.                *)
SameInvoice == [][\A o \in Orders : number[o] # 0 => number'[o] = number[o]]_vars

(* An accepted invoice stays accepted.                                      *)
AcceptedStays ==
  [][\A o \in Orders : status[o] = "accepted" => status'[o] = "accepted"]_vars
=============================================================================
