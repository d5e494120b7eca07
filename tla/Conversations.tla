---------------------------- MODULE Conversations ----------------------------
(***************************************************************************)
(* The WhatsApp webhook for the messages of one customer: the dedup of     *)
(* deliveries, the customer and the open conversation found or created,    *)
(* the keywords that grant and revoke the consent to marketing, and the    *)
(* takeover by a person; with the people who pause, resume, close and open *)
(* conversations and keep consents, and the request that schedules a       *)
(* promotion.  Unread counts, times and wording are left out, and so are   *)
(* HELP, which only replies, and RETRACTO, which calls what Refunds models *)
(* and goes on as a text.                                                  *)
(***************************************************************************)
EXTENDS Integers, Sequences

CONSTANTS
  Instances,        \* processes that receive the webhook
  Handlers,         \* deliveries handled at once
  Last,             \* bound: messages of the customer, numbered as written
  MaxCustomers,     \* bound: rows of the customer
  MaxConversations, \* bound: conversations of the customer
  MaxRecords        \* bound: ConsentRecord rows for marketing

ASSUME ConversationsAssumption ==
  /\ Last \in Nat /\ MaxCustomers \in Nat \ {0} /\ MaxConversations \in Nat
  /\ MaxRecords \in Nat

Messages == 1..Last
Kinds == {"text", "opt_in", "opt_out"}
Customers == 1..MaxCustomers
Convs == 1..MaxConversations
Records == 1..MaxRecords

VARIABLES
  kind,      \* the messages written so far: what each of them is, in order
  seen,      \* processedWebhooks of each instance
  audited,   \* messages with a webhook.wa.inbound row
  rows,      \* inbound Message rows of each message
  customers, \* Customer rows with this phone
  status, enabled,  \* Conversation rows: status ("none": no row) and botEnabled
  subject, granted, \* ConsentRecord rows: the customer (0: no row) and granted
  at,        \* the step each handler is at
  on, msg,   \* the instance it runs on and the message it handles
  who,       \* the customer it found, 0 before
  where, bot, \* the conversation it found, 0 before, and botEnabled as it was then
  record,    \* the ConsentRecord it found, 0 if none
  asks, asked, \* a promotion on its way, and the customer found for it, 0 before
  despite,   \* history: the customer's opt-out was in force then, and still is
  stopped,   \* history: of each customer row the opt-out in force, with the opt-ins
             \* it came after and that are remembered as handled; {} if none
  takeover,  \* history: the only open conversation, if a person has paused it, else 0
  early      \* history: handlers that had looked for the conversation before that

conv == <<status, enabled>>
consent == <<subject, granted>>
promo == <<asks, asked, despite>>
job == <<on, msg>>
found == <<who, where, bot, record>>
handler == <<at, job, found, early>>
inbox == <<seen, audited, rows, customers>>
people == <<promo, stopped, takeover>>
vars == <<kind, inbox, conv, consent, handler, people>>

sent == Len(kind)

Steps == {"free", "dedup", "audit", "known", "customer", "new_customer", "conversation",
          "new_conversation", "keyword", "grant", "persist", "bump"}

(* The steps at which the handler knows its customer, and its conversation: *)
(* only then does the catch block escalate.                                 *)
WithConversation == {"keyword", "grant", "persist", "bump"}
WithCustomer == WithConversation \cup {"conversation", "new_conversation"}
Looked == WithConversation \cup {"new_conversation"}

HandlerOK(h) ==
  /\ at[h] # "free" => on[h] \in Instances /\ msg[h] \in 1..sent
  /\ at[h] \in WithCustomer => who[h] \in 1..customers
  /\ at[h] \in WithConversation => where[h] \in Convs /\ status[where[h]] # "none"
  /\ record[h] # 0 => at[h] = "grant" /\ subject[record[h]] = who[h]

(* The types; a handler past a step has what the step found.  [route.ts]    *)
TypeOK ==
  /\ kind \in Seq(Kinds) /\ sent <= Last
  /\ seen \in [Instances -> SUBSET (1..sent)]
  /\ audited \subseteq 1..sent
  /\ rows \in [Messages -> Nat]
  /\ customers \in 0..MaxCustomers
  /\ status \in [Convs -> {"none", "open", "closed"}] /\ enabled \in [Convs -> BOOLEAN]
  /\ subject \in [Records -> 0..MaxCustomers] /\ granted \in [Records -> BOOLEAN]
  /\ at \in [Handlers -> Steps]
  /\ on \in [Handlers -> Instances \cup {"none"}] /\ msg \in [Handlers -> 0..Last]
  /\ who \in [Handlers -> 0..MaxCustomers]
  /\ where \in [Handlers -> 0..MaxConversations] /\ bot \in [Handlers -> BOOLEAN]
  /\ record \in [Handlers -> 0..MaxRecords]
  /\ early \subseteq Handlers
  /\ \A h \in Handlers : HandlerOK(h)
  /\ asks \in {"idle", "found", "allowed", "pending"} /\ asked \in 0..MaxCustomers
  /\ despite \in BOOLEAN
  /\ stopped \in [Customers -> SUBSET Messages]
  /\ takeover \in 0..MaxConversations

(* The customer may be new, or known from a conversation that was closed.   *)
Init ==
  /\ kind = << >>
  /\ seen = [i \in Instances |-> {}] /\ audited = {}
  /\ rows = [m \in Messages |-> 0]
  /\ \/ customers = 0 /\ status = [c \in Convs |-> "none"]
     \/ customers = 1 /\ status = [c \in Convs |-> IF c = 1 THEN "closed" ELSE "none"]
  /\ enabled = [c \in Convs |-> TRUE]
  /\ subject = [r \in Records |-> 0] /\ granted = [r \in Records |-> FALSE]
  /\ at = [h \in Handlers |-> "free"]
  /\ on = [h \in Handlers |-> "none"] /\ msg = [h \in Handlers |-> 0]
  /\ who = [h \in Handlers |-> 0] /\ record = [h \in Handlers |-> 0]
  /\ where = [h \in Handlers |-> 0] /\ bot = [h \in Handlers |-> TRUE]
  /\ asks = "idle" /\ asked = 0 /\ despite = FALSE
  /\ stopped = [c \in Customers |-> {}]
  /\ takeover = 0 /\ early = {}

-----------------------------------------------------------------------------
(* External: the customer writes at any time; Meta delivers what it wrote   *)
(* in any order, late, and again when it had an answer.                     *)
Busy(m) == \E h \in Handlers : at[h] # "free" /\ msg[h] = m

Write(k) ==
  /\ sent < Last
  /\ kind' = Append(kind, k)
  /\ UNCHANGED <<inbox, conv, consent, handler, people>>

Delivers(m) == m \in 1..sent

At(h, step) == at[h] = step
Moves(h, step) == at' = [at EXCEPT ![h] = step]
Goes(h, step) == Moves(h, step) /\ UNCHANGED <<job, found, early>>

Ends(hs) ==
  /\ at' = [h \in Handlers |-> IF h \in hs THEN "free" ELSE at[h]]
  /\ on' = [h \in Handlers |-> IF h \in hs THEN "none" ELSE on[h]]
  /\ msg' = [h \in Handlers |-> IF h \in hs THEN 0 ELSE msg[h]]
  /\ who' = [h \in Handlers |-> IF h \in hs THEN 0 ELSE who[h]]
  /\ where' = [h \in Handlers |-> IF h \in hs THEN 0 ELSE where[h]]
  /\ bot' = [h \in Handlers |-> IF h \in hs THEN TRUE ELSE bot[h]]
  /\ record' = [h \in Handlers |-> IF h \in hs THEN 0 ELSE record[h]]
  /\ early' = early \ hs

(* Every answer is a 200.                                                   *)
Ack(h) == Ends({h})

(* Mutant: what the memory says of the message is not used.                 *)
DeliverAgain(h, i, m) ==
  /\ At(h, "free") /\ Delivers(m)
  /\ seen' = [seen EXCEPT ![i] = @ \cup {m}]
  /\ Moves(h, "dedup")
  /\ on' = [on EXCEPT ![h] = i] /\ msg' = [msg EXCEPT ![h] = m]
  /\ UNCHANGED <<kind, audited, rows, customers, conv, consent, found, early, people>>

(* isDuplicateWebhook looks the message up and remembers it in one step; one *)
(* it remembers is answered, and nothing changes.                           *)
Deliver(h, i, m) ==
  /\ At(h, "free") /\ Delivers(m) /\ m \notin seen[i]
  /\ seen' = [seen EXCEPT ![i] = @ \cup {m}]
  /\ Moves(h, "dedup")
  /\ on' = [on EXCEPT ![h] = i] /\ msg' = [msg EXCEPT ![h] = m]
  /\ UNCHANGED <<kind, audited, rows, customers, conv, consent, found, early, people>>

(* isDuplicateWebhookDB: an error, and a row older than ten minutes, is a   *)
(* no.                                                                      *)
CheckAudit(h) ==
  /\ At(h, "dedup")
  /\ \/ msg[h] \in audited /\ Ack(h)
     \/ Goes(h, "audit")
  /\ UNCHANGED <<kind, inbox, conv, consent, people>>

WriteAudit(h) ==
  /\ At(h, "audit")
  /\ Goes(h, "known")
  /\ audited' = audited \cup {msg[h]}
  /\ UNCHANGED <<kind, seen, rows, customers, conv, consent, people>>

(* Mutant: the dedup by waMessageId left out.                               *)
CheckNothing(h) ==
  /\ At(h, "known") /\ Goes(h, "customer")
  /\ UNCHANGED <<kind, inbox, conv, consent, people>>

(* The dedup by waMessageId.                                                *)
CheckMessage(h) ==
  /\ At(h, "known")
  /\ IF rows[msg[h]] > 0 THEN Ack(h) ELSE Goes(h, "customer")
  /\ UNCHANGED <<kind, inbox, conv, consent, people>>

(* Mutant: the row that was found is not kept.                              *)
FindForgetfully(h) ==
  /\ At(h, "customer")
  /\ Goes(h, IF customers = 0 THEN "new_customer" ELSE "conversation")
  /\ UNCHANGED <<kind, inbox, conv, consent, people>>

Keeps(h, c) ==
  /\ who' = [who EXCEPT ![h] = c]
  /\ UNCHANGED <<job, where, bot, record, early>>

FindCustomer(h) ==
  /\ At(h, "customer")
  /\ \/ /\ customers = 0
        /\ Goes(h, "new_customer")
     \/ \E c \in 1..customers : Moves(h, "conversation") /\ Keeps(h, c)
  /\ UNCHANGED <<kind, inbox, conv, consent, people>>

CreateCustomer(h) ==
  /\ At(h, "new_customer") /\ customers < MaxCustomers
  /\ customers' = customers + 1
  /\ Moves(h, "conversation") /\ Keeps(h, customers + 1)
  /\ UNCHANGED <<kind, seen, audited, rows, conv, consent, people>>

AfterConversation(h) == IF kind[msg[h]] = "text" THEN "persist" ELSE "keyword"

KeepsConversation(h, c, b) ==
  /\ where' = [where EXCEPT ![h] = c] /\ bot' = [bot EXCEPT ![h] = b]
  /\ UNCHANGED <<job, who, record>>

OpenConvs == {c \in Convs : status[c] = "open"}

(* Mutant: the lookup misses the open conversation.                         *)
MissOpen(h) ==
  /\ At(h, "conversation") /\ Goes(h, "new_conversation")
  /\ UNCHANGED <<kind, inbox, conv, consent, people>>

FindConversation(h) ==
  /\ At(h, "conversation")
  /\ \/ /\ OpenConvs = {}
        /\ Goes(h, "new_conversation")
     \/ \E c \in OpenConvs :
          Moves(h, AfterConversation(h)) /\ KeepsConversation(h, c, enabled[c]) /\ UNCHANGED early
  /\ UNCHANGED <<kind, inbox, conv, consent, people>>

CreateConversation(h) ==
  /\ At(h, "new_conversation")
  /\ \E c \in Convs :
       /\ status[c] = "none" /\ \A d \in 1..(c - 1) : status[d] # "none"
       /\ status' = [status EXCEPT ![c] = "open"]
       /\ enabled' = [enabled EXCEPT ![c] = TRUE]
       /\ Moves(h, AfterConversation(h)) /\ KeepsConversation(h, c, TRUE)
  /\ IF h \in early THEN takeover' = 0 /\ early' = {} ELSE UNCHANGED <<takeover, early>>
  /\ UNCHANGED <<kind, inbox, consent, promo, stopped>>

-----------------------------------------------------------------------------
(* The keywords: no Message row is written for one that is handled.         *)
RecordsOf(c) == {r \in Records : subject[r] = c}
FreeRecords == {r \in Records : subject[r] = 0 /\ \A q \in 1..(r - 1) : subject[q] # 0}

FindConsent(h) ==
  /\ At(h, "keyword") /\ kind[msg[h]] = "opt_in"
  /\ \E r \in IF RecordsOf(who[h]) = {} THEN {0} ELSE RecordsOf(who[h]) :
       record' = [record EXCEPT ![h] = r]
  /\ Moves(h, "grant")
  /\ UNCHANGED <<job, who, where, bot, early>>
  /\ UNCHANGED <<kind, inbox, conv, consent, people>>

Grants(r, c) ==
  /\ subject' = [subject EXCEPT ![r] = c]
  /\ granted' = [granted EXCEPT ![r] = TRUE]

(* An opt-in ends the opt-out, unless it is one that the opt-out came after. *)
Lifts(c) ==
  /\ stopped' = [stopped EXCEPT ![c] = {}]
  /\ despite' = (despite /\ asked # c)
  /\ UNCHANGED <<asks, asked>>

(* The reply may fail in getWhatsAppAdapter: the keyword then goes on as an  *)
(* ordinary message, although it has been handled.                          *)
Continues(h) ==
  /\ Moves(h, "persist")
  /\ record' = [record EXCEPT ![h] = 0]
  /\ UNCHANGED <<job, who, where, bot, early>>

Replies(h) == Ack(h) \/ Continues(h)

Grant(h) ==
  /\ At(h, "grant")
  /\ \E r \in IF record[h] = 0 THEN FreeRecords ELSE {record[h]} : Grants(r, who[h])
  /\ IF msg[h] \in stopped[who[h]] THEN UNCHANGED <<stopped, promo>> ELSE Lifts(who[h])
  /\ Replies(h)
  /\ UNCHANGED <<kind, inbox, conv, takeover>>

(* updateMany: every granted record of the customer.                        *)
Revoked(c) == [r \in Records |-> granted[r] /\ r \notin RecordsOf(c)]

(* The opt-ins whose handling is over and that every instance remembers.    *)
Handled == {m \in 1..sent : kind[m] = "opt_in" /\ ~Busy(m) /\ \A i \in Instances : m \in seen[i]}

Revoke(h) ==
  /\ At(h, "keyword") /\ kind[msg[h]] = "opt_out"
  /\ granted' = Revoked(who[h])
  /\ stopped' = [stopped EXCEPT ![who[h]] = Handled \cup {msg[h]}]
  /\ Replies(h)
  /\ UNCHANGED <<kind, inbox, conv, subject, promo, takeover>>

(* A keyword that cannot be handled goes on as an ordinary message.         *)
KeywordFails(h) ==
  /\ at[h] \in {"keyword", "grant"}
  /\ Continues(h)
  /\ UNCHANGED <<kind, inbox, conv, consent, people>>

-----------------------------------------------------------------------------
(* Message.create, then the conversation is bumped and the answer says      *)
(* whether the bot may speak, as botEnabled was when the row was found.     *)
Persist(h) ==
  /\ At(h, "persist")
  /\ rows' = [rows EXCEPT ![msg[h]] = @ + 1]
  /\ Goes(h, "bump")
  /\ UNCHANGED <<kind, seen, audited, customers, conv, consent, people>>

Bump(h) ==
  /\ At(h, "bump")
  /\ Ack(h)
  /\ UNCHANGED <<kind, inbox, conv, consent, people>>

(* A failed query.  Before the audit row is written the error wrapper       *)
(* answers; after it, the catch block, which pauses the conversation if it  *)
(* is known and if that write does not fail as well.                        *)
Fail(h) ==
  /\ at[h] \notin {"free", "dedup", "keyword", "grant"}
  /\ \/ UNCHANGED conv
     \/ /\ at[h] \in WithConversation
        /\ enabled' = [enabled EXCEPT ![where[h]] = FALSE]
        /\ UNCHANGED status
  /\ Ack(h)
  /\ UNCHANGED <<kind, inbox, consent, people>>

-----------------------------------------------------------------------------
(* The handoff route, and the status of a conversation.  A closed           *)
(* conversation leaves room for the next one.                               *)
Pause(c) ==
  /\ status[c] # "none"
  /\ enabled' = [enabled EXCEPT ![c] = FALSE]
  /\ IF OpenConvs = {c} /\ takeover # c
       THEN takeover' = c /\ early' = {h \in Handlers : at[h] \in Looked}
       ELSE UNCHANGED <<takeover, early>>
  /\ UNCHANGED <<status, kind, inbox, consent, at, job, found, promo, stopped>>

EndsTakeover(c) ==
  IF takeover = c THEN takeover' = 0 /\ early' = {} ELSE UNCHANGED <<takeover, early>>

Resume(c) ==
  /\ status[c] # "none"
  /\ enabled' = [enabled EXCEPT ![c] = TRUE]
  /\ EndsTakeover(c)
  /\ UNCHANGED <<status, kind, inbox, consent, at, job, found, promo, stopped>>

Close(c) ==
  /\ status[c] = "open" /\ \E d \in Convs : status[d] = "none"
  /\ status' = [status EXCEPT ![c] = "closed"]
  /\ EndsTakeover(c)
  /\ UNCHANGED <<enabled, kind, inbox, consent, at, job, found, promo, stopped>>

Reopen(c) ==
  /\ status[c] = "closed"
  /\ status' = [status EXCEPT ![c] = "open"]
  /\ takeover' = 0 /\ early' = {}
  /\ UNCHANGED <<enabled, kind, inbox, consent, at, job, found, promo, stopped>>

(* The consent route: a new record, which also lifts an opt-out, and the    *)
(* revocation of one record.                                                *)
RecordConsent(c) ==
  /\ \E r \in FreeRecords : Grants(r, c)
  /\ Lifts(c)
  /\ UNCHANGED <<kind, inbox, conv, handler, takeover>>

RevokeRecord(r) ==
  /\ subject[r] # 0
  /\ granted' = [granted EXCEPT ![r] = FALSE]
  /\ UNCHANGED <<subject, kind, inbox, conv, handler, people>>

-----------------------------------------------------------------------------
(* scheduleMessage of the remarketing route: the customer by phone, the     *)
(* consent, the message; later the message is marked sent.                  *)
Elsewhere ==
  UNCHANGED <<kind, inbox, conv, consent, handler, stopped, takeover>>

FindForPromotion ==
  /\ asks = "idle"
  /\ asks' = "found" /\ asked' \in 1..customers
  /\ despite' = (stopped[asked'] # {})
  /\ Elsewhere

Done == asks' = "idle" /\ asked' = 0 /\ despite' = FALSE

AssertMarketingConsent ==
  /\ asks = "found"
  /\ IF \E r \in RecordsOf(asked) : granted[r]
       THEN asks' = "allowed" /\ UNCHANGED <<asked, despite>>
       ELSE Done
  /\ Elsewhere

Schedule ==
  /\ asks = "allowed"
  /\ asks' = "pending" /\ despite' = FALSE
  /\ UNCHANGED asked /\ Elsewhere

MarkSent ==
  /\ asks = "pending"
  /\ Done /\ Elsewhere

-----------------------------------------------------------------------------
(* The window of the in-memory dedup passes, and an instance restarts.  An  *)
(* opt-in forgotten may be handled again.                                   *)
Forgets ==
  /\ stopped' = [c \in Customers |->
                   {m \in stopped[c] : kind[m] = "opt_out" \/ \A i \in Instances : m \in seen'[i]}]
  /\ UNCHANGED <<promo, takeover>>

ForgetWebhook(i, m) ==
  /\ m \in seen[i] /\ ~Busy(m)
  /\ seen' = [seen EXCEPT ![i] = @ \ {m}]
  /\ Forgets
  /\ UNCHANGED <<kind, audited, rows, customers, conv, consent, handler>>

Restart(i) ==
  /\ seen' = [seen EXCEPT ![i] = {}]
  /\ Forgets
  /\ Ends({h \in Handlers : on[h] = i})
  /\ UNCHANGED <<kind, audited, rows, customers, conv, consent>>

Handle(h) ==
  \/ CheckAudit(h) \/ WriteAudit(h) \/ CheckMessage(h) \/ FindCustomer(h) \/ CreateCustomer(h)
  \/ FindConversation(h) \/ CreateConversation(h) \/ FindConsent(h) \/ Grant(h) \/ Revoke(h)
  \/ KeywordFails(h) \/ Persist(h) \/ Bump(h) \/ Fail(h)

People ==
  \/ \E c \in Convs : Pause(c) \/ Resume(c) \/ Close(c) \/ Reopen(c)
  \/ \E c \in 1..customers : RecordConsent(c)
  \/ \E r \in Records : RevokeRecord(r)
  \/ FindForPromotion \/ AssertMarketingConsent \/ Schedule \/ MarkSent

Environment ==
  \/ \E k \in Kinds : Write(k)
  \/ \E h \in Handlers, i \in Instances, m \in Messages : Deliver(h, i, m)
  \/ \E i \in Instances, m \in Messages : ForgetWebhook(i, m)
  \/ \E i \in Instances : Restart(i)

Next == (\E h \in Handlers : Handle(h)) \/ People \/ Environment

Spec == Init /\ [][Next]_vars

-----------------------------------------------------------------------------
(* However often a message is delivered, it is one row of the inbox.        *)
(* [route.ts 230-239, "the durable dedup key"]                              *)
PersistedOnce == \A m \in Messages : rows[m] <= 1

(* No promotion is let through for a customer row whose STOP has been       *)
(* handled, whatever was handled at once and delivered again, until an      *)
(* opt-in ends it: of the consent route, or a keyword that was unhandled or *)
(* at work when the STOP was, or that an instance has forgotten since.      *)
(* [route.ts 371 "a duplicate SI just re-grants", 456-472,                  *)
(* assertMarketingConsent]                                                  *)
StopIsHeard == ~(asks = "allowed" /\ despite)

(* While a person has the customer's only open conversation, no message is  *)
(* left to the bot but those whose handler had looked for the conversation  *)
(* before the takeover; the next one is the person's.                       *)
(* [route.ts 259-261 and 570-589, the handoff route]                        *)
TakeoverHolds ==
  takeover # 0 => \A h \in Handlers : At(h, "bump") /\ bot[h] => h \in early

(* While a conversation of the customer is paused, no message is left to    *)
(* the bot.  [schema.prisma 427, botEnabled]                                *)
PausedIsSilent ==
  \A h \in Handlers : At(h, "bump") /\ bot[h] => \A c \in OpenConvs : enabled[c]

(* An opt-in that ends a STOP was written after it.  [route.ts 371]         *)
LastWordCounts ==
  [][\A h \in Handlers : Grant(h) =>
       \A n \in stopped[who[h]] : kind[n] = "opt_out" => n < msg[h]]_vars

(* "we already wrote the audit log row above so the message is recoverable":*)
(* what is answered as a duplicate is in the audit log, or at work.         *)
(* [route.ts 708-710]                                                       *)
AcknowledgedIsAudited ==
  \A i \in Instances : \A m \in seen[i] : m \in audited \/ Busy(m)

(* "No te enviaremos más promociones": after the STOP nothing scheduled     *)
(* before it is sent.  [route.ts 477, updateMessageStatus]                  *)
PromotionsStop == [][MarkSent => stopped[asked] = {}]_vars

=============================================================================
