------------------------- MODULE ConversationsProofs -------------------------
(***************************************************************************)
(* What holds of Conversations for any number of messages, handlers,       *)
(* conversations and records.                                              *)
(***************************************************************************)
EXTENDS Conversations, TLAPS

USE ConversationsAssumption

(* The parts of TypeOK: the rows, the promotion, the handlers. *)
InboxOK ==
  /\ kind \in Seq(Kinds) /\ sent <= Last
  /\ seen \in [Instances -> SUBSET (1..sent)]
  /\ audited \subseteq 1..sent
  /\ rows \in [Messages -> Nat]
  /\ customers \in 0..MaxCustomers

PeopleOK ==
  /\ status \in [Convs -> {"none", "open", "closed"}] /\ enabled \in [Convs -> BOOLEAN]
  /\ subject \in [Records -> 0..MaxCustomers] /\ granted \in [Records -> BOOLEAN]
  /\ asks \in {"idle", "found", "allowed", "pending"} /\ asked \in 0..MaxCustomers
  /\ despite \in BOOLEAN
  /\ stopped \in [Customers -> SUBSET Messages] /\ takeover \in 0..MaxConversations

WorkersOK ==
  /\ at \in [Handlers -> Steps]
  /\ on \in [Handlers -> Instances \cup {"none"}] /\ msg \in [Handlers -> 0..Last]
  /\ who \in [Handlers -> 0..MaxCustomers]
  /\ where \in [Handlers -> 0..MaxConversations] /\ bot \in [Handlers -> BOOLEAN]
  /\ record \in [Handlers -> 0..MaxRecords]
  /\ early \subseteq Handlers

HandlersOK == \A h \in Handlers : HandlerOK(h)

LEMMA TypeParts == TypeOK <=> InboxOK /\ PeopleOK /\ WorkersOK /\ HandlersOK
  BY DEF TypeOK, InboxOK, PeopleOK, WorkersOK, HandlersOK

LEMMA TypePartsNext == TypeOK' <=> InboxOK' /\ PeopleOK' /\ WorkersOK' /\ HandlersOK'
  BY DEF TypeOK, InboxOK, PeopleOK, WorkersOK, HandlersOK

(* A handler that ends is free, and the others stay as they are. *)
LEMMA EndsFacts ==
  ASSUME WorkersOK, NEW hs, Ends(hs)
  PROVE  /\ WorkersOK'
         /\ \A h \in Handlers : h \in hs => at'[h] = "free" /\ record'[h] = 0
         /\ \A h \in Handlers : h \notin hs => /\ at'[h] = at[h] /\ on'[h] = on[h] /\ msg'[h] = msg[h]
                                               /\ who'[h] = who[h] /\ where'[h] = where[h]
                                               /\ bot'[h] = bot[h] /\ record'[h] = record[h]
<1>1. at' \in [Handlers -> Steps] /\ on' \in [Handlers -> Instances \cup {"none"}]
  BY DEF WorkersOK, Ends, Steps
<1>2. msg' \in [Handlers -> 0..Last] /\ who' \in [Handlers -> 0..MaxCustomers]
  BY DEF WorkersOK, Ends
<1>3. where' \in [Handlers -> 0..MaxConversations] /\ record' \in [Handlers -> 0..MaxRecords]
  BY DEF WorkersOK, Ends
<1>4. bot' \in [Handlers -> BOOLEAN] /\ early' \subseteq Handlers
  BY DEF WorkersOK, Ends
<1>5. \A h \in Handlers : h \in hs => at'[h] = "free" /\ record'[h] = 0
  BY Zenon DEF Ends
<1>6. \A h \in Handlers : h \notin hs => /\ at'[h] = at[h] /\ on'[h] = on[h] /\ msg'[h] = msg[h]
                                         /\ who'[h] = who[h] /\ where'[h] = where[h]
                                         /\ bot'[h] = bot[h] /\ record'[h] = record[h]
  BY Zenon DEF Ends
<1> QED BY <1>1, <1>2, <1>3, <1>4, <1>5, <1>6 DEF WorkersOK

LEMMA InitType == Init => TypeOK
<1> SUFFICES ASSUME Init PROVE InboxOK /\ PeopleOK /\ WorkersOK /\ HandlersOK
  BY TypeParts
<1>1. InboxOK
  BY DEF Init, InboxOK, sent
<1>2. PeopleOK
  <2>1. status \in [Convs -> {"none", "open", "closed"}] /\ enabled \in [Convs -> BOOLEAN]
    BY DEF Init
  <2>2. subject \in [Records -> 0..MaxCustomers] /\ granted \in [Records -> BOOLEAN]
    BY DEF Init
  <2>3. asks \in {"idle", "found", "allowed", "pending"} /\ asked \in 0..MaxCustomers
    BY DEF Init
  <2>5. despite \in BOOLEAN
    BY DEF Init
  <2>4. stopped \in [Customers -> SUBSET Messages] /\ takeover \in 0..MaxConversations
    BY DEF Init
  <2> QED BY <2>1, <2>2, <2>3, <2>4, <2>5 DEF PeopleOK
<1>3. WorkersOK
  BY DEF Init, WorkersOK, Steps
<1>4. HandlersOK
  BY DEF Init, HandlersOK, HandlerOK, WithCustomer, WithConversation
<1> QED BY <1>1, <1>2, <1>3, <1>4

-----------------------------------------------------------------------------
(* A handler whose row of the inbox, conversation and record stay what they *)
(* were stays well formed, whatever else changes.                           *)
Grows ==
  /\ sent' >= sent /\ customers' >= customers
  /\ \A c \in Convs : status[c] # "none" => status'[c] # "none"
  /\ \A r \in Records : subject[r] # 0 => subject'[r] = subject[r]

Same(h) ==
  /\ at'[h] = at[h] /\ on'[h] = on[h] /\ msg'[h] = msg[h] /\ who'[h] = who[h]
  /\ where'[h] = where[h] /\ record'[h] = record[h]

LEMMA SameStaysOK ==
  ASSUME InboxOK, InboxOK', WorkersOK, NEW h \in Handlers, HandlerOK(h), Grows, Same(h)
  PROVE  HandlerOK(h)'
<1>1. sent \in Nat /\ sent' \in Nat /\ customers \in Nat /\ customers' \in Nat
  BY DEF InboxOK, sent
<1>2. msg[h] \in Int /\ who[h] \in Int /\ record[h] \in 0..MaxRecords
  BY DEF WorkersOK
<1>3. at[h] # "free" => on'[h] \in Instances /\ msg'[h] \in 1..sent'
  BY <1>1, <1>2 DEF HandlerOK, Grows, Same
<1>4. at[h] \in WithCustomer => who'[h] \in 1..customers'
  BY <1>1, <1>2 DEF HandlerOK, Grows, Same
<1>5. at[h] \in WithConversation => where'[h] \in Convs /\ status'[where'[h]] # "none"
  BY DEF HandlerOK, Grows, Same
<1>6. record[h] # 0 => at[h] = "grant" /\ subject'[record'[h]] = who'[h]
  <2> SUFFICES ASSUME record[h] # 0
               PROVE  at[h] = "grant" /\ subject'[record[h]] = who[h]
    BY DEF Same
  <2>1. at[h] = "grant" /\ subject[record[h]] = who[h]
    BY DEF HandlerOK
  <2>2. who[h] # 0
    BY <2>1, <1>1 DEF HandlerOK, WithCustomer, WithConversation
  <2> QED BY <2>1, <2>2, <1>2 DEF Grows, Records
<1> QED BY <1>3, <1>4, <1>5, <1>6 DEF HandlerOK, Same

(* A handler at work that ends leaves the others well formed. *)
LEMMA EndedStaysOK ==
  ASSUME InboxOK, InboxOK', WorkersOK, HandlersOK, Grows, NEW hs, Ends(hs)
  PROVE  WorkersOK' /\ HandlersOK'
<1>1. WorkersOK'
  BY EndsFacts
<1> SUFFICES ASSUME NEW h \in Handlers PROVE HandlerOK(h)'
  BY <1>1 DEF HandlersOK
<1>2. CASE h \in hs
  <2>1. at'[h] = "free" /\ record'[h] = 0
    BY <1>2, EndsFacts
  <2> QED BY <2>1 DEF HandlerOK, WithCustomer, WithConversation
<1>3. CASE h \notin hs
  <2>1. Same(h)
    BY <1>3, EndsFacts DEF Same
  <2> QED BY <2>1, SameStaysOK DEF HandlersOK
<1> QED BY <1>2, <1>3

(* One handler moves to a step for which it has what is needed. *)
LEMMA MovedStaysOK ==
  ASSUME InboxOK, InboxOK', WorkersOK, WorkersOK', HandlersOK, Grows, NEW h \in Handlers,
         HandlerOK(h)', \A g \in Handlers : g # h => Same(g)
  PROVE  HandlersOK'
  BY SameStaysOK DEF HandlersOK

(* What a step may leave alone. *)
LEMMA PeopleKept ==
  ASSUME PeopleOK, UNCHANGED <<conv, consent, people>>
  PROVE  PeopleOK'
  BY DEF PeopleOK, conv, consent, people, promo

LEMMA InboxKept ==
  ASSUME InboxOK, UNCHANGED <<kind, inbox>>
  PROVE  InboxOK'
  BY DEF InboxOK, inbox, sent

LEMMA NothingShrinks ==
  ASSUME InboxOK, UNCHANGED <<kind, customers, conv, consent>>
  PROVE  Grows
  BY DEF Grows, InboxOK, sent, conv, consent

(* A handler that goes on with what it knows. *)
LEMMA GoesFacts ==
  ASSUME WorkersOK, NEW h \in Handlers, NEW s \in Steps, Goes(h, s)
  PROVE  /\ WorkersOK'
         /\ at'[h] = s /\ on'[h] = on[h] /\ msg'[h] = msg[h] /\ who'[h] = who[h]
         /\ where'[h] = where[h] /\ record'[h] = record[h] /\ bot'[h] = bot[h]
         /\ \A g \in Handlers : g # h => Same(g)
         /\ UNCHANGED <<on, msg, who, where, bot, record, early>>
<1>1. at' = [at EXCEPT ![h] = s] /\ UNCHANGED <<on, msg, who, where, bot, record, early>>
  BY DEF Goes, Moves, job, found
<1>2. at' \in [Handlers -> Steps] /\ at'[h] = s /\ \A g \in Handlers : g # h => at'[g] = at[g]
  BY <1>1 DEF WorkersOK
<1> QED BY <1>1, <1>2 DEF WorkersOK, Same

(* The three ways a handler can be left by a step: on to another step, ended, *)
(* as it was.                                                                 *)
LEMMA GoesType ==
  ASSUME TypeOK, NEW h \in Handlers, NEW s \in Steps, Goes(h, s), InboxOK', PeopleOK', Grows,
         at[h] \notin {"free", "grant"},
         s \in WithCustomer => at[h] \in WithCustomer,
         s \in WithConversation => at[h] \in WithConversation,
         at[h] \in WithConversation => s \in WithConversation
  PROVE  TypeOK'
<1> USE TypeParts, TypePartsNext
<1>1. /\ WorkersOK' /\ \A g \in Handlers : g # h => Same(g)
      /\ at'[h] = s /\ on'[h] = on[h] /\ msg'[h] = msg[h] /\ who'[h] = who[h]
      /\ where'[h] = where[h] /\ record'[h] = record[h]
  BY GoesFacts
<1>2. HandlerOK(h)
  BY DEF HandlersOK
<1>3. sent \in Nat /\ sent' \in Nat /\ customers \in Nat /\ customers' \in Nat
  BY DEF InboxOK, sent
<1>4. msg[h] \in Int /\ who[h] \in Int /\ record[h] \in 0..MaxRecords
  BY DEF WorkersOK
<1>5. on'[h] \in Instances /\ msg'[h] \in 1..sent'
  BY <1>1, <1>2, <1>3, <1>4 DEF HandlerOK, Grows
<1>6. s \in WithCustomer => who'[h] \in 1..customers'
  BY <1>1, <1>2, <1>3, <1>4 DEF HandlerOK, Grows
<1>7. s \in WithConversation => where'[h] \in Convs /\ status'[where'[h]] # "none"
  BY <1>1, <1>2 DEF HandlerOK, Grows
<1>8. record'[h] = 0
  BY <1>1, <1>2 DEF HandlerOK
<1>9. HandlerOK(h)'
  BY <1>1, <1>5, <1>6, <1>7, <1>8 DEF HandlerOK
<1> QED BY <1>1, <1>9, MovedStaysOK

LEMMA EndsType ==
  ASSUME TypeOK, NEW hs, Ends(hs), InboxOK', PeopleOK', Grows
  PROVE  TypeOK'
  BY TypeParts, TypePartsNext, EndedStaysOK

LEMMA KeptType ==
  ASSUME TypeOK, UNCHANGED <<at, job, found>>, early' \subseteq Handlers,
         InboxOK', PeopleOK', Grows
  PROVE  TypeOK'
<1> USE TypeParts, TypePartsNext
<1>1. WorkersOK' /\ \A h \in Handlers : Same(h)
  BY DEF WorkersOK, Same, job, found
<1> QED BY <1>1, SameStaysOK DEF HandlersOK

(* A step that changes no row but those of the inbox. *)
LEMMA InboxStep ==
  ASSUME TypeOK, UNCHANGED <<kind, customers, conv, consent, people>>
  PROVE  PeopleOK' /\ Grows
  BY TypeParts, PeopleKept, NothingShrinks

LEMMA QuietStep ==
  ASSUME TypeOK, UNCHANGED <<kind, inbox, conv, consent, people>>
  PROVE  InboxOK' /\ PeopleOK' /\ Grows
<1>1. UNCHANGED customers
  BY DEF inbox
<1> QED BY <1>1, InboxStep, InboxKept, TypeParts

LEMMA AnsweredStep ==
  ASSUME TypeOK, UNCHANGED <<kind, inbox, conv, consent, people>>,
         NEW h \in Handlers, Ack(h)
  PROVE  TypeOK'
  BY QuietStep, EndsType DEF Ack

-----------------------------------------------------------------------------
(* The actions of a handler. *)
LEMMA CheckAuditType ==
  ASSUME TypeOK, NEW h \in Handlers, CheckAudit(h)
  PROVE  TypeOK'
<1>1. at[h] = "dedup" /\ UNCHANGED <<kind, inbox, conv, consent, people>>
  BY DEF CheckAudit, At
<1>2. CASE Ack(h)
  BY <1>1, <1>2, AnsweredStep
<1>3. CASE Goes(h, "audit")
  BY <1>1, <1>3, QuietStep, GoesType DEF Steps, WithCustomer, WithConversation
<1> QED BY <1>2, <1>3 DEF CheckAudit

LEMMA WriteAuditType ==
  ASSUME TypeOK, NEW h \in Handlers, WriteAudit(h)
  PROVE  TypeOK'
<1>1. /\ at[h] = "audit" /\ Goes(h, "known") /\ audited' = audited \cup {msg[h]}
      /\ UNCHANGED <<kind, seen, rows, customers, conv, consent, people>>
  BY DEF WriteAudit, At
<1>2. msg[h] \in 1..sent
  BY <1>1, TypeParts DEF HandlersOK, HandlerOK
<1>3. InboxOK'
  BY <1>1, <1>2, TypeParts DEF InboxOK, sent
<1> QED BY <1>1, <1>3, InboxStep, GoesType DEF Steps, WithCustomer, WithConversation

LEMMA CheckMessageType ==
  ASSUME TypeOK, NEW h \in Handlers, CheckMessage(h)
  PROVE  TypeOK'
<1>1. at[h] = "known" /\ UNCHANGED <<kind, inbox, conv, consent, people>>
  BY DEF CheckMessage, At
<1>2. CASE Ack(h)
  BY <1>1, <1>2, AnsweredStep
<1>3. CASE Goes(h, "customer")
  BY <1>1, <1>3, QuietStep, GoesType DEF Steps, WithCustomer, WithConversation
<1> QED BY <1>2, <1>3 DEF CheckMessage

LEMMA PersistType ==
  ASSUME TypeOK, NEW h \in Handlers, Persist(h)
  PROVE  TypeOK'
<1>1. /\ at[h] = "persist" /\ Goes(h, "bump") /\ rows' = [rows EXCEPT ![msg[h]] = @ + 1]
      /\ UNCHANGED <<kind, seen, audited, customers, conv, consent, people>>
  BY DEF Persist, At
<1>2. InboxOK'
  <2>1. rows' \in [Messages -> Nat]
    <3>1. rows \in [Messages -> Nat] /\ msg[h] \in Messages
      BY <1>1, TypeParts DEF InboxOK, HandlersOK, HandlerOK, Messages, sent
    <3>2. rows[msg[h]] + 1 \in Nat /\ rows' = [rows EXCEPT ![msg[h]] = rows[msg[h]] + 1]
      BY <1>1, <3>1
    <3> QED BY <3>1, <3>2
  <2>2. UNCHANGED <<kind, seen, audited, customers, sent>>
    BY <1>1 DEF sent
  <2> QED BY <2>1, <2>2, TypeParts DEF InboxOK
<1> QED BY <1>1, <1>2, InboxStep, GoesType DEF Steps, WithCustomer, WithConversation

LEMMA BumpType ==
  ASSUME TypeOK, NEW h \in Handlers, Bump(h)
  PROVE  TypeOK'
<1>1. at[h] = "bump" /\ Ack(h) /\ UNCHANGED <<kind, inbox, conv, consent, people>>
  BY DEF Bump, At
<1> QED BY <1>1, AnsweredStep

LEMMA FailType ==
  ASSUME TypeOK, NEW h \in Handlers, Fail(h)
  PROVE  TypeOK'
<1>1. at[h] # "free" /\ Ack(h) /\ UNCHANGED <<kind, inbox, status, consent, people>>
  BY DEF Fail, conv
<1>2. enabled' \in [Convs -> BOOLEAN]
  BY TypeParts DEF Fail, conv, PeopleOK
<1>3. Ends({h}) /\ UNCHANGED customers
  BY <1>1 DEF inbox, Ack
<1>4. InboxOK'
  BY <1>1, <1>3, InboxKept, TypeParts
<1>5. PeopleOK'
  BY <1>1, <1>2, TypeParts DEF PeopleOK, consent, people, promo
<1>6. Grows
  BY <1>1, <1>3, TypeParts DEF Grows, InboxOK, sent, consent
<1> QED BY <1>3, <1>4, <1>5, <1>6, EndsType

(* A handler that learns something on the way to a step. *)
LEMMA LearnsType ==
  ASSUME TypeOK, NEW h \in Handlers, NEW s \in Steps, Moves(h, s), WorkersOK', HandlerOK(h)',
         InboxOK', PeopleOK', Grows,
         \A g \in Handlers : g # h => /\ on'[g] = on[g] /\ msg'[g] = msg[g] /\ who'[g] = who[g]
                                      /\ where'[g] = where[g] /\ record'[g] = record[g]
  PROVE  TypeOK'
<1>1. \A g \in Handlers : g # h => at'[g] = at[g]
  BY TypeParts DEF Moves, WorkersOK
<1>2. \A g \in Handlers : g # h => Same(g)
  BY <1>1 DEF Same
<1> QED BY <1>2, MovedStaysOK, TypeParts, TypePartsNext

LEMMA KeepsFacts ==
  ASSUME TypeOK, NEW h \in Handlers, NEW c \in 1..MaxCustomers, NEW s \in Steps,
         Moves(h, s), Keeps(h, c)
  PROVE  /\ WorkersOK' /\ at'[h] = s /\ who'[h] = c
         /\ UNCHANGED <<on, msg, where, bot, record, early>>
         /\ \A g \in Handlers : g # h => who'[g] = who[g]
<1>1. /\ at' = [at EXCEPT ![h] = s] /\ who' = [who EXCEPT ![h] = c]
      /\ UNCHANGED <<on, msg, where, bot, record, early>>
  BY DEF Moves, Keeps, job
<1>2. at' \in [Handlers -> Steps] /\ at'[h] = s
  BY <1>1, TypeParts DEF WorkersOK
<1>3. who' \in [Handlers -> 0..MaxCustomers] /\ who'[h] = c
      /\ \A g \in Handlers : g # h => who'[g] = who[g]
  BY <1>1, TypeParts DEF WorkersOK
<1> QED BY <1>1, <1>2, <1>3, TypeParts DEF WorkersOK

LEMMA FindCustomerType ==
  ASSUME TypeOK, NEW h \in Handlers, FindCustomer(h)
  PROVE  TypeOK'
<1>1. at[h] = "customer" /\ UNCHANGED <<kind, inbox, conv, consent, people>>
  BY DEF FindCustomer, At
<1>2. CASE Goes(h, "new_customer")
  BY <1>1, <1>2, QuietStep, GoesType DEF Steps, WithCustomer, WithConversation
<1>3. CASE \E c \in 1..customers : Moves(h, "conversation") /\ Keeps(h, c)
  <2>1. PICK c \in 1..customers : Moves(h, "conversation") /\ Keeps(h, c)
    BY <1>3
  <2>2. c \in 1..MaxCustomers /\ UNCHANGED <<customers, sent>> /\ customers \in Nat
    BY <1>1, TypeParts DEF InboxOK, inbox, sent
  <2>3. "conversation" \in Steps
    BY DEF Steps
  <2>4. /\ WorkersOK' /\ at'[h] = "conversation" /\ who'[h] = c
        /\ UNCHANGED <<on, msg, where, bot, record, early>>
        /\ \A g \in Handlers : g # h => who'[g] = who[g]
    BY <2>1, <2>2, <2>3, KeepsFacts
  <2>5. record[h] = 0 /\ on[h] \in Instances /\ msg[h] \in 1..sent
    BY <1>1, TypeParts DEF HandlersOK, HandlerOK, WithConversation
  <2>6. HandlerOK(h)'
    BY <2>2, <2>4, <2>5 DEF HandlerOK, WithConversation, WithCustomer
  <2>7. InboxOK' /\ PeopleOK' /\ Grows
    BY <1>1, QuietStep
  <2> QED BY <2>1, <2>3, <2>4, <2>6, <2>7, LearnsType
<1> QED BY <1>2, <1>3 DEF FindCustomer

LEMMA CreateCustomerType ==
  ASSUME TypeOK, NEW h \in Handlers, CreateCustomer(h)
  PROVE  TypeOK'
<1>1. /\ at[h] = "new_customer" /\ customers < MaxCustomers /\ customers' = customers + 1
      /\ Moves(h, "conversation") /\ Keeps(h, customers + 1)
      /\ UNCHANGED <<kind, seen, audited, rows, conv, consent, people>>
  BY DEF CreateCustomer, At
<1>2. customers \in Nat /\ customers + 1 \in 1..MaxCustomers /\ "conversation" \in Steps
  BY <1>1, TypeParts DEF InboxOK, Steps
<1>3. UNCHANGED sent
  BY <1>1 DEF sent
<1>4. /\ WorkersOK' /\ at'[h] = "conversation" /\ who'[h] = customers + 1
      /\ UNCHANGED <<on, msg, where, bot, record, early>>
      /\ \A g \in Handlers : g # h => who'[g] = who[g]
  BY <1>1, <1>2, KeepsFacts
<1>5. record[h] = 0 /\ on[h] \in Instances /\ msg[h] \in 1..sent
  BY <1>1, TypeParts DEF HandlersOK, HandlerOK, WithConversation
<1>6. HandlerOK(h)'
  BY <1>1, <1>2, <1>3, <1>4, <1>5 DEF HandlerOK, WithConversation, WithCustomer
<1>7. InboxOK'
  BY <1>1, <1>2, <1>3, TypeParts DEF InboxOK
<1>8. PeopleOK'
  BY <1>1, TypeParts, PeopleKept
<1>9. Grows
  BY <1>1, <1>2, <1>3, TypeParts DEF Grows, conv, consent, InboxOK, sent
<1> QED BY <1>1, <1>2, <1>4, <1>6, <1>7, <1>8, <1>9, LearnsType

LEMMA KeepsConversationFacts ==
  ASSUME TypeOK, NEW h \in Handlers, NEW c \in Convs, NEW b \in BOOLEAN, NEW s \in Steps,
         Moves(h, s), KeepsConversation(h, c, b), early' \subseteq Handlers
  PROVE  /\ WorkersOK' /\ at'[h] = s /\ where'[h] = c /\ bot'[h] = b
         /\ UNCHANGED <<on, msg, who, record>>
         /\ \A g \in Handlers : g # h => where'[g] = where[g] /\ bot'[g] = bot[g]
<1>1. /\ at' = [at EXCEPT ![h] = s] /\ where' = [where EXCEPT ![h] = c]
      /\ bot' = [bot EXCEPT ![h] = b] /\ UNCHANGED <<on, msg, who, record>>
  BY DEF Moves, KeepsConversation, job
<1>2. at' \in [Handlers -> Steps] /\ at'[h] = s
  BY <1>1, TypeParts DEF WorkersOK
<1>3. where' \in [Handlers -> 0..MaxConversations] /\ where'[h] = c
      /\ \A g \in Handlers : g # h => where'[g] = where[g]
  BY <1>1, TypeParts DEF WorkersOK, Convs
<1>4. bot' \in [Handlers -> BOOLEAN] /\ bot'[h] = b
      /\ \A g \in Handlers : g # h => bot'[g] = bot[g]
  BY <1>1, TypeParts, Zenon DEF WorkersOK
<1> QED BY <1>1, <1>2, <1>3, <1>4, TypeParts DEF WorkersOK

LEMMA AfterConversationFacts ==
  \A h \in Handlers : AfterConversation(h) \in Steps /\ AfterConversation(h) \in WithConversation
  BY DEF AfterConversation, Steps, WithConversation

LEMMA FindConversationType ==
  ASSUME TypeOK, NEW h \in Handlers, FindConversation(h)
  PROVE  TypeOK'
<1>1. at[h] = "conversation" /\ UNCHANGED <<kind, inbox, conv, consent, people>>
  BY DEF FindConversation, At
<1>2. CASE Goes(h, "new_conversation")
  BY <1>1, <1>2, QuietStep, GoesType DEF Steps, WithCustomer, WithConversation
<1>3. CASE \E c \in OpenConvs :
             /\ Moves(h, AfterConversation(h)) /\ KeepsConversation(h, c, enabled[c])
             /\ UNCHANGED early
  <2>1. PICK c \in OpenConvs :
               /\ Moves(h, AfterConversation(h)) /\ KeepsConversation(h, c, enabled[c])
               /\ early' \subseteq Handlers
    BY <1>3, TypeParts DEF WorkersOK
  <2>2. c \in Convs /\ status[c] = "open" /\ enabled[c] \in BOOLEAN
    BY TypeParts DEF OpenConvs, PeopleOK
  <2>3. AfterConversation(h) \in Steps /\ AfterConversation(h) \in WithConversation
    BY AfterConversationFacts
  <2>4. /\ WorkersOK' /\ at'[h] = AfterConversation(h) /\ where'[h] = c
        /\ UNCHANGED <<on, msg, who, record>>
        /\ \A g \in Handlers : g # h => where'[g] = where[g]
    BY <2>1, <2>2, <2>3, KeepsConversationFacts
  <2>5. record[h] = 0 /\ on[h] \in Instances /\ msg[h] \in 1..sent /\ who[h] \in 1..customers
    BY <1>1, TypeParts DEF HandlersOK, HandlerOK, WithConversation, WithCustomer
  <2>6. UNCHANGED <<sent, customers, status>>
    BY <1>1 DEF sent, inbox, conv
  <2>7. HandlerOK(h)'
    BY <2>2, <2>3, <2>4, <2>5, <2>6 DEF HandlerOK, WithConversation, WithCustomer
  <2>8. InboxOK' /\ PeopleOK' /\ Grows
    BY <1>1, QuietStep
  <2> QED BY <2>1, <2>3, <2>4, <2>7, <2>8, LearnsType
<1> QED BY <1>2, <1>3 DEF FindConversation

LEMMA CreateConversationType ==
  ASSUME TypeOK, NEW h \in Handlers, CreateConversation(h)
  PROVE  TypeOK'
<1>1. at[h] = "new_conversation" /\ UNCHANGED <<kind, inbox, consent, promo, stopped>>
  BY DEF CreateConversation, At
<1>13. takeover' \in 0..MaxConversations /\ early' \subseteq Handlers
  BY TypeParts DEF CreateConversation, PeopleOK, WorkersOK
<1>2. PICK c \in Convs : /\ status[c] = "none" /\ status' = [status EXCEPT ![c] = "open"]
                         /\ enabled' = [enabled EXCEPT ![c] = TRUE]
                         /\ Moves(h, AfterConversation(h)) /\ KeepsConversation(h, c, TRUE)
  BY DEF CreateConversation
<1>3. AfterConversation(h) \in Steps /\ AfterConversation(h) \in WithConversation
  BY AfterConversationFacts
<1>4. /\ WorkersOK' /\ at'[h] = AfterConversation(h) /\ where'[h] = c
      /\ UNCHANGED <<on, msg, who, record>>
      /\ \A g \in Handlers : g # h => where'[g] = where[g]
  BY <1>2, <1>3, <1>13, KeepsConversationFacts
<1>5. record[h] = 0 /\ on[h] \in Instances /\ msg[h] \in 1..sent /\ who[h] \in 1..customers
  BY <1>1, TypeParts DEF HandlersOK, HandlerOK, WithConversation, WithCustomer
<1>6. UNCHANGED <<sent, customers>>
  BY <1>1 DEF sent, inbox
<1>7. /\ status' \in [Convs -> {"none", "open", "closed"}]
      /\ status'[c] = "open" /\ \A d \in Convs : status[d] # "none" => status'[d] # "none"
  BY <1>2, TypeParts DEF PeopleOK
<1>8. enabled' \in [Convs -> BOOLEAN]
  BY <1>2, TypeParts, Zenon DEF PeopleOK
<1>9. HandlerOK(h)'
  BY <1>3, <1>4, <1>5, <1>6, <1>7 DEF HandlerOK, WithConversation, WithCustomer
<1>10. InboxOK'
  BY <1>1, TypeParts DEF InboxOK, inbox, sent
<1>11. PeopleOK'
  BY <1>1, <1>7, <1>8, <1>13, TypeParts DEF PeopleOK, consent, promo
<1>12. Grows
  BY <1>1, <1>6, <1>7, TypeParts DEF Grows, InboxOK, sent, consent
<1> QED BY <1>2, <1>3, <1>4, <1>9, <1>10, <1>11, <1>12, LearnsType

LEMMA FindConsentType ==
  ASSUME TypeOK, NEW h \in Handlers, FindConsent(h)
  PROVE  TypeOK'
<1>1. /\ at[h] = "keyword" /\ at' = [at EXCEPT ![h] = "grant"] /\ "grant" \in Steps
      /\ UNCHANGED <<on, msg, who, where, bot, early>>
      /\ UNCHANGED <<kind, inbox, conv, consent, people>>
  BY DEF FindConsent, At, Moves, job, Steps
<1>2. PICK r \in IF RecordsOf(who[h]) = {} THEN {0} ELSE RecordsOf(who[h]) :
             record' = [record EXCEPT ![h] = r]
  BY DEF FindConsent
<1>3. r \in 0..MaxRecords /\ (r # 0 => subject[r] = who[h])
  BY <1>2 DEF RecordsOf, Records
<1>4. at' \in [Handlers -> Steps] /\ at'[h] = "grant"
  BY <1>1, TypeParts DEF WorkersOK
<1>5. record' \in [Handlers -> 0..MaxRecords] /\ record'[h] = r
      /\ \A g \in Handlers : g # h => record'[g] = record[g]
  BY <1>2, <1>3, TypeParts DEF WorkersOK
<1>6. WorkersOK'
  BY <1>1, <1>4, <1>5, TypeParts DEF WorkersOK
<1>7. /\ on[h] \in Instances /\ msg[h] \in 1..sent /\ who[h] \in 1..customers
      /\ where[h] \in Convs /\ status[where[h]] # "none"
  BY <1>1, TypeParts DEF HandlersOK, HandlerOK, WithConversation, WithCustomer
<1>8. UNCHANGED <<sent, customers, status, subject>>
  BY <1>1 DEF sent, inbox, conv, consent
<1>9. HandlerOK(h)'
  BY <1>1, <1>3, <1>4, <1>5, <1>7, <1>8 DEF HandlerOK, WithConversation, WithCustomer
<1>10. InboxOK' /\ PeopleOK' /\ Grows
  BY <1>1, QuietStep
<1>11. Moves(h, "grant")
  BY DEF FindConsent
<1> QED BY <1>1, <1>5, <1>6, <1>9, <1>10, <1>11, LearnsType

(* A free record given to a customer, or one of its own granted again. *)
LEMMA GrantsFacts ==
  ASSUME PeopleOK, NEW r \in Records, NEW c \in 1..MaxCustomers, Grants(r, c),
         subject[r] \in {0, c}
  PROVE  /\ subject' \in [Records -> 0..MaxCustomers] /\ granted' \in [Records -> BOOLEAN]
         /\ \A q \in Records : subject[q] # 0 => subject'[q] = subject[q]
<1>1. subject' \in [Records -> 0..MaxCustomers]
      /\ \A q \in Records : subject[q] # 0 => subject'[q] = subject[q]
  BY DEF Grants, PeopleOK
<1>2. granted' \in [Records -> BOOLEAN]
  BY Zenon DEF Grants, PeopleOK
<1> QED BY <1>1, <1>2

(* A keyword that goes on as an ordinary message. *)
LEMMA ContinuesType ==
  ASSUME TypeOK, NEW h \in Handlers, at[h] \in WithConversation, Continues(h),
         InboxOK', UNCHANGED <<kind, customers>>, PeopleOK', Grows
  PROVE  TypeOK'
<1>1. /\ at' = [at EXCEPT ![h] = "persist"] /\ record' = [record EXCEPT ![h] = 0]
      /\ UNCHANGED <<on, msg, who, where, bot, early>>
  BY DEF Continues, Moves, job
<1>2. at' \in [Handlers -> Steps] /\ at'[h] = "persist" /\ "persist" \in Steps
  BY <1>1, TypeParts DEF WorkersOK, Steps
<1>3. record' \in [Handlers -> 0..MaxRecords] /\ record'[h] = 0
      /\ \A g \in Handlers : g # h => record'[g] = record[g]
  BY <1>1, TypeParts DEF WorkersOK
<1>4. WorkersOK'
  BY <1>1, <1>2, <1>3, TypeParts DEF WorkersOK
<1>5. /\ on[h] \in Instances /\ msg[h] \in 1..sent /\ who[h] \in 1..customers
      /\ where[h] \in Convs /\ status[where[h]] # "none"
  BY TypeParts DEF HandlersOK, HandlerOK, WithConversation, WithCustomer
<1>6. status'[where[h]] # "none" /\ UNCHANGED sent
  BY <1>5 DEF Grows, sent
<1>7. HandlerOK(h)'
  BY <1>1, <1>2, <1>3, <1>5, <1>6 DEF HandlerOK
<1>8. Moves(h, "persist")
  BY DEF Continues
<1> QED BY <1>1, <1>2, <1>3, <1>4, <1>7, <1>8, LearnsType

LEMMA KeywordFailsType ==
  ASSUME TypeOK, NEW h \in Handlers, KeywordFails(h)
  PROVE  TypeOK'
<1>1. at[h] \in WithConversation /\ Continues(h)
      /\ UNCHANGED <<kind, inbox, conv, consent, people>>
  BY DEF KeywordFails, WithConversation
<1>2. UNCHANGED customers
  BY <1>1 DEF inbox
<1> QED BY <1>1, <1>2, QuietStep, ContinuesType

(* Either way a reply leaves the handler well formed. *)
LEMMA RepliesType ==
  ASSUME TypeOK, NEW h \in Handlers, at[h] \in WithConversation, Replies(h), UNCHANGED <<kind, inbox>>,
         PeopleOK', Grows
  PROVE  TypeOK'
<1>1. InboxOK' /\ UNCHANGED customers
  BY InboxKept, TypeParts DEF inbox
<1>2. CASE Ack(h)
  BY <1>1, <1>2, EndsType DEF Ack
<1>3. CASE Continues(h)
  BY <1>1, <1>3, ContinuesType
<1> QED BY <1>2, <1>3 DEF Replies

LEMMA LiftsType ==
  ASSUME PeopleOK, NEW c \in Customers, Lifts(c)
  PROVE  /\ stopped' \in [Customers -> SUBSET Messages] /\ despite' \in BOOLEAN
         /\ UNCHANGED <<asks, asked>>
<1>1. stopped' \in [Customers -> SUBSET Messages]
  BY DEF PeopleOK, Lifts
<1>2. despite' \in BOOLEAN
  BY Zenon DEF PeopleOK, Lifts
<1> QED BY <1>1, <1>2 DEF Lifts

LEMMA GrantType ==
  ASSUME TypeOK, NEW h \in Handlers, Grant(h)
  PROVE  TypeOK'
<1>1. at[h] = "grant" /\ Replies(h) /\ UNCHANGED <<kind, inbox, conv, takeover>>
      /\ (UNCHANGED <<stopped, promo>> \/ Lifts(who[h]))
  BY DEF Grant, At
<1>2. PICK r \in IF record[h] = 0 THEN FreeRecords ELSE {record[h]} : Grants(r, who[h])
  BY DEF Grant
<1>3. at[h] \in WithConversation /\ who[h] \in 1..MaxCustomers
  BY <1>1, TypeParts DEF HandlersOK, HandlerOK, WithConversation, WithCustomer, InboxOK
<1>4. r \in Records /\ subject[r] \in {0, who[h]}
  BY <1>2, TypeParts DEF FreeRecords, HandlersOK, HandlerOK, WorkersOK, Records
<1>5. /\ subject' \in [Records -> 0..MaxCustomers] /\ granted' \in [Records -> BOOLEAN]
      /\ \A q \in Records : subject[q] # 0 => subject'[q] = subject[q]
  BY <1>2, <1>3, <1>4, GrantsFacts, TypeParts
<1>6. PeopleOK'
  <2>1. /\ stopped' \in [Customers -> SUBSET Messages] /\ despite' \in BOOLEAN
        /\ UNCHANGED <<asks, asked>>
    <3>1. CASE Lifts(who[h])
      BY <1>3, <3>1, LiftsType, TypeParts DEF Customers
    <3>2. CASE UNCHANGED <<stopped, promo>>
      BY <3>2, TypeParts DEF promo, PeopleOK
    <3> QED BY <1>1, <3>1, <3>2
  <2>2. UNCHANGED <<status, enabled, takeover>>
    BY <1>1 DEF conv
  <2> QED BY <1>5, <2>1, <2>2, TypeParts DEF PeopleOK
<1>7. Grows
  BY <1>1, <1>5, TypeParts DEF Grows, InboxOK, sent, inbox, conv
<1> QED BY <1>1, <1>3, <1>6, <1>7, RepliesType

LEMMA RevokedType ==
  ASSUME PeopleOK, NEW c
  PROVE  Revoked(c) \in [Records -> BOOLEAN]
  BY Zenon DEF Revoked, PeopleOK

LEMMA RevokeType ==
  ASSUME TypeOK, NEW h \in Handlers, Revoke(h)
  PROVE  TypeOK'
<1>1. at[h] = "keyword" /\ Replies(h) /\ granted' = Revoked(who[h])
      /\ stopped' = [stopped EXCEPT ![who[h]] = Handled \cup {msg[h]}]
      /\ UNCHANGED <<kind, inbox, conv, subject, promo, takeover>>
  BY DEF Revoke, At
<1>2. PeopleOK'
  <2>1. stopped' \in [Customers -> SUBSET Messages]
    <3>1. Handled \cup {msg[h]} \subseteq Messages
      BY <1>1, TypeParts DEF Handled, Messages, InboxOK, sent, HandlersOK, HandlerOK
    <3> QED BY <1>1, <3>1, TypeParts DEF PeopleOK
  <2>2. granted' \in [Records -> BOOLEAN]
    BY <1>1, RevokedType, TypeParts
  <2> QED BY <1>1, <2>1, <2>2, TypeParts DEF PeopleOK, conv, promo
<1>3. Grows
  BY <1>1, TypeParts DEF Grows, InboxOK, sent, inbox, conv
<1> QED BY <1>1, <1>2, <1>3, RepliesType DEF WithConversation

-----------------------------------------------------------------------------
(* The other actions. *)
LEMMA WriteType ==
  ASSUME TypeOK, NEW k \in Kinds, Write(k)
  PROVE  TypeOK'
<1>1. /\ kind' = Append(kind, k) /\ sent < Last
      /\ UNCHANGED <<inbox, conv, consent, handler, people>>
  BY DEF Write
<1>2. kind' \in Seq(Kinds) /\ sent' = sent + 1 /\ sent \in Nat
  BY <1>1, TypeParts DEF InboxOK, sent
<1>3. InboxOK'
  <2>1. seen' \in [Instances -> SUBSET (1..sent')]
    BY <1>1, <1>2, TypeParts DEF InboxOK, inbox
  <2>2. audited' \subseteq 1..sent' /\ sent' <= Last
    BY <1>1, <1>2, TypeParts DEF InboxOK, inbox
  <2> QED BY <1>1, <1>2, <2>1, <2>2, TypeParts DEF InboxOK, inbox
<1>4. PeopleOK'
  BY <1>1, TypeParts, PeopleKept
<1>5. Grows
  BY <1>1, <1>2, TypeParts DEF Grows, InboxOK, inbox, conv, consent
<1>6. UNCHANGED <<at, job, found>> /\ early' \subseteq Handlers
  BY <1>1, TypeParts DEF handler, WorkersOK
<1> QED BY <1>3, <1>4, <1>5, <1>6, KeptType

LEMMA DeliverType ==
  ASSUME TypeOK, NEW h \in Handlers, NEW i \in Instances, NEW m \in Messages, Deliver(h, i, m)
  PROVE  TypeOK'
<1>1. at[h] = "free" /\ m \in 1..sent
      /\ UNCHANGED <<kind, audited, rows, customers, conv, consent, people>>
  BY DEF Deliver, At, Delivers
<1>2. PeopleOK' /\ Grows
  BY <1>1, InboxStep
<1>3. /\ seen' = [seen EXCEPT ![i] = @ \cup {m}] /\ Moves(h, "dedup")
      /\ on' = [on EXCEPT ![h] = i] /\ msg' = [msg EXCEPT ![h] = m]
      /\ UNCHANGED <<who, where, bot, record, early>>
  BY DEF Deliver, found
<1>4. InboxOK'
  BY <1>1, <1>3, TypeParts DEF InboxOK, sent
<1>5. at' \in [Handlers -> Steps] /\ at'[h] = "dedup" /\ "dedup" \in Steps
  BY <1>3, TypeParts DEF WorkersOK, Moves, Steps
<1>6. on' \in [Handlers -> Instances \cup {"none"}] /\ on'[h] = i
      /\ \A g \in Handlers : g # h => on'[g] = on[g]
  BY <1>3, TypeParts DEF WorkersOK
<1>7. msg' \in [Handlers -> 0..Last] /\ msg'[h] = m
      /\ \A g \in Handlers : g # h => msg'[g] = msg[g]
  BY <1>3, TypeParts DEF WorkersOK, Messages
<1>8. WorkersOK'
  BY <1>3, <1>5, <1>6, <1>7, TypeParts DEF WorkersOK
<1>9. record[h] = 0 /\ UNCHANGED sent
  BY <1>1, TypeParts DEF HandlersOK, HandlerOK, sent
<1>10. HandlerOK(h)'
  BY <1>1, <1>3, <1>5, <1>6, <1>7, <1>9 DEF HandlerOK, WithConversation, WithCustomer
<1> QED BY <1>2, <1>3, <1>4, <1>5, <1>6, <1>7, <1>8, <1>10, LearnsType

(* The people who work on conversations and consents. *)
LEMMA EndsTakeoverType ==
  ASSUME TypeOK, NEW c, EndsTakeover(c)
  PROVE  takeover' \in 0..MaxConversations /\ early' \subseteq Handlers
<1>1. CASE takeover = c
  <2>1. takeover' = 0 /\ early' = {}
    BY <1>1 DEF EndsTakeover
  <2> QED BY <2>1, TypeParts DEF PeopleOK
<1>2. CASE takeover # c
  BY <1>2, TypeParts DEF EndsTakeover, PeopleOK, WorkersOK
<1> QED BY <1>1, <1>2

LEMMA InboxQuiet ==
  ASSUME TypeOK, UNCHANGED <<kind, inbox>>
  PROVE  InboxOK' /\ UNCHANGED <<sent, customers>> /\ sent \in Nat /\ customers \in Nat
  BY TypeParts DEF InboxOK, inbox, sent

LEMMA PauseType ==
  ASSUME TypeOK, NEW c \in Convs, Pause(c)
  PROVE  TypeOK'
<1>1. /\ enabled' = [enabled EXCEPT ![c] = FALSE]
      /\ UNCHANGED <<status, kind, inbox, consent, at, job, found, promo, stopped>>
  BY DEF Pause
<1>2. enabled' \in [Convs -> BOOLEAN]
  BY <1>1, TypeParts, Zenon DEF PeopleOK
<1>3. takeover' \in 0..MaxConversations /\ early' \subseteq Handlers
  BY TypeParts DEF Pause, PeopleOK, WorkersOK, Convs
<1>4. PeopleOK'
  BY <1>1, <1>2, <1>3, TypeParts DEF PeopleOK, consent, promo
<1>5. InboxOK' /\ Grows
  BY <1>1, InboxQuiet DEF Grows, consent
<1> QED BY <1>1, <1>3, <1>4, <1>5, KeptType

LEMMA ResumeType ==
  ASSUME TypeOK, NEW c \in Convs, Resume(c)
  PROVE  TypeOK'
<1>1. /\ enabled' = [enabled EXCEPT ![c] = TRUE] /\ EndsTakeover(c)
      /\ UNCHANGED <<status, kind, inbox, consent, at, job, found, promo, stopped>>
  BY DEF Resume
<1>2. enabled' \in [Convs -> BOOLEAN]
  BY <1>1, TypeParts, Zenon DEF PeopleOK
<1>3. takeover' \in 0..MaxConversations /\ early' \subseteq Handlers
  BY <1>1, EndsTakeoverType
<1>4. PeopleOK'
  BY <1>1, <1>2, <1>3, TypeParts DEF PeopleOK, consent, promo
<1>5. InboxOK' /\ Grows
  BY <1>1, InboxQuiet DEF Grows, consent
<1> QED BY <1>1, <1>3, <1>4, <1>5, KeptType

LEMMA CloseType ==
  ASSUME TypeOK, NEW c \in Convs, Close(c)
  PROVE  TypeOK'
<1>1. /\ status' = [status EXCEPT ![c] = "closed"] /\ EndsTakeover(c)
      /\ UNCHANGED <<enabled, kind, inbox, consent, at, job, found, promo, stopped>>
  BY DEF Close
<1>2. /\ status' \in [Convs -> {"none", "open", "closed"}]
      /\ \A d \in Convs : status[d] # "none" => status'[d] # "none"
  BY <1>1, TypeParts DEF PeopleOK
<1>3. takeover' \in 0..MaxConversations /\ early' \subseteq Handlers
  BY <1>1, EndsTakeoverType
<1>4. PeopleOK'
  BY <1>1, <1>2, <1>3, TypeParts DEF PeopleOK, consent, promo
<1>5. InboxOK' /\ Grows
  BY <1>1, <1>2, InboxQuiet DEF Grows, consent
<1> QED BY <1>1, <1>3, <1>4, <1>5, KeptType

LEMMA ReopenType ==
  ASSUME TypeOK, NEW c \in Convs, Reopen(c)
  PROVE  TypeOK'
<1>1. /\ status' = [status EXCEPT ![c] = "open"] /\ takeover' = 0 /\ early' = {}
      /\ UNCHANGED <<enabled, kind, inbox, consent, at, job, found, promo, stopped>>
  BY DEF Reopen
<1>2. /\ status' \in [Convs -> {"none", "open", "closed"}]
      /\ \A d \in Convs : status[d] # "none" => status'[d] # "none"
  BY <1>1, TypeParts DEF PeopleOK
<1>3. PeopleOK'
  BY <1>1, <1>2, TypeParts DEF PeopleOK, consent, promo
<1>4. InboxOK' /\ Grows
  BY <1>1, <1>2, InboxQuiet DEF Grows, consent
<1>5. early' \subseteq Handlers
  BY <1>1
<1> QED BY <1>1, <1>3, <1>4, <1>5, KeptType

LEMMA RecordConsentType ==
  ASSUME TypeOK, NEW c \in 1..customers, RecordConsent(c)
  PROVE  TypeOK'
<1>1. Lifts(c) /\ UNCHANGED <<kind, inbox, conv, handler, takeover>>
  BY DEF RecordConsent
<1>2. PICK r \in FreeRecords : Grants(r, c)
  BY DEF RecordConsent
<1>3. r \in Records /\ subject[r] \in {0, c} /\ c \in 1..MaxCustomers
  BY TypeParts DEF FreeRecords, InboxOK
<1>4. /\ subject' \in [Records -> 0..MaxCustomers] /\ granted' \in [Records -> BOOLEAN]
      /\ \A q \in Records : subject[q] # 0 => subject'[q] = subject[q]
  BY <1>2, <1>3, GrantsFacts, TypeParts
<1>5. PeopleOK'
  <2>1. /\ stopped' \in [Customers -> SUBSET Messages] /\ despite' \in BOOLEAN
        /\ UNCHANGED <<asks, asked>>
    BY <1>1, <1>3, LiftsType, TypeParts DEF Customers
  <2> QED BY <1>1, <1>4, <2>1, TypeParts DEF PeopleOK, conv
<1>6. InboxOK' /\ Grows
  BY <1>1, <1>4, InboxQuiet DEF Grows, conv
<1>7. UNCHANGED <<at, job, found>> /\ early' \subseteq Handlers
  BY <1>1, TypeParts DEF handler, WorkersOK
<1> QED BY <1>5, <1>6, <1>7, KeptType

LEMMA RevokeRecordType ==
  ASSUME TypeOK, NEW r \in Records, RevokeRecord(r)
  PROVE  TypeOK'
<1>1. granted' = [granted EXCEPT ![r] = FALSE]
      /\ UNCHANGED <<subject, kind, inbox, conv, handler, people>>
  BY DEF RevokeRecord
<1>2. granted' \in [Records -> BOOLEAN]
  BY <1>1, TypeParts, Zenon DEF PeopleOK
<1>3. PeopleOK'
  BY <1>1, <1>2, TypeParts DEF PeopleOK, conv, people, promo
<1>4. InboxOK' /\ Grows
  BY <1>1, InboxQuiet DEF Grows, conv
<1>5. UNCHANGED <<at, job, found>> /\ early' \subseteq Handlers
  BY <1>1, TypeParts DEF handler, WorkersOK
<1> QED BY <1>3, <1>4, <1>5, KeptType

(* The request that schedules a promotion. *)
Promotes == FindForPromotion \/ AssertMarketingConsent \/ Schedule \/ MarkSent

LEMMA PromotesType ==
  ASSUME TypeOK, Promotes
  PROVE  TypeOK'
<1>1. UNCHANGED <<kind, inbox, conv, consent, handler, stopped, takeover>>
  BY DEF Promotes, FindForPromotion, AssertMarketingConsent, Schedule, MarkSent, Elsewhere
<1>2. asks' \in {"idle", "found", "allowed", "pending"} /\ asked' \in 0..MaxCustomers
  BY TypeParts DEF Promotes, FindForPromotion, AssertMarketingConsent, Schedule, MarkSent, Done,
                   PeopleOK, InboxOK
<1>3. despite' \in BOOLEAN
  BY TypeParts, Zenon DEF Promotes, FindForPromotion, AssertMarketingConsent, Schedule, MarkSent,
                          Done, PeopleOK
<1>4. PeopleOK'
  BY <1>1, <1>2, <1>3, TypeParts DEF PeopleOK, conv, consent
<1>5. InboxOK' /\ Grows
  BY <1>1, InboxQuiet DEF Grows, conv, consent
<1>6. UNCHANGED <<at, job, found>> /\ early' \subseteq Handlers
  BY <1>1, TypeParts DEF handler, WorkersOK
<1> QED BY <1>4, <1>5, <1>6, KeptType

LEMMA ForgetsType ==
  ASSUME TypeOK, Forgets, UNCHANGED <<kind, customers, conv, consent>>
  PROVE  PeopleOK' /\ Grows
<1>1. stopped' \in [Customers -> SUBSET Messages]
  BY TypeParts DEF Forgets, PeopleOK
<1>2. PeopleOK'
  BY <1>1, TypeParts DEF Forgets, PeopleOK, conv, consent, promo
<1> QED BY <1>2, NothingShrinks, TypeParts

LEMMA ForgetWebhookType ==
  ASSUME TypeOK, NEW i \in Instances, NEW m \in Messages, ForgetWebhook(i, m)
  PROVE  TypeOK'
<1>1. Forgets /\ seen' = [seen EXCEPT ![i] = @ \ {m}]
      /\ UNCHANGED <<kind, audited, rows, customers, conv, consent, handler>>
  BY DEF ForgetWebhook
<1>2. InboxOK'
  BY <1>1, TypeParts DEF InboxOK, sent
<1>3. PeopleOK' /\ Grows
  BY <1>1, ForgetsType
<1>4. UNCHANGED <<at, job, found>> /\ early' \subseteq Handlers
  BY <1>1, TypeParts DEF handler, WorkersOK
<1> QED BY <1>2, <1>3, <1>4, KeptType

LEMMA RestartType ==
  ASSUME TypeOK, NEW i \in Instances, Restart(i)
  PROVE  TypeOK'
<1>1. Forgets /\ seen' = [seen EXCEPT ![i] = {}] /\ Ends({h \in Handlers : on[h] = i})
      /\ UNCHANGED <<kind, audited, rows, customers, conv, consent>>
  BY DEF Restart
<1>2. InboxOK'
  BY <1>1, TypeParts DEF InboxOK, sent
<1>3. PeopleOK' /\ Grows
  BY <1>1, ForgetsType
<1> QED BY <1>1, <1>2, <1>3, EndsType

LEMMA StutterType ==
  ASSUME TypeOK, UNCHANGED vars
  PROVE  TypeOK'
<1>1. UNCHANGED <<kind, inbox, conv, consent, people, at, job, found, early>>
  BY DEF vars, handler
<1>2. InboxOK' /\ PeopleOK' /\ Grows
  BY <1>1, QuietStep
<1>3. early' \subseteq Handlers
  BY <1>1, TypeParts DEF WorkersOK
<1> QED BY <1>1, <1>2, <1>3, KeptType

LEMMA NextType == TypeOK /\ [Next]_vars => TypeOK'
<1> SUFFICES ASSUME TypeOK, [Next]_vars PROVE TypeOK'
  OBVIOUS
<1>1. ASSUME NEW h \in Handlers, Handle(h) PROVE TypeOK'
  BY <1>1, CheckAuditType, WriteAuditType, CheckMessageType, FindCustomerType, CreateCustomerType,
     FindConversationType, CreateConversationType, FindConsentType, GrantType, RevokeType,
     KeywordFailsType, PersistType, BumpType, FailType DEF Handle
<1>2. CASE People
  BY <1>2, PauseType, ResumeType, CloseType, ReopenType, RecordConsentType, RevokeRecordType,
     PromotesType DEF People, Promotes
<1>3. CASE Environment
  BY <1>3, WriteType, DeliverType, ForgetWebhookType, RestartType DEF Environment
<1>4. CASE UNCHANGED vars
  BY <1>4, StutterType
<1> QED BY <1>1, <1>2, <1>3, <1>4 DEF Next

(* A handler past a step has what the step found, whatever was delivered,   *)
(* closed or revoked meanwhile.  [route.ts]                                 *)
THEOREM ConversationsTypeCorrect == Spec => []TypeOK
<1>1. Init => TypeOK
  BY InitType
<1>2. TypeOK /\ [Next]_vars => TypeOK'
  BY NextType
<1> QED BY <1>1, <1>2, PTL DEF Spec

-----------------------------------------------------------------------------
(* What a step of a handler does, seen from its deliveries: it ends, writes *)
(* the row, or goes on.  Only the step that finds no row makes it one that  *)
(* is yet to write it, and only an opt-in is on its way to a grant.         *)
Unwritten == {"customer", "new_customer", "conversation", "new_conversation", "keyword", "grant",
              "persist"}

GoesOn(h) ==
  /\ at[h] # "free" /\ UNCHANGED <<on, msg>>
  /\ \E s \in Steps \ {"free"} :
       /\ Moves(h, s)
       /\ s \in Unwritten => at[h] \in Unwritten \/ rows[msg[h]] = 0
       /\ s = "grant" => kind[msg[h]] = "opt_in"

LEMMA GoesGoesOn ==
  ASSUME NEW h \in Handlers, NEW s \in Steps \ {"free"}, Goes(h, s), at[h] # "free",
         s \in Unwritten => at[h] \in Unwritten, s # "grant"
  PROVE  GoesOn(h)
  BY DEF Goes, GoesOn, job

LEMMA ContinuesGoesOn ==
  ASSUME NEW h \in Handlers, Continues(h), at[h] \in {"keyword", "grant"}
  PROVE  GoesOn(h)
  BY DEF Continues, GoesOn, job, Steps, Unwritten

LEMMA AfterIsWritten ==
  \A h \in Handlers : AfterConversation(h) \in Steps \ {"free"} /\ AfterConversation(h) # "grant"
  BY DEF AfterConversation, Steps

LEMMA HandleShape ==
  ASSUME TypeOK, NEW h \in Handlers, Handle(h)
  PROVE  /\ seen' = seen /\ kind' = kind
         /\ \/ Persist(h)
            \/ at[h] # "free" /\ Ends({h}) /\ UNCHANGED rows
            \/ GoesOn(h) /\ UNCHANGED rows
<1> USE GoesGoesOn, ContinuesGoesOn DEF At, inbox, Ack
<1>1. CASE CheckAudit(h)
  BY <1>1 DEF CheckAudit, Steps, Unwritten
<1>2. CASE WriteAudit(h)
  BY <1>2 DEF WriteAudit, Steps, Unwritten
<1>3. CASE CheckMessage(h)
  <2>1. CASE rows[msg[h]] > 0
    BY <1>3, <2>1 DEF CheckMessage
  <2>2. CASE ~(rows[msg[h]] > 0)
    <3>1. at[h] = "known" /\ Goes(h, "customer") /\ UNCHANGED <<kind, inbox>>
      BY <1>3, <2>2 DEF CheckMessage
    <3>2. rows \in [Messages -> Nat] /\ msg[h] \in Messages
      BY <3>1, TypeParts DEF InboxOK, HandlersOK, HandlerOK, Messages, sent
    <3>3. rows[msg[h]] = 0
      BY <2>2, <3>2
    <3> QED BY <3>1, <3>3 DEF Goes, GoesOn, job, Steps
  <2> QED BY <2>1, <2>2
<1>4. CASE FindCustomer(h)
  BY <1>4 DEF FindCustomer, Keeps, GoesOn, Steps, Unwritten, job
<1>5. CASE CreateCustomer(h)
  BY <1>5 DEF CreateCustomer, Keeps, GoesOn, Steps, Unwritten, job
<1>6. CASE FindConversation(h)
  BY <1>6, AfterIsWritten DEF FindConversation, KeepsConversation, GoesOn, Steps, Unwritten, job
<1>7. CASE CreateConversation(h)
  BY <1>7, AfterIsWritten DEF CreateConversation, KeepsConversation, GoesOn, Unwritten, job
<1>8. CASE FindConsent(h)
  BY <1>8 DEF FindConsent, GoesOn, Steps, Unwritten, job
<1>9. CASE Grant(h)
  BY <1>9 DEF Grant, Replies, Steps, Unwritten
<1>10. CASE Revoke(h)
  BY <1>10 DEF Revoke, Replies, Steps, Unwritten
<1>11. CASE KeywordFails(h)
  BY <1>11 DEF KeywordFails, Steps, Unwritten
<1>12. CASE Persist(h)
  BY <1>12 DEF Persist
<1>13. CASE Bump(h)
  BY <1>13 DEF Bump
<1>14. CASE Fail(h)
  BY <1>14 DEF Fail
<1> QED BY <1>1, <1>2, <1>3, <1>4, <1>5, <1>6, <1>7, <1>8, <1>9, <1>10, <1>11, <1>12, <1>13, <1>14
        DEF Handle

LEMMA PeopleShape == People => UNCHANGED <<seen, rows, at, on, msg, kind>>
<1> USE DEF inbox, handler, job
<1>1. \A c \in Convs : Pause(c) \/ Resume(c) \/ Close(c) \/ Reopen(c) =>
        UNCHANGED <<seen, rows, at, on, msg, kind>>
  BY DEF Pause, Resume, Close, Reopen
<1>2. \A c \in 1..customers : RecordConsent(c) => UNCHANGED <<seen, rows, at, on, msg, kind>>
  BY DEF RecordConsent
<1>3. \A r \in Records : RevokeRecord(r) => UNCHANGED <<seen, rows, at, on, msg, kind>>
  BY DEF RevokeRecord
<1>4. Promotes => UNCHANGED <<seen, rows, at, on, msg, kind>>
  BY DEF Promotes, FindForPromotion, AssertMarketingConsent, Schedule, MarkSent, Elsewhere
<1> QED BY <1>1, <1>2, <1>3, <1>4 DEF People, Promotes

-----------------------------------------------------------------------------
(* One message, one row.  The instance that handles a message has it in its *)
(* memory, so that no second delivery of it is handled beside the first, and *)
(* the first has looked for the row before it writes one.                   *)
OneInstance == \A i, j \in Instances : i = j

Remembered == \A h \in Handlers : at[h] # "free" => msg[h] \in seen[on[h]]
OneEach == \A h, g \in Handlers : at[h] # "free" /\ at[g] # "free" /\ msg[h] = msg[g] => h = g
NoneYet == \A h \in Handlers : at[h] \in Unwritten => rows[msg[h]] = 0

DedupInv == Remembered /\ OneEach /\ NoneYet /\ PersistedOnce

LEMMA DedupFrame ==
  ASSUME DedupInv, UNCHANGED <<seen, rows, on, msg, at>>
  PROVE  DedupInv'
  BY DEF DedupInv, Remembered, OneEach, NoneYet, PersistedOnce

LEMMA DedupEnds ==
  ASSUME TypeOK, DedupInv, NEW hs, Ends(hs), UNCHANGED rows,
         \A h \in Handlers : h \notin hs => at[h] = "free" \/ seen'[on[h]] = seen[on[h]]
  PROVE  DedupInv'
<1>1. \A h \in Handlers : h \in hs => at'[h] = "free"
  BY EndsFacts, TypeParts
<1>2. \A h \in Handlers : h \notin hs => at'[h] = at[h] /\ on'[h] = on[h] /\ msg'[h] = msg[h]
  BY EndsFacts, TypeParts
<1>3. Remembered'
  BY <1>1, <1>2 DEF DedupInv, Remembered
<1>4. OneEach'
  BY <1>1, <1>2 DEF DedupInv, OneEach
<1>5. NoneYet'
  BY <1>1, <1>2 DEF DedupInv, NoneYet, Unwritten
<1> QED BY <1>3, <1>4, <1>5 DEF DedupInv, PersistedOnce

LEMMA DedupGoesOn ==
  ASSUME TypeOK, DedupInv, NEW h \in Handlers, GoesOn(h), UNCHANGED <<seen, rows>>
  PROVE  DedupInv'
<1>1. PICK s \in Steps \ {"free"} :
             Moves(h, s) /\ (s \in Unwritten => at[h] \in Unwritten \/ rows[msg[h]] = 0)
  BY DEF GoesOn
<1>2. at'[h] = s /\ \A g \in Handlers : g # h => at'[g] = at[g]
  BY <1>1, TypeParts DEF Moves, WorkersOK
<1>3. UNCHANGED <<on, msg>> /\ at[h] # "free"
  BY DEF GoesOn
<1>4. Remembered'
  BY <1>2, <1>3 DEF DedupInv, Remembered
<1>5. OneEach'
  BY <1>2, <1>3 DEF DedupInv, OneEach
<1>6. NoneYet'
  BY <1>1, <1>2, <1>3 DEF DedupInv, NoneYet
<1> QED BY <1>4, <1>5, <1>6 DEF DedupInv, PersistedOnce

LEMMA DedupPersist ==
  ASSUME TypeOK, DedupInv, NEW h \in Handlers, Persist(h)
  PROVE  DedupInv'
<1>1. /\ at[h] = "persist" /\ at' = [at EXCEPT ![h] = "bump"]
      /\ UNCHANGED <<on, msg, seen>> /\ rows' = [rows EXCEPT ![msg[h]] = rows[msg[h]] + 1]
  BY DEF Persist, At, Goes, Moves, job
<1>2. at'[h] = "bump" /\ \A g \in Handlers : g # h => at'[g] = at[g]
  BY <1>1, TypeParts DEF WorkersOK
<1>3. rows[msg[h]] = 0 /\ msg[h] \in Messages
  BY <1>1, TypeParts DEF DedupInv, NoneYet, Unwritten, InboxOK, HandlersOK, HandlerOK, Messages, sent
<1>4. \A m \in Messages : rows'[m] = IF m = msg[h] THEN 1 ELSE rows[m]
  BY <1>1, <1>3, TypeParts DEF InboxOK
<1>5. Remembered'
  BY <1>1, <1>2 DEF DedupInv, Remembered
<1>6. OneEach'
  BY <1>1, <1>2 DEF DedupInv, OneEach
<1>7. NoneYet'
  <2> SUFFICES ASSUME NEW g \in Handlers, at'[g] \in Unwritten PROVE rows'[msg'[g]] = 0
    BY DEF NoneYet
  <2>1. g # h /\ at'[g] = at[g] /\ at[g] # "free" /\ at[h] # "free"
    BY <1>1, <1>2 DEF Unwritten
  <2>2. msg[g] # msg[h] /\ msg'[g] = msg[g]
    BY <1>1, <2>1 DEF DedupInv, OneEach
  <2>3. msg[g] \in Messages
    BY <2>1, TypeParts DEF InboxOK, HandlersOK, HandlerOK, Messages, sent
  <2> QED BY <1>4, <2>1, <2>2, <2>3 DEF DedupInv, NoneYet
<1>8. PersistedOnce'
  BY <1>4 DEF DedupInv, PersistedOnce
<1> QED BY <1>5, <1>6, <1>7, <1>8 DEF DedupInv

LEMMA DedupDeliver ==
  ASSUME TypeOK, DedupInv, OneInstance,
         NEW h \in Handlers, NEW i \in Instances, NEW m \in Messages, Deliver(h, i, m)
  PROVE  DedupInv'
<1>1. /\ m \notin seen[i] /\ seen' = [seen EXCEPT ![i] = @ \cup {m}] /\ Moves(h, "dedup")
      /\ on' = [on EXCEPT ![h] = i] /\ msg' = [msg EXCEPT ![h] = m]
      /\ at[h] = "free" /\ UNCHANGED rows
  BY DEF Deliver, At
<1>2. at'[h] = "dedup" /\ on'[h] = i /\ msg'[h] = m
      /\ \A g \in Handlers : g # h => at'[g] = at[g] /\ on'[g] = on[g] /\ msg'[g] = msg[g]
  BY <1>1, TypeParts DEF WorkersOK, Moves
<1>3. m \in seen'[i] /\ \A j \in Instances : seen[j] \subseteq seen'[j]
  BY <1>1, TypeParts DEF InboxOK
<1>4. \A g \in Handlers : at[g] # "free" => on[g] = i /\ msg[g] # m
  BY <1>1, TypeParts DEF OneInstance, DedupInv, Remembered, HandlersOK, HandlerOK
<1>5. Remembered'
  BY <1>2, <1>3, <1>4 DEF DedupInv, Remembered
<1>6. OneEach'
  BY <1>2, <1>4 DEF DedupInv, OneEach
<1>7. NoneYet'
  BY <1>1, <1>2 DEF DedupInv, NoneYet, Unwritten
<1> QED BY <1>1, <1>5, <1>6, <1>7 DEF DedupInv, PersistedOnce

LEMMA DedupForget ==
  ASSUME TypeOK, DedupInv, NEW i \in Instances, NEW m \in Messages, ForgetWebhook(i, m)
  PROVE  DedupInv'
<1>1. /\ seen' = [seen EXCEPT ![i] = @ \ {m}] /\ ~Busy(m)
      /\ UNCHANGED <<rows, at, on, msg>>
  BY DEF ForgetWebhook, handler, job
<1>2. \A h \in Handlers : at[h] # "free" => msg[h] # m /\ on[h] \in Instances
  BY <1>1, TypeParts DEF Busy, HandlersOK, HandlerOK
<1>3. \A j \in Instances : \A n : n # m /\ n \in seen[j] => n \in seen'[j]
  BY <1>1, TypeParts DEF InboxOK
<1>4. Remembered'
  BY <1>1, <1>2, <1>3 DEF DedupInv, Remembered
<1> QED BY <1>1, <1>4 DEF DedupInv, OneEach, NoneYet, PersistedOnce

LEMMA DedupRestart ==
  ASSUME TypeOK, DedupInv, NEW i \in Instances, Restart(i)
  PROVE  DedupInv'
<1>1. seen' = [seen EXCEPT ![i] = {}] /\ Ends({h \in Handlers : on[h] = i}) /\ UNCHANGED rows
  BY DEF Restart
<1>2. \A j \in Instances : j # i => seen'[j] = seen[j]
  BY <1>1, TypeParts DEF InboxOK
<1>3. \A h \in Handlers : h \notin {g \in Handlers : on[g] = i} /\ at[h] # "free" => seen'[on[h]] = seen[on[h]]
  BY <1>2, TypeParts DEF HandlersOK, HandlerOK
<1> QED BY <1>1, <1>3, DedupEnds

LEMMA DedupInit == Init => DedupInv
  BY DEF Init, DedupInv, Remembered, OneEach, NoneYet, PersistedOnce, Unwritten

LEMMA DedupNext == OneInstance /\ TypeOK /\ DedupInv /\ [Next]_vars => DedupInv'
<1> SUFFICES ASSUME OneInstance, TypeOK, DedupInv, [Next]_vars PROVE DedupInv'
  OBVIOUS
<1>1. ASSUME NEW h \in Handlers, Handle(h) PROVE DedupInv'
  <2>1. CASE Persist(h)
    BY <2>1, DedupPersist
  <2>2. CASE Ends({h}) /\ UNCHANGED <<seen, rows>>
    BY <2>2, DedupEnds
  <2>3. CASE GoesOn(h) /\ UNCHANGED <<seen, rows>>
    BY <2>3, DedupGoesOn
  <2> QED BY <1>1, <2>1, <2>2, <2>3, HandleShape
<1>2. CASE People
  BY <1>2, PeopleShape, DedupFrame
<1>3. CASE Environment
  <2>1. ASSUME NEW k \in Kinds, Write(k) PROVE DedupInv'
    BY <2>1, DedupFrame DEF Write, inbox, handler, job
  <2> QED BY <1>3, <2>1, DedupDeliver, DedupForget, DedupRestart DEF Environment
<1>4. CASE UNCHANGED vars
  BY <1>4, DedupFrame DEF vars, inbox, handler, job
<1> QED BY <1>1, <1>2, <1>3, <1>4 DEF Next

(* With one instance a message is one row, however often it is delivered,   *)
(* and whatever fails or restarts in between.  [route.ts 230-239]           *)
THEOREM MessagePersistedOnce == OneInstance => (Spec => []PersistedOnce)
<1> SUFFICES ASSUME OneInstance PROVE Spec => []PersistedOnce
  OBVIOUS
<1>1. Init => TypeOK /\ DedupInv
  BY InitType, DedupInit
<1>2. TypeOK /\ DedupInv /\ [Next]_vars => (TypeOK /\ DedupInv)'
  BY NextType, DedupNext
<1>3. TypeOK /\ DedupInv => PersistedOnce
  BY DEF DedupInv
<1> QED BY <1>1, <1>2, <1>3, PTL DEF Spec

-----------------------------------------------------------------------------
(* The takeover.  The conversation a person has paused is the only open one, *)
(* so that a handler finds it, with its bot off; who has looked and found    *)
(* something else had looked before.                                         *)
OnlyPaused == takeover # 0 => OpenConvs = {takeover} /\ enabled[takeover] = FALSE

Looking(h) == at[h] = "new_conversation" \/ (at[h] \in WithConversation /\ bot[h] = TRUE)
LookedEarly == takeover # 0 => \A h \in Handlers : Looking(h) => h \in early

TakeoverInv == OnlyPaused /\ LookedEarly

(* A step that opens nothing and turns no bot on. *)
LEMMA TakeoverKept ==
  ASSUME TypeOK, TakeoverInv, UNCHANGED <<takeover, status>>,
         \A c \in Convs : enabled[c] = FALSE => enabled'[c] = FALSE,
         \A h \in Handlers : Looking(h)' => Looking(h) /\ (h \in early => h \in early')
  PROVE  TakeoverInv'
<1>1. OnlyPaused'
  BY DEF TakeoverInv, OnlyPaused, OpenConvs
<1>2. LookedEarly'
  BY DEF TakeoverInv, LookedEarly
<1> QED BY <1>1, <1>2 DEF TakeoverInv

LEMMA TakeoverFrame ==
  ASSUME TypeOK, TakeoverInv, UNCHANGED <<takeover, conv, handler>>
  PROVE  TakeoverInv'
  BY TakeoverKept DEF conv, handler, found, Looking

LEMMA TakeoverEnds ==
  ASSUME TypeOK, TakeoverInv, NEW hs, Ends(hs), UNCHANGED <<takeover, status>>,
         \A c \in Convs : enabled[c] = FALSE => enabled'[c] = FALSE
  PROVE  TakeoverInv'
<1>1. \A h \in Handlers : h \in hs => at'[h] = "free"
  BY EndsFacts, TypeParts
<1>2. \A h \in Handlers : h \notin hs => at'[h] = at[h] /\ bot'[h] = bot[h]
  BY EndsFacts, TypeParts
<1>3. early' = early \ hs
  BY DEF Ends
<1>4. \A h \in Handlers : Looking(h)' => Looking(h) /\ (h \in early => h \in early')
  BY <1>1, <1>2, <1>3 DEF Looking, WithConversation
<1> QED BY <1>4, TakeoverKept

(* A handler that moves on within the conversation it has found, or before. *)
LEMMA TakeoverMoves ==
  ASSUME TypeOK, TakeoverInv, NEW h \in Handlers, NEW s \in Steps \ {"new_conversation"}, Moves(h, s),
         s \in WithConversation => at[h] \in WithConversation,
         UNCHANGED <<conv, bot, early, takeover>>
  PROVE  TakeoverInv'
<1>1. at'[h] = s /\ \A g \in Handlers : g # h => at'[g] = at[g]
  BY TypeParts DEF Moves, WorkersOK
<1>2. \A g \in Handlers : Looking(g)' => Looking(g)
  BY <1>1 DEF Looking
<1> QED BY <1>2, TakeoverKept DEF conv

LEMMA TakeoverFind ==
  ASSUME TypeOK, TakeoverInv, NEW h \in Handlers, FindConversation(h)
  PROVE  TakeoverInv'
<1>1. UNCHANGED <<conv, takeover>>
  BY DEF FindConversation, people
<1>2. CASE takeover = 0
  BY <1>1, <1>2 DEF TakeoverInv, OnlyPaused, LookedEarly
<1>3. CASE takeover # 0
  <2>1. OpenConvs = {takeover} /\ enabled[takeover] = FALSE
    BY <1>3 DEF TakeoverInv, OnlyPaused
  <2>2. /\ Moves(h, AfterConversation(h)) /\ bot' = [bot EXCEPT ![h] = FALSE] /\ UNCHANGED early
    BY <2>1 DEF FindConversation, KeepsConversation
  <2>3. at'[h] # "new_conversation" /\ \A g \in Handlers : g # h => at'[g] = at[g]
    BY <2>2, TypeParts DEF Moves, WorkersOK, AfterConversation
  <2>4. bot'[h] = FALSE /\ \A g \in Handlers : g # h => bot'[g] = bot[g]
    BY <2>2, TypeParts, Zenon DEF WorkersOK
  <2>5. \A g \in Handlers : Looking(g)' => Looking(g)
    BY <2>3, <2>4 DEF Looking
  <2> QED BY <1>1, <2>2, <2>5, TakeoverKept DEF conv
<1> QED BY <1>2, <1>3

(* A second conversation is created by one that had looked before. *)
LEMMA TakeoverCreate ==
  ASSUME TypeOK, TakeoverInv, NEW h \in Handlers, CreateConversation(h)
  PROVE  TakeoverInv'
<1>1. takeover # 0 => h \in early
  BY DEF TakeoverInv, LookedEarly, Looking, CreateConversation, At
<1>2. takeover' = 0
  BY <1>1 DEF CreateConversation
<1> QED BY <1>2 DEF TakeoverInv, OnlyPaused, LookedEarly

LEMMA TakeoverContinues ==
  ASSUME TypeOK, TakeoverInv, NEW h \in Handlers, at[h] \in WithConversation, Continues(h),
         UNCHANGED <<conv, takeover>>
  PROVE  TakeoverInv'
<1>1. Moves(h, "persist") /\ UNCHANGED <<bot, early>> /\ "persist" \in Steps
  BY DEF Continues, Steps
<1> QED BY <1>1, TakeoverMoves

LEMMA TakeoverReplies ==
  ASSUME TypeOK, TakeoverInv, NEW h \in Handlers, at[h] \in WithConversation, Replies(h),
         UNCHANGED <<conv, takeover>>
  PROVE  TakeoverInv'
  BY TakeoverContinues, TakeoverEnds DEF Replies, Ack, conv

LEMMA TakeoverHandle ==
  ASSUME TypeOK, TakeoverInv, NEW h \in Handlers, Handle(h)
  PROVE  TakeoverInv'
<1> USE DEF At, people
<1>1. CASE CheckAudit(h)
  BY <1>1, TakeoverMoves, TakeoverEnds DEF CheckAudit, Ack, Goes, found, conv, Steps, WithConversation
<1>2. CASE WriteAudit(h)
  BY <1>2, TakeoverMoves DEF WriteAudit, Goes, found, Steps, WithConversation
<1>3. CASE CheckMessage(h)
  BY <1>3, TakeoverMoves, TakeoverEnds DEF CheckMessage, Ack, Goes, found, conv, Steps, WithConversation
<1>4. CASE FindCustomer(h)
  BY <1>4, TakeoverMoves DEF FindCustomer, Goes, found, Keeps, Steps, WithConversation
<1>5. CASE CreateCustomer(h)
  BY <1>5, TakeoverMoves DEF CreateCustomer, Keeps, Steps, WithConversation
<1>6. CASE FindConversation(h)
  BY <1>6, TakeoverFind
<1>7. CASE CreateConversation(h)
  BY <1>7, TakeoverCreate
<1>8. CASE FindConsent(h)
  BY <1>8, TakeoverMoves DEF FindConsent, Steps, WithConversation
<1>9. CASE Grant(h)
  BY <1>9, TakeoverReplies DEF Grant, WithConversation
<1>10. CASE Revoke(h)
  BY <1>10, TakeoverReplies DEF Revoke, WithConversation
<1>11. CASE KeywordFails(h)
  BY <1>11, TakeoverContinues DEF KeywordFails, WithConversation
<1>12. CASE Persist(h)
  BY <1>12, TakeoverMoves DEF Persist, Goes, found, Steps, WithConversation
<1>13. CASE Bump(h)
  BY <1>13, TakeoverEnds DEF Bump, Ack, conv
<1>14. CASE Fail(h)
  <2>1. \A c \in Convs : enabled[c] = FALSE => enabled'[c] = FALSE
    BY <1>14, TypeParts, Zenon DEF Fail, conv, PeopleOK
  <2> QED BY <1>14, <2>1, TakeoverEnds DEF Fail, Ack, conv
<1> QED BY <1>1, <1>2, <1>3, <1>4, <1>5, <1>6, <1>7, <1>8, <1>9, <1>10, <1>11, <1>12, <1>13, <1>14
        DEF Handle

LEMMA TakeoverPause ==
  ASSUME TypeOK, TakeoverInv, NEW c \in Convs, Pause(c)
  PROVE  TakeoverInv'
<1>1. /\ enabled' = [enabled EXCEPT ![c] = FALSE] /\ UNCHANGED <<status, at, bot>>
      /\ enabled'[c] = FALSE /\ \A d \in Convs : enabled[d] = FALSE => enabled'[d] = FALSE
  BY TypeParts, Zenon DEF Pause, found, PeopleOK
<1>2. CASE takeover' = c /\ early' = {h \in Handlers : at[h] \in Looked} /\ OpenConvs = {c}
  BY <1>1, <1>2 DEF TakeoverInv, OnlyPaused, LookedEarly, Looking, Looked, OpenConvs
<1>3. CASE UNCHANGED <<takeover, early>>
  BY <1>1, <1>3, TakeoverKept DEF Looking
<1> QED BY <1>2, <1>3 DEF Pause

LEMMA TakeoverResume ==
  ASSUME TypeOK, TakeoverInv, NEW c \in Convs, Resume(c)
  PROVE  TakeoverInv'
<1>1. /\ enabled' = [enabled EXCEPT ![c] = TRUE] /\ UNCHANGED <<status, at, bot>>
  BY DEF Resume, found
<1>2. CASE takeover = c
  BY <1>2 DEF Resume, EndsTakeover, TakeoverInv, OnlyPaused, LookedEarly
<1>3. CASE takeover # c
  <2>1. UNCHANGED <<takeover, early>>
    BY <1>3 DEF Resume, EndsTakeover
  <2>2. \A d \in Convs : d # c => enabled'[d] = enabled[d]
    BY <1>1, TypeParts, Zenon DEF PeopleOK
  <2>3. OnlyPaused'
    BY <1>1, <1>3, <2>1, <2>2 DEF TakeoverInv, OnlyPaused, OpenConvs
  <2> QED BY <1>1, <2>1, <2>3 DEF TakeoverInv, LookedEarly, Looking
<1> QED BY <1>2, <1>3

LEMMA TakeoverClose ==
  ASSUME TypeOK, TakeoverInv, NEW c \in Convs, Close(c)
  PROVE  TakeoverInv'
<1>1. takeover # 0 => takeover = c
  BY DEF Close, TakeoverInv, OnlyPaused, OpenConvs
<1>2. takeover' = 0
  BY <1>1 DEF Close, EndsTakeover
<1> QED BY <1>2 DEF TakeoverInv, OnlyPaused, LookedEarly

LEMMA TakeoverDeliver ==
  ASSUME TypeOK, TakeoverInv,
         NEW h \in Handlers, NEW i \in Instances, NEW m \in Messages, Deliver(h, i, m)
  PROVE  TakeoverInv'
<1>1. Moves(h, "dedup") /\ UNCHANGED <<conv, bot, early, takeover>>
  BY DEF Deliver, found, people
<1> QED BY <1>1, TakeoverMoves DEF Steps, WithConversation

LEMMA TakeoverNext == TypeOK /\ TakeoverInv /\ [Next]_vars => TakeoverInv'
<1> SUFFICES ASSUME TypeOK, TakeoverInv, [Next]_vars PROVE TakeoverInv'
  OBVIOUS
<1>1. ASSUME NEW h \in Handlers, Handle(h) PROVE TakeoverInv'
  BY <1>1, TakeoverHandle
<1>2. CASE People
  <2>1. ASSUME NEW c \in Convs, Reopen(c) PROVE TakeoverInv'
    BY <2>1 DEF Reopen, TakeoverInv, OnlyPaused, LookedEarly
  <2>2. ASSUME NEW c \in 1..customers, RecordConsent(c) PROVE TakeoverInv'
    BY <2>2, TakeoverFrame DEF RecordConsent
  <2>3. ASSUME NEW r \in Records, RevokeRecord(r) PROVE TakeoverInv'
    BY <2>3, TakeoverFrame DEF RevokeRecord, people
  <2>4. CASE Promotes
    BY <2>4, TakeoverFrame
       DEF Promotes, FindForPromotion, AssertMarketingConsent, Schedule, MarkSent, Elsewhere
  <2> QED BY <1>2, <2>1, <2>2, <2>3, <2>4, TakeoverPause, TakeoverResume, TakeoverClose
          DEF People, Promotes
<1>3. CASE Environment
  <2>1. ASSUME NEW k \in Kinds, Write(k) PROVE TakeoverInv'
    BY <2>1, TakeoverFrame DEF Write, people
  <2>2. ASSUME NEW i \in Instances, NEW m \in Messages, ForgetWebhook(i, m) PROVE TakeoverInv'
    BY <2>2, TakeoverFrame DEF ForgetWebhook, Forgets
  <2>3. ASSUME NEW i \in Instances, Restart(i) PROVE TakeoverInv'
    BY <2>3, TakeoverEnds DEF Restart, Forgets, conv
  <2> QED BY <1>3, <2>1, <2>2, <2>3, TakeoverDeliver DEF Environment
<1>4. CASE UNCHANGED vars
  BY <1>4, TakeoverFrame DEF vars, people
<1> QED BY <1>1, <1>2, <1>3, <1>4 DEF Next

(* While a person has the customer's only open conversation, the messages   *)
(* left to the bot are those of handlers that had looked for it before,     *)
(* however many instances and handlers there are.  [route.ts 570-589]       *)
THEOREM TakeoverIsKept == Spec => []TakeoverHolds
<1>1. Init => TypeOK /\ TakeoverInv
  BY InitType DEF Init, TakeoverInv, OnlyPaused, LookedEarly
<1>2. TypeOK /\ TakeoverInv /\ [Next]_vars => (TypeOK /\ TakeoverInv)'
  BY NextType, TakeoverNext
<1>3. TakeoverInv => TakeoverHolds
  BY DEF TakeoverInv, LookedEarly, Looking, TakeoverHolds, At, WithConversation
<1> QED BY <1>1, <1>2, <1>3, PTL DEF Spec

-----------------------------------------------------------------------------
(* The opt-out.  While a STOP is in force its customer row has no record    *)
(* granted; the opt-ins it came after are remembered, so that no handler    *)
(* takes one up again; and a promotion found despite it goes no further.    *)
OptIns == \A h \in Handlers : at[h] = "grant" => kind[msg[h]] = "opt_in"
Over(m) == m \in 1..sent /\ (kind[m] = "opt_out" \/ (~Busy(m) /\ \A i \in Instances : m \in seen[i]))
HandledBefore == \A c \in Customers : \A m \in stopped[c] : Over(m)
ByStop == \A c \in Customers : stopped[c] # {} => \E n \in stopped[c] : kind[n] = "opt_out"
Silent == \A c \in Customers : stopped[c] # {} =>
            \A r \in Records : subject[r] = c => granted[r] = FALSE
Refused == despite = TRUE => asked \in Customers /\ stopped[asked] # {} /\ asks # "allowed"

StopInv == OptIns /\ HandledBefore /\ ByStop /\ Silent /\ Refused

(* Who is at work, and with what, after any step but a delivery. *)
Carries(h) ==
  at'[h] # "free" => /\ at[h] # "free" /\ msg'[h] = msg[h]
                     /\ at'[h] = "grant" => at[h] = "grant" \/ kind[msg[h]] = "opt_in"

LEMMA EndsCarries ==
  ASSUME TypeOK, NEW hs, Ends(hs)
  PROVE  \A h \in Handlers : Carries(h)
  BY EndsFacts, TypeParts DEF Carries

LEMMA CarriesOn ==
  ASSUME TypeOK, NEW h \in Handlers, Handle(h)
  PROVE  \A g \in Handlers : Carries(g)
<1>1. CASE Persist(h)
  <2>1. at' = [at EXCEPT ![h] = "bump"] /\ UNCHANGED msg /\ at[h] = "persist"
    BY <1>1 DEF Persist, At, Goes, Moves, job
  <2> QED BY <2>1, TypeParts DEF Carries, WorkersOK
<1>2. CASE Ends({h})
  BY <1>2, EndsCarries
<1>3. CASE GoesOn(h)
  <2>1. PICK s \in Steps \ {"free"} : Moves(h, s) /\ (s = "grant" => kind[msg[h]] = "opt_in")
    BY <1>3 DEF GoesOn
  <2>2. at[h] # "free" /\ UNCHANGED msg
    BY <1>3 DEF GoesOn
  <2> QED BY <2>1, <2>2, TypeParts DEF Carries, Moves, WorkersOK
<1> QED BY <1>1, <1>2, <1>3, HandleShape

(* What was over stays over while nothing is taken up or forgotten. *)
LEMMA OverKept ==
  ASSUME NEW m, Over(m), UNCHANGED kind, \A h \in Handlers : Carries(h),
         \A i \in Instances : m \in seen[i] => m \in seen'[i]
  PROVE  Over(m)'
  BY DEF Over, Busy, Carries, sent

LEMMA OptInsKept ==
  ASSUME OptIns, UNCHANGED kind, \A h \in Handlers : Carries(h)
  PROVE  OptIns'
  BY DEF OptIns, Carries

(* A step that leaves the consents and the promotion alone, or takes away.  *)
LEMMA StopKept ==
  ASSUME TypeOK, StopInv, UNCHANGED <<kind, subject, stopped, promo>>,
         \A h \in Handlers : Carries(h), \A i \in Instances : seen[i] \subseteq seen'[i],
         \A r \in Records : granted[r] = FALSE => granted'[r] = FALSE
  PROVE  StopInv'
<1>1. OptIns'
  BY OptInsKept DEF StopInv
<1>2. HandledBefore'
  BY OverKept DEF StopInv, HandledBefore
<1>3. ByStop' /\ Silent' /\ Refused'
  BY DEF StopInv, ByStop, Silent, Refused, promo
<1> QED BY <1>1, <1>2, <1>3 DEF StopInv

LEMMA StopFrame ==
  ASSUME TypeOK, StopInv, UNCHANGED <<kind, seen, consent, stopped, promo, at, msg>>
  PROVE  StopInv'
  BY StopKept DEF Carries, consent

(* A record of the customer is granted, and its opt-out is over. *)
LEMMA StopLifted ==
  ASSUME TypeOK, StopInv, NEW r \in Records, NEW c \in Customers, Grants(r, c), Lifts(c),
         subject[r] \in {0, c}, UNCHANGED <<kind, seen>>, \A h \in Handlers : Carries(h)
  PROVE  StopInv'
<1>1. OptIns'
  BY OptInsKept DEF StopInv
<1>2. stopped'[c] = {} /\ \A d \in Customers : d # c => stopped'[d] = stopped[d]
  BY TypeParts DEF Lifts, PeopleOK
<1>3. HandledBefore'
  <2> SUFFICES ASSUME NEW d \in Customers, NEW m \in stopped'[d] PROVE Over(m)'
    BY DEF HandledBefore
  <2>1. d # c /\ Over(m)
    BY <1>2 DEF StopInv, HandledBefore
  <2> QED BY <2>1, OverKept
<1>4. ByStop'
  BY <1>2 DEF StopInv, ByStop
<1>5. Silent'
  <2> SUFFICES ASSUME NEW d \in Customers, stopped'[d] # {}, NEW q \in Records, subject'[q] = d
               PROVE  granted'[q] = FALSE
    BY DEF Silent
  <2>1. d # c /\ stopped[d] # {}
    BY <1>2
  <2>2. q # r
    BY <2>1, TypeParts DEF Grants, PeopleOK
  <2>3. subject[q] = d
    BY <2>2, TypeParts DEF Grants, PeopleOK
  <2>4. granted[q] = FALSE
    BY <2>1, <2>3 DEF StopInv, Silent
  <2> QED BY <2>2, <2>4, TypeParts, Zenon DEF Grants, PeopleOK
<1>6. Refused'
  BY <1>2, TypeParts DEF StopInv, Refused, Lifts, PeopleOK
<1> QED BY <1>1, <1>3, <1>4, <1>5, <1>6 DEF StopInv

LEMMA StopGrant ==
  ASSUME TypeOK, StopInv, NEW h \in Handlers, Grant(h)
  PROVE  StopInv'
<1>1. at[h] = "grant" /\ UNCHANGED <<kind, inbox>>
  BY DEF Grant, At
<1>2. PICK r \in IF record[h] = 0 THEN FreeRecords ELSE {record[h]} : Grants(r, who[h])
  BY DEF Grant
<1>3. who[h] \in Customers /\ msg[h] \in 1..sent
  BY <1>1, TypeParts DEF HandlersOK, HandlerOK, WithConversation, WithCustomer, InboxOK, Customers
<1>4. r \in Records /\ subject[r] \in {0, who[h]}
  BY <1>2, TypeParts DEF FreeRecords, HandlersOK, HandlerOK, WorkersOK, Records
<1>5. msg[h] \notin stopped[who[h]]
  <2>1. Busy(msg[h]) /\ kind[msg[h]] = "opt_in"
    BY <1>1 DEF StopInv, OptIns, Busy
  <2> QED BY <1>3, <2>1 DEF StopInv, HandledBefore, Over
<1>6. Lifts(who[h])
  BY <1>5 DEF Grant
<1>7. \A g \in Handlers : Carries(g)
  BY CarriesOn DEF Handle
<1> QED BY <1>1, <1>2, <1>3, <1>4, <1>6, <1>7, StopLifted DEF inbox

LEMMA StopRevoke ==
  ASSUME TypeOK, StopInv, NEW h \in Handlers, Revoke(h)
  PROVE  StopInv'
<1>1. /\ at[h] = "keyword" /\ kind[msg[h]] = "opt_out" /\ granted' = Revoked(who[h])
      /\ stopped' = [stopped EXCEPT ![who[h]] = Handled \cup {msg[h]}]
      /\ UNCHANGED <<kind, seen, subject, promo>>
  BY DEF Revoke, At, inbox
<1>2. who[h] \in Customers /\ msg[h] \in 1..sent
  BY <1>1, TypeParts DEF HandlersOK, HandlerOK, WithConversation, WithCustomer, InboxOK, Customers
<1>3. stopped'[who[h]] = Handled \cup {msg[h]}
      /\ \A d \in Customers : d # who[h] => stopped'[d] = stopped[d]
  BY <1>1, <1>2, TypeParts DEF PeopleOK
<1>4. \A g \in Handlers : Carries(g)
  BY CarriesOn DEF Handle
<1>5. OptIns'
  BY <1>1, <1>4, OptInsKept DEF StopInv
<1>6. HandledBefore'
  <2> SUFFICES ASSUME NEW d \in Customers, NEW m \in stopped'[d] PROVE Over(m)'
    BY DEF HandledBefore
  <2>1. Over(m)
    <3>1. CASE d = who[h]
      BY <1>1, <1>2, <1>3, <3>1 DEF Over, Handled
    <3>2. CASE d # who[h]
      BY <1>3, <3>2 DEF StopInv, HandledBefore
    <3> QED BY <3>1, <3>2
  <2> QED BY <1>1, <1>4, <2>1, OverKept
<1>7. ByStop'
  BY <1>1, <1>3 DEF StopInv, ByStop
<1>8. Silent'
  <2> SUFFICES ASSUME NEW d \in Customers, stopped'[d] # {}, NEW q \in Records, subject[q] = d
               PROVE  granted'[q] = FALSE
    BY <1>1 DEF Silent
  <2>1. granted'[q] = (granted[q] /\ q \notin RecordsOf(who[h]))
    BY <1>1, Zenon DEF Revoked
  <2>2. CASE d = who[h]
    BY <2>1, <2>2 DEF RecordsOf
  <2>3. CASE d # who[h]
    <3>1. granted[q] = FALSE
      BY <1>3, <2>3 DEF StopInv, Silent
    <3> QED BY <2>1, <3>1
  <2> QED BY <2>2, <2>3
<1>9. Refused'
  BY <1>1, <1>3 DEF StopInv, Refused, promo
<1> QED BY <1>5, <1>6, <1>7, <1>8, <1>9 DEF StopInv

LEMMA StopHandle ==
  ASSUME TypeOK, StopInv, NEW h \in Handlers, Handle(h)
  PROVE  StopInv'
<1>1. CASE Grant(h)
  BY <1>1, StopGrant
<1>2. CASE Revoke(h)
  BY <1>2, StopRevoke
<1>3. CASE ~Grant(h) /\ ~Revoke(h)
  <2>1. UNCHANGED <<consent, stopped, promo>>
    BY <1>3 DEF Handle, CheckAudit, WriteAudit, CheckMessage, FindCustomer, CreateCustomer,
         FindConversation, CreateConversation, FindConsent, KeywordFails, Persist, Bump, Fail, people
  <2>2. UNCHANGED <<kind, seen>>
    BY HandleShape
  <2> QED BY <2>1, <2>2, CarriesOn, StopKept DEF consent
<1> QED BY <1>1, <1>2, <1>3

(* The request: what it found despite a STOP has no record to rest on. *)
LEMMA StopPromotes ==
  ASSUME TypeOK, StopInv, Promotes
  PROVE  StopInv'
<1>1. UNCHANGED <<kind, seen, consent, stopped, at, msg>>
  BY DEF Promotes, FindForPromotion, AssertMarketingConsent, Schedule, MarkSent, Elsewhere,
         inbox, handler, job
<1>2. OptIns' /\ HandledBefore' /\ ByStop' /\ Silent'
  BY <1>1 DEF StopInv, OptIns, HandledBefore, Over, Busy, sent, ByStop, Silent, consent
<1>3. Refused'
  <2>1. CASE FindForPromotion
    <3>1. asks' = "found" /\ asked' \in Customers
      BY <2>1, TypeParts DEF FindForPromotion, InboxOK, Customers
    <3>2. despite' = TRUE => stopped[asked'] # {}
      BY <2>1, Zenon DEF FindForPromotion
    <3> QED BY <1>1, <3>1, <3>2 DEF Refused
  <2>2. CASE AssertMarketingConsent
    <3>1. CASE \E r \in RecordsOf(asked) : granted[r]
      <4>1. despite # TRUE
        BY <3>1 DEF StopInv, Refused, Silent, RecordsOf
      <4>2. UNCHANGED despite
        BY <2>2, <3>1 DEF AssertMarketingConsent
      <4> QED BY <4>1, <4>2 DEF Refused
    <3>2. CASE ~\E r \in RecordsOf(asked) : granted[r]
      BY <2>2, <3>2 DEF AssertMarketingConsent, Done, Refused
    <3> QED BY <3>1, <3>2
  <2>3. CASE Schedule \/ MarkSent
    BY <2>3 DEF Schedule, MarkSent, Done, Refused
  <2> QED BY <2>1, <2>2, <2>3 DEF Promotes
<1> QED BY <1>2, <1>3 DEF StopInv

LEMMA StopPeople ==
  ASSUME TypeOK, StopInv, People
  PROVE  StopInv'
<1>1. ASSUME NEW c \in Convs, Pause(c) \/ Resume(c) \/ Close(c) \/ Reopen(c) PROVE StopInv'
  BY <1>1, StopFrame DEF Pause, Resume, Close, Reopen, inbox, job
<1>2. ASSUME NEW c \in 1..customers, RecordConsent(c) PROVE StopInv'
  <2>1. PICK r \in FreeRecords : Grants(r, c)
    BY <1>2 DEF RecordConsent
  <2>2. r \in Records /\ subject[r] = 0 /\ c \in Customers
    BY TypeParts DEF FreeRecords, InboxOK, Customers
  <2>3. Lifts(c) /\ UNCHANGED <<kind, seen, at, msg>>
    BY <1>2 DEF RecordConsent, inbox, handler, job
  <2>4. \A h \in Handlers : Carries(h)
    BY <2>3 DEF Carries
  <2> QED BY <2>1, <2>2, <2>3, <2>4, StopLifted
<1>3. ASSUME NEW r \in Records, RevokeRecord(r) PROVE StopInv'
  <2>1. \A q \in Records : granted[q] = FALSE => granted'[q] = FALSE
    BY <1>3, TypeParts, Zenon DEF RevokeRecord, PeopleOK
  <2>2. UNCHANGED <<kind, subject, stopped, promo, seen, at, msg>>
    BY <1>3 DEF RevokeRecord, inbox, handler, job, people
  <2> QED BY <2>1, <2>2, StopKept DEF Carries
<1> QED BY <1>1, <1>2, <1>3, StopPromotes DEF People, Promotes

(* A message taken up was not remembered. *)
LEMMA StopDeliver ==
  ASSUME TypeOK, StopInv,
         NEW h \in Handlers, NEW i \in Instances, NEW m \in Messages, Deliver(h, i, m)
  PROVE  StopInv'
<1>1. /\ m \notin seen[i] /\ at' = [at EXCEPT ![h] = "dedup"] /\ msg' = [msg EXCEPT ![h] = m]
      /\ seen' = [seen EXCEPT ![i] = @ \cup {m}]
      /\ UNCHANGED <<kind, consent, stopped, promo>>
  BY DEF Deliver, Moves, people
<1>2. at'[h] = "dedup" /\ msg'[h] = m
      /\ \A g \in Handlers : g # h => at'[g] = at[g] /\ msg'[g] = msg[g]
  BY <1>1, TypeParts DEF WorkersOK
<1>3. \A j \in Instances : seen[j] \subseteq seen'[j]
  BY <1>1, TypeParts DEF InboxOK
<1>4. OptIns'
  BY <1>1, <1>2 DEF StopInv, OptIns
<1>5. ASSUME NEW n, Over(n) PROVE Over(n)'
  <2>1. kind[n] = "opt_out" \/ n # m
    BY <1>1, <1>5 DEF Over
  <2> QED BY <1>1, <1>2, <1>3, <1>5, <2>1 DEF Over, Busy, sent
<1>6. HandledBefore'
  BY <1>1, <1>5 DEF StopInv, HandledBefore
<1>7. ByStop' /\ Silent' /\ Refused'
  BY <1>1 DEF StopInv, ByStop, Silent, Refused, consent, promo
<1> QED BY <1>4, <1>6, <1>7 DEF StopInv

(* What is forgotten no longer counts; the STOP does. *)
LEMMA StopForgets ==
  ASSUME TypeOK, StopInv, Forgets, UNCHANGED <<kind, consent>>, \A h \in Handlers : Carries(h)
  PROVE  StopInv'
<1>1. UNCHANGED promo /\ \A c \in Customers :
        stopped'[c] = {m \in stopped[c] : kind[m] = "opt_out" \/ \A i \in Instances : m \in seen'[i]}
  BY DEF Forgets
<1>2. OptIns'
  BY OptInsKept DEF StopInv
<1>3. HandledBefore'
  <2> SUFFICES ASSUME NEW c \in Customers, NEW m \in stopped'[c] PROVE Over(m)'
    BY DEF HandledBefore
  <2>1. Over(m) /\ (kind[m] = "opt_out" \/ \A i \in Instances : m \in seen'[i])
    BY <1>1 DEF StopInv, HandledBefore
  <2> QED BY <2>1 DEF Over, Busy, Carries, sent
<1>4. \A c \in Customers : stopped[c] # {} <=> stopped'[c] # {}
  BY <1>1 DEF StopInv, ByStop
<1>5. ByStop'
  BY <1>1 DEF StopInv, ByStop
<1>6. Silent' /\ Refused'
  BY <1>1, <1>4 DEF StopInv, Silent, Refused, consent, promo
<1> QED BY <1>2, <1>3, <1>5, <1>6 DEF StopInv

LEMMA StopWrite ==
  ASSUME TypeOK, StopInv, NEW k \in Kinds, Write(k)
  PROVE  StopInv'
<1>1. kind' = Append(kind, k) /\ UNCHANGED <<seen, consent, stopped, promo, at, msg>>
  BY DEF Write, inbox, handler, job, people
<1>2. sent \in Nat /\ sent' = sent + 1 /\ \A m \in 1..sent : kind'[m] = kind[m]
  BY <1>1, TypeParts DEF InboxOK, sent
<1>3. OptIns'
  BY <1>1, <1>2, TypeParts DEF StopInv, OptIns, HandlersOK, HandlerOK
<1>4. ASSUME NEW m, Over(m) PROVE Over(m)'
  <2>1. m \in 1..sent /\ m \in 1..sent' /\ kind'[m] = kind[m]
    BY <1>2, <1>4 DEF Over
  <2> QED BY <1>1, <1>4, <2>1 DEF Over, Busy
<1>5. HandledBefore'
  BY <1>1, <1>4 DEF StopInv, HandledBefore
<1>6. ByStop'
  BY <1>1, <1>2 DEF StopInv, ByStop, HandledBefore, Over
<1>7. Silent' /\ Refused'
  BY <1>1 DEF StopInv, Silent, Refused, consent, promo
<1> QED BY <1>3, <1>5, <1>6, <1>7 DEF StopInv

LEMMA StopEnvironment ==
  ASSUME TypeOK, StopInv, Environment
  PROVE  StopInv'
<1>1. ASSUME NEW i \in Instances, NEW m \in Messages, ForgetWebhook(i, m) PROVE StopInv'
  BY <1>1, StopForgets DEF ForgetWebhook, handler, job, Carries
<1>2. ASSUME NEW i \in Instances, Restart(i) PROVE StopInv'
  BY <1>2, StopForgets, EndsCarries DEF Restart
<1> QED BY <1>1, <1>2, StopWrite, StopDeliver DEF Environment

LEMMA StopNext == TypeOK /\ StopInv /\ [Next]_vars => StopInv'
<1>1. ASSUME TypeOK, StopInv, UNCHANGED vars PROVE StopInv'
  BY <1>1, StopFrame DEF vars, inbox, handler, job, people
<1> QED BY <1>1, StopHandle, StopPeople, StopEnvironment DEF Next

LEMMA StopInit == Init => StopInv
  BY DEF Init, StopInv, OptIns, HandledBefore, ByStop, Silent, Refused

(* For any number of instances, handlers, messages, customer rows and       *)
(* records, a promotion asked for while a STOP of its customer is in force  *)
(* is refused; what ends a STOP is the consent route, or an opt-in that was *)
(* not over when it came, or that was forgotten since.                      *)
(* [route.ts 456-472, assertMarketingConsent]                               *)
THEOREM StopIsObeyed == Spec => []StopIsHeard
<1>1. Init => TypeOK /\ StopInv
  BY InitType, StopInit
<1>2. TypeOK /\ StopInv /\ [Next]_vars => (TypeOK /\ StopInv)'
  BY NextType, StopNext
<1>3. TypeOK /\ StopInv => StopIsHeard
  BY TypeParts, Zenon DEF StopInv, Refused, StopIsHeard, PeopleOK
<1> QED BY <1>1, <1>2, <1>3, PTL DEF Spec

=============================================================================
