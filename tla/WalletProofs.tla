---------------------------- MODULE WalletProofs ----------------------------
(***************************************************************************)
(* Proofs about Wallet for every set of traffickers, withdrawals, sales,   *)
(* handlers and amounts.                                                   *)
(***************************************************************************)
EXTENDS Wallet, SequenceTheorems, TLAPS

(* Compensations are natural numbers: failSale never debits.                *)
LEMMA CompensationNat ==
  ASSUME NEW n \in Nat, NEW q \in {1, 2, 4}
  PROVE  Compensation(n, q) \in Nat
<1>1. CASE q = 1
  <2>1. n * 1 = n
    OBVIOUS
  <2> QED BY <1>1, <2>1, SMT DEF Compensation
<1>2. CASE q = 2
  BY <1>2, SMT DEF Compensation
<1>3. CASE q = 4
  BY <1>3, SMT DEF Compensation
<1> QED BY <1>1, <1>2, <1>3

(* Facts about the handlers that hold on both databases: a running call has *)
(* an owner, a sale that exists has one, and the amounts are in range.      *)
CallSane(c) ==
  /\ phase[c] # "idle" => call[c].acct \in Traffickers
  /\ call[c].kind = "request" => call[c].amount \in Nat
  /\ call[c].kind \in {"confirm", "fail"} =>
       call[c].ref \in Sales /\ sale[call[c].ref].owner \in Traffickers
  /\ call[c].kind = "withdraw" => call[c].ref \in Withdrawals
  /\ phase[c] = "snapshot" => call[c].kind = "withdraw"
  /\ phase[c] = "locked" => call[c].kind = "fail"
  /\ call[c].kind = "fail" /\ phase[c] = "ready" => call[c].amount \in {1, 2, 4}
  /\ call[c].kind \in {"confirm", "fail"} /\ InTx(c) => call[c].amount >= 0

CallsSane ==
  /\ phase \in [Calls -> Phases]
  /\ call \in [Calls -> [kind: Kinds, acct: Owners, ref: Refs,
                         amount: Int, live: Int]]
  /\ \A c \in Calls : CallSane(c)

SalesOwned ==
  \A s \in Sales : saleStatus[s] # "absent" => sale[s].owner \in Traffickers

Typed == TypeOK /\ SalesOwned /\ CallsSane

LEMMA TypedInit == Init => Typed
BY WalletAssumption DEF Init, Typed, TypeOK, SalesOwned, CallsSane, CallSane, NoCall,
   Data, Kinds, Phases, Refs, Owners, InTx

(* A call that moves with sane data leaves every call sane.                 *)
LEMMA GoSane ==
  ASSUME Typed, NEW c \in Calls, NEW p \in Phases,
         NEW k \in Kinds, NEW t \in Owners, NEW r \in Refs,
         NEW a \in Int, NEW l \in Int,
         Go(c, p, Data(k, t, r, a, l)), UNCHANGED sale,
         p # "idle" => t \in Traffickers,
         k = "request" => a \in Nat,
         k \in {"confirm", "fail"} => r \in Sales /\ sale[r].owner \in Traffickers,
         k = "withdraw" => r \in Withdrawals,
         p = "snapshot" => k = "withdraw",
         p = "locked" => k = "fail",
         k = "fail" /\ p = "ready" => a \in {1, 2, 4},
         k \in {"confirm", "fail"} /\ p \in {"tx", "locked"} => a >= 0
  PROVE  CallsSane'
BY DEF Go, Data, Typed, TypeOK, CallsSane, CallSane, InTx

LEMMA EndSane ==
  ASSUME Typed, NEW c \in Calls, End(c), UNCHANGED sale
  PROVE  CallsSane'
BY DEF End, Go, NoCall, Data, Typed, TypeOK, CallsSane, CallSane, InTx, Kinds,
   Phases, Owners, Refs

LEMMA StartTyped ==
  ASSUME Typed, NEW c \in Calls, StartCall(c)
  PROVE  Typed'
<1> DEFINE Rest == UNCHANGED <<books, requests, sales, twoFactor>>
<1>0. ASSUME Rest, CallsSane' PROVE Typed'
  BY <1>0 DEF Typed, TypeOK, SalesOwned, CallsSane, books, requests, sales
<1>a. None \in Refs /\ \A x \in Withdrawals \cup Sales : x \in Refs
  BY DEF Refs
<1>b. \A t \in Traffickers : t \in Owners
  BY DEF Owners
<1>c. \A a \in Amounts : a \in Nat /\ a \in Int /\ -a \in Int
  BY WalletAssumption
<1>1. ASSUME NEW t \in Traffickers, NEW a \in Amounts, StartRequest(c, t, a)
      PROVE  Typed'
  <2>1. Go(c, "ready", Data("request", t, None, a, 0)) /\ Rest /\ UNCHANGED sale
    BY <1>1 DEF StartRequest, Start, sales
  <2>2. CallsSane'
    BY <2>1, <1>a, <1>b, <1>c, GoSane DEF Phases, Kinds
  <2> QED BY <1>0, <2>1, <2>2
<1>2. ASSUME NEW t \in Traffickers, NEW a \in Int, StartRecord(c, t, a)
      PROVE  Typed'
  <2>1. Go(c, "ready", Data("record", t, None, a, 0)) /\ Rest /\ UNCHANGED sale
    BY <1>2 DEF StartRecord, Start, sales
  <2>2. CallsSane'
    BY <2>1, <1>a, <1>b, GoSane DEF Phases, Kinds
  <2> QED BY <1>0, <2>1, <2>2
<1>3. ASSUME NEW t \in Traffickers, NEW w \in Withdrawals, StartWithdraw(c, t, w)
      PROVE  Typed'
  <2>2. PICK l \in Int : l = balance[t]
    BY DEF Typed, TypeOK
  <2>1. Go(c, "snapshot", Data("withdraw", t, w, 0, l)) /\ Rest /\ UNCHANGED sale
    BY <1>3, <2>2 DEF StartWithdraw, Start, sales
  <2>3. CallsSane'
    BY <2>1, <1>a, <1>b, GoSane DEF Phases, Kinds
  <2> QED BY <1>0, <2>1, <2>3
<1>4. ASSUME NEW s \in Sales, StartConfirm(c, s)
      PROVE  Typed'
  <2>1. /\ Go(c, "ready", Data("confirm", sale[s].owner, s, 0, 0))
        /\ Rest /\ UNCHANGED sale
    BY <1>4 DEF StartConfirm, Start, sales
  <2>2. sale[s].owner \in Traffickers
    BY <1>4 DEF StartConfirm, Typed, SalesOwned
  <2>3. CallsSane'
    BY <2>1, <2>2, <1>a, <1>b, GoSane DEF Phases, Kinds
  <2> QED BY <1>0, <2>1, <2>3
<1>5. ASSUME NEW s \in Sales, NEW q \in {1, 2, 4}, StartFail(c, s, q)
      PROVE  Typed'
  <2>1. /\ Go(c, "ready", Data("fail", sale[s].owner, s, q, 0))
        /\ Rest /\ UNCHANGED sale
    BY <1>5 DEF StartFail, Start, sales
  <2>2. sale[s].owner \in Traffickers
    BY <1>5 DEF StartFail, Typed, SalesOwned
  <2>3. CallsSane'
    BY <2>1, <2>2, <1>a, <1>b, GoSane DEF Phases, Kinds
  <2> QED BY <1>0, <2>1, <2>3
<1> QED BY <1>1, <1>2, <1>3, <1>4, <1>5, <1>c, StartCall(c) DEF StartCall

LEMMA PostTyped ==
  ASSUME Typed, NEW c \in Calls, phase[c] # "idle", PostRow(c)
  PROVE  /\ ledger' \in [Traffickers -> Seq(Row)]
         /\ posted' \in [Traffickers -> Int]
<1> DEFINE t == call[c].acct
           r == [kind |-> call[c].kind, ref |-> call[c].ref,
                 before |-> call[c].live, after |-> call[c].live + call[c].amount]
<1>0. t \in Traffickers
  BY DEF Typed, CallsSane, CallSane
<1>1. r \in Row
  BY DEF Typed, TypeOK, Row
<1>2. Append(ledger[t], r) \in Seq(Row)
  BY <1>0, <1>1 DEF Typed, TypeOK
<1>3. posted[t] + call[c].amount \in Int
  BY <1>0 DEF Typed, TypeOK
<1> QED BY <1>0, <1>2, <1>3 DEF PostRow, Typed, TypeOK

LEMMA MoveTyped ==
  ASSUME Typed, NEW c \in Calls, phase[c] # "idle",
         MoveRelative(c) \/ MoveAbsolute(c)
  PROVE  balance' \in [Traffickers -> Int]
BY DEF Typed, CallsSane, CallSane, TypeOK, MoveRelative, MoveAbsolute

LEMMA StepTyped ==
  ASSUME Typed, NEW c \in Calls, StepCall(c)
  PROVE  Typed'
<1> USE DEF books, requests, sales
<1>1. CASE CheckWithdrawal(c)
  <2>1. /\ call[c].kind = "withdraw" /\ call[c].acct \in Traffickers
        /\ call[c].ref \in Withdrawals /\ call[c].live \in Int
        /\ call[c].ref \in Refs /\ call[c].acct \in Owners
    BY <1>1 DEF CheckWithdrawal, Typed, CallsSane, CallSane, TypeOK
  <2>2. -withdrawal[call[c].ref].amount \in Int
    BY <2>1 DEF Typed, TypeOK
  <2>3. CallsSane'
    <3>1. CASE Payable(c)
      BY <1>1, <2>1, <2>2, <3>1, GoSane DEF CheckWithdrawal, Kinds, Phases
    <3>2. CASE ~Payable(c)
      BY <1>1, <3>2, EndSane DEF CheckWithdrawal
    <3> QED BY <3>1, <3>2
  <2> QED BY <1>1, <2>3 DEF CheckWithdrawal, Typed, TypeOK, SalesOwned, CallsSane
<1>2. ASSUME NEW w \in Withdrawals, CreateWithdrawalRequest(c, w)
      PROVE  Typed'
  <2>1. call[c].acct \in Owners /\ call[c].amount \in Nat
    BY <1>2 DEF CreateWithdrawalRequest, Typed, TypeOK, CallsSane, CallSane
  <2> QED BY <1>2, <2>1, EndSane
          DEF CreateWithdrawalRequest, Typed, TypeOK, SalesOwned, CallsSane
<1>3. CASE OpenTx(c)
  <2>1. /\ call[c].acct \in Traffickers /\ call[c].kind \in Kinds
        /\ call[c].ref \in Refs /\ call[c].acct \in Owners
    BY <1>3 DEF OpenTx, Typed, TypeOK, CallsSane, CallSane
  <2>2. balance[call[c].acct] \in Int
    BY <2>1 DEF Typed, TypeOK
  <2>3. /\ TxAmount(c) \in Int
        /\ call[c].kind \in {"confirm", "fail"} => TxAmount(c) >= 0
    <3>1. CASE call[c].kind = "confirm"
      BY <1>3, <3>1 DEF OpenTx, TxAmount, Typed, TypeOK, CallsSane, CallSane
    <3>2. CASE call[c].kind = "fail"
      <4>1. /\ call[c].amount \in {1, 2, 4}
            /\ sale[call[c].ref].commission \in Nat
        BY <1>3, <3>2 DEF OpenTx, Typed, TypeOK, CallsSane, CallSane
      <4>2. TxAmount(c) = Compensation(sale[call[c].ref].commission, call[c].amount)
        BY <3>2 DEF TxAmount
      <4> QED BY <4>1, <4>2, CompensationNat
    <3>3. CASE call[c].kind \notin {"confirm", "fail"}
      BY <3>3 DEF TxAmount, Typed, TypeOK
    <3> QED BY <3>1, <3>2, <3>3
  <2>4. /\ call[c].kind \in {"confirm", "fail"} =>
             call[c].ref \in Sales /\ sale[call[c].ref].owner \in Traffickers
        /\ call[c].kind = "withdraw" => call[c].ref \in Withdrawals
        /\ call[c].kind # "request"
    BY <1>3 DEF OpenTx, Typed, CallsSane, CallSane
  <2>5. CallsSane'
    <3>1. PICK l \in Int : l = balance[call[c].acct]
      BY <2>2
    <3>2. PICK a \in Int : a = TxAmount(c)
      BY <2>3
    <3>3. /\ Go(c, "tx", Data(call[c].kind, call[c].acct, call[c].ref, a, l))
          /\ UNCHANGED sale
      BY <1>3, <3>1, <3>2 DEF OpenTx, sales
    <3>4. call[c].kind \in {"confirm", "fail"} => a >= 0
      BY <2>3, <3>2
    <3> QED BY <2>1, <2>4, <3>3, <3>4, GoSane DEF Phases
  <2> QED BY <1>3, <2>5 DEF OpenTx, Typed, TypeOK, SalesOwned, CallsSane
<1>4. CASE LockSale(c)
  <2>1. /\ call[c].acct \in Traffickers /\ call[c].acct \in Owners
        /\ call[c].ref \in Refs /\ call[c].ref \in Sales
        /\ sale[call[c].ref].owner \in Traffickers
        /\ call[c].amount \in Int /\ call[c].amount >= 0
    BY <1>4 DEF LockSale, Typed, TypeOK, CallsSane, CallSane, InTx
  <2>2. balance[call[c].acct] \in Int
    BY <2>1 DEF Typed, TypeOK
  <2>3. CallsSane'
    <3>1. PICK l \in Int : l = balance[call[c].acct]
      BY <2>2
    <3>2. /\ Go(c, "locked", Data("fail", call[c].acct, call[c].ref, call[c].amount, l))
          /\ UNCHANGED sale
      BY <1>4, <3>1 DEF LockSale, sales
    <3> QED BY <2>1, <3>2, GoSane DEF Phases, Kinds
  <2> QED BY <1>4, <2>3 DEF LockSale, Typed, TypeOK, SalesOwned, CallsSane
<1>5. CASE CommitWithdraw(c)
  BY <1>5, PostTyped, MoveTyped, EndSane
     DEF CommitWithdraw, Complete, Typed, TypeOK, SalesOwned, CallsSane
<1>6. CASE CommitRecord(c)
  BY <1>6, PostTyped, MoveTyped, EndSane DEF CommitRecord, Typed, TypeOK, SalesOwned, CallsSane
<1>7. CASE CommitConfirm(c)
  BY <1>7, PostTyped, MoveTyped, EndSane
     DEF CommitConfirm, Typed, TypeOK, SalesOwned, CallsSane, CallSane
<1>8. CASE CommitFail(c)
  BY <1>8, PostTyped, MoveTyped, EndSane 
     DEF CommitFail, Typed, TypeOK, SalesOwned, CallsSane, CallSane
<1>9. CASE Abandon(c)
  BY <1>9, EndSane DEF Abandon, Typed, TypeOK, SalesOwned, CallsSane
<1> QED BY <1>1, <1>2, <1>3, <1>4, <1>5, <1>6, <1>7, <1>8, <1>9, StepCall(c)
        DEF StepCall

LEMMA NextTyped == Typed /\ [Next]_vars => Typed'
<1> SUFFICES ASSUME Typed, [Next]_vars PROVE Typed'
  OBVIOUS
<1> USE DEF books, requests, sales
<1>1. ASSUME NEW t \in Traffickers, Setup2FA(t) \/ Verify2FA(t)
      PROVE  Typed'
  <2>1. twoFactor' \in [Traffickers -> {"absent", "setup", "enabled"}]
    BY <1>1 DEF Setup2FA, Verify2FA, Typed, TypeOK
  <2>2. UNCHANGED <<books, requests, sales, phase, call>>
    BY <1>1 DEF Setup2FA, Verify2FA
  <2> QED BY <2>1, <2>2 DEF Typed, TypeOK, SalesOwned, CallsSane, CallSane, InTx
<1>2. ASSUME NEW s \in Sales, NEW t \in Traffickers, NEW a \in Amounts,
             RegisterSale(s, t, a)
      PROVE  Typed'
  BY <1>2, WalletAssumption
     DEF RegisterSale, Typed, TypeOK, SalesOwned, CallsSane, CallSane, InTx, Owners
<1>3. CASE UNCHANGED vars
  BY <1>3 DEF vars, Typed, TypeOK, SalesOwned, CallsSane, CallSane, InTx
<1> QED BY <1>1, <1>2, <1>3, StartTyped, StepTyped DEF Next

(* Type correctness on either database: no handler step, in any order,      *)
(* leaves a row or a call outside its domain.                               *)
THEOREM TypeCorrect == Spec => []TypeOK
<1>1. Typed => TypeOK
  BY DEF Typed
<1> QED BY <1>1, TypedInit, NextTyped, PTL DEF Spec

-----------------------------------------------------------------------------
(* With one transaction at a time, what an open transaction read is still   *)
(* the committed balance when it commits.                                   *)
OneTx == \A c, d \in Calls : InTx(c) /\ InTx(d) => c = d
Fresh == \A c \in Calls : InTx(c) => call[c].live = balance[call[c].acct]
Books == LedgerChains /\ NonNegativeBalance

SerialInv == Typed /\ OneTx /\ Fresh /\ Books

LEMMA SerialInit == Init => SerialInv
BY TypedInit DEF Init, SerialInv, OneTx, Fresh, Books, LedgerChains,
   NonNegativeBalance, InTx

LEMMA RowOfSeq ==
  ASSUME NEW s \in Seq(Row), NEW i \in 1..Len(s)
  PROVE  s[i].before \in Int /\ s[i].after \in Int
<1>1. s[i] \in Row
  OBVIOUS
<1> QED BY <1>1 DEF Row

LEMMA AppendRow ==
  ASSUME NEW s \in Seq(Row), NEW r \in Row, NEW l, l = Append(s, r)
  PROVE  /\ Len(l) = Len(s) + 1 /\ Len(s) \in Nat /\ l # <<>>
         /\ \A i \in 1..Len(s) : l[i] = s[i]
         /\ l[Len(s) + 1] = r
         /\ l \in Seq(Row)
BY AppendProperties

(* What the abstract ledger sees of a trafficker's rows.                    *)
Shown(s) == [i \in 1..Len(s) |-> [before |-> s[i].before, after |-> s[i].after]]

LEMMA ShownAppend ==
  ASSUME NEW s \in Seq(Row), NEW r \in Row
  PROVE  Shown(Append(s, r)) =
           Append(Shown(s), [before |-> r.before, after |-> r.after])
<1> DEFINE E == [before: Int, after: Int]
           e == [before |-> r.before, after |-> r.after]
<1>1. PICK l \in Seq(Row) : l = Append(s, r)
  BY AppendRow
<1>2. /\ Len(l) = Len(s) + 1 /\ Len(s) \in Nat
      /\ \A i \in 1..Len(s) : l[i] = s[i]
      /\ l[Len(s) + 1] = r
  BY <1>1, AppendRow
<1>3. e \in E
  BY DEF Row
<1>4. ASSUME NEW x \in Seq(Row)
      PROVE  Shown(x) \in Seq(E) /\ Len(Shown(x)) = Len(x)
  <2>1. /\ Len(x) \in Nat
        /\ \A i \in 1..Len(x) : x[i].before \in Int /\ x[i].after \in Int
    BY RowOfSeq
  <2> QED BY <2>1 DEF Shown
<1>5. PICK v \in Seq(E) : v = Shown(s) /\ Len(v) = Len(s)
  BY <1>4
<1>6. PICK u \in Seq(E) : u = Append(v, e)
  BY <1>3, AppendProperties
<1>7. /\ Len(u) = Len(v) + 1 /\ u[Len(v) + 1] = e
      /\ \A i \in 1..Len(v) : u[i] = v[i]
  BY <1>3, <1>6, AppendProperties
<1>8. PICK w \in Seq(E) : w = Shown(l) /\ Len(w) = Len(l)
  BY <1>4
<1>9. \A i \in 1..Len(w) : w[i] = u[i]
  <2> SUFFICES ASSUME NEW i \in 1..Len(w) PROVE w[i] = u[i]
    OBVIOUS
  <2>1. w[i] = [before |-> l[i].before, after |-> l[i].after]
    BY <1>8 DEF Shown
  <2>2. CASE i = Len(s) + 1
    BY <2>1, <2>2, <1>2, <1>5, <1>7
  <2>3. CASE i \in 1..Len(s)
    <3>1. v[i] = [before |-> s[i].before, after |-> s[i].after]
      BY <2>3, <1>5 DEF Shown
    <3> QED BY <2>1, <2>3, <3>1, <1>2, <1>5, <1>7
  <2> QED BY <2>2, <2>3, <1>2, <1>8
<1>10. Len(w) = Len(u)
  BY <1>2, <1>5, <1>7, <1>8
<1>11. w = u
  BY <1>9, <1>10, SeqEqual, Zenon
<1> QED BY <1>1, <1>5, <1>6, <1>8, <1>11

(* A commit that posts what it read keeps the books, and is a Post of the   *)
(* abstract ledger.                                                         *)
LEMMA PostKeepsBooks ==
  ASSUME SerialInv, NEW c \in Calls, InTx(c), PostRow(c),
         MoveRelative(c) \/ MoveAbsolute(c),
         call[c].live + call[c].amount >= 0,
         NEW t \in Traffickers, t = call[c].acct
  PROVE  Books' /\ Promise!Post(t)
<1> DEFINE new == call[c].live + call[c].amount
           row == [kind |-> call[c].kind, ref |-> call[c].ref,
                   before |-> call[c].live, after |-> new]
<1>1. /\ t \in Traffickers /\ call[c].live \in Int /\ call[c].amount \in Int
      /\ new \in Nat /\ call[c].live = balance[t]
      /\ balance \in [Traffickers -> Int]
      /\ ledger \in [Traffickers -> Seq(Row)] /\ ledger[t] \in Seq(Row)
  BY DEF SerialInv, Typed, TypeOK, CallsSane, CallSane, InTx, Fresh
<1>2. balance' = [balance EXCEPT ![t] = new]
  BY <1>1 DEF MoveRelative, MoveAbsolute
<1>3. ledger' = [ledger EXCEPT ![t] = Append(ledger[t], row)]
  BY DEF PostRow
<1>r. row \in Row
  BY <1>1 DEF SerialInv, Typed, TypeOK, Row
<1> HIDE DEF new, row
<1>4. /\ \A u \in Traffickers : u # t => ledger'[u] = ledger[u] /\ balance'[u] = balance[u]
      /\ ledger'[t] = Append(ledger[t], row) /\ balance'[t] = new
  BY <1>1, <1>2, <1>3
<1>5. row.before = balance[t] /\ row.after = new
  BY <1>1 DEF row, new
<1>6. /\ Len(ledger'[t]) = Len(ledger[t]) + 1
      /\ \A i \in 1..Len(ledger[t]) : ledger'[t][i] = ledger[t][i]
      /\ ledger'[t][Len(ledger[t]) + 1] = row
      /\ Len(ledger[t]) \in Nat
      /\ ledger'[t] # <<>>
  <2>1. PICK s \in Seq(Row) : s = ledger[t]
    BY <1>1
  <2>2. PICK l : l = ledger'[t]
    OBVIOUS
  <2>3. l = Append(s, row)
    BY <1>4, <2>1, <2>2
  <2>4. /\ Len(l) = Len(s) + 1 /\ Len(s) \in Nat /\ l # <<>>
        /\ \A i \in 1..Len(s) : l[i] = s[i]
        /\ l[Len(s) + 1] = row
    BY <2>3, <1>r, AppendRow
  <2> QED BY <2>1, <2>2, <2>4
<1>7. NonNegativeBalance'
  <2>1. \A u \in Traffickers : balance[u] >= 0
    BY DEF SerialInv, Books, NonNegativeBalance
  <2>2. new >= 0
    BY <1>1
  <2> QED BY <1>4, <2>1, <2>2 DEF NonNegativeBalance
<1>8. LedgerChains'
  <2> SUFFICES ASSUME NEW u \in Traffickers
               PROVE  /\ \A i \in 1..Len(ledger'[u]) :
                           ledger'[u][i].before =
                             IF i = 1 THEN 0 ELSE ledger'[u][i-1].after
                      /\ balance'[u] = IF ledger'[u] = <<>> THEN 0
                                       ELSE ledger'[u][Len(ledger'[u])].after
    BY DEF LedgerChains
  <2>1. CASE u # t
    BY <2>1, <1>4 DEF SerialInv, Books, LedgerChains
  <2>2. CASE u = t
    <3>1. balance'[t] = ledger'[t][Len(ledger'[t])].after
      BY <1>4, <1>5, <1>6
    <3>2. ASSUME NEW i \in 1..Len(ledger'[t])
          PROVE  ledger'[t][i].before = IF i = 1 THEN 0 ELSE ledger'[t][i-1].after
      <4>1. CASE i \in 1..Len(ledger[t])
        <5>1. i # 1 => i - 1 \in 1..Len(ledger[t])
          BY <4>1, <1>6
        <5>2. ledger[t][i].before = IF i = 1 THEN 0 ELSE ledger[t][i-1].after
          BY <4>1, <1>1 DEF SerialInv, Books, LedgerChains
        <5>3. ledger'[t][i] = ledger[t][i]
          BY <4>1, <1>6
        <5>4. i # 1 => ledger'[t][i-1] = ledger[t][i-1]
          BY <5>1, <1>6
        <5> QED BY <5>2, <5>3, <5>4
      <4>2. CASE i = Len(ledger[t]) + 1
        <5>1. ledger'[t][i].before = balance[t]
          BY <4>2, <1>5, <1>6
        <5>2. CASE i = 1
          <6>1. ledger[t] = <<>>
            BY <5>2, <4>2, <1>1, <1>6
          <6> QED BY <5>1, <5>2, <6>1, <1>1 DEF SerialInv, Books, LedgerChains
        <5>3. CASE i # 1
          <6>1. /\ i - 1 = Len(ledger[t]) /\ i - 1 \in 1..Len(ledger[t])
                /\ ledger[t] # <<>>
            BY <5>3, <4>2, <1>1, <1>6
          <6>2. balance[t] = ledger[t][Len(ledger[t])].after
            BY <6>1, <1>1 DEF SerialInv, Books, LedgerChains
          <6> QED BY <5>1, <5>3, <6>1, <6>2, <1>6
        <5> QED BY <5>2, <5>3
      <4> QED BY <4>1, <4>2, <1>6
    <3> QED BY <2>2, <3>1, <3>2, <1>6
  <2> QED BY <2>1, <2>2
<1>9. Promise!Post(t)
  <2> DEFINE View(l) == [u \in Traffickers |->
                [i \in 1..Len(l[u]) |->
                   [before |-> l[u][i].before, after |-> l[u][i].after]]]
             entry == [before |-> balance[t], after |-> balance'[t]]
  <2>1. PICK s \in Seq(Row) : s = ledger[t]
    BY <1>1
  <2>a. PICK l : l = ledger'[t]
    OBVIOUS
  <2>b. l = Append(s, row)
    BY <1>4, <2>1, <2>a
  <2>c. View(ledger)[t] = Shown(s) /\ View(ledger')[t] = Shown(l)
    BY <2>1, <2>a DEF Shown
  <2>d. Shown(l) = Append(Shown(s), [before |-> row.before, after |-> row.after])
    BY <2>b, <1>r, ShownAppend
  <2>2. View(ledger')[t] = Append(View(ledger)[t], entry)
    BY <1>4, <1>5, <2>c, <2>d
  <2>3. \A u \in Traffickers : u # t => View(ledger')[u] = View(ledger)[u]
    BY <1>4
  <2>4. View(ledger') = [View(ledger) EXCEPT ![t] = Append(@, entry)]
    BY <2>2, <2>3, <1>1
  <2>5. /\ balance'[t] \in Nat
        /\ balance' = [balance EXCEPT ![t] = balance'[t]]
    BY <1>1, <1>2, <1>4
  <2> QED BY <2>4, <2>5 DEF Promise!Post
<1> QED BY <1>7, <1>8, <1>9 DEF Books

(* A handler that only moves between phases outside a transaction, or ends, *)
(* leaves the transactions as they are.                                     *)
LEMMA QuietStep ==
  ASSUME SerialInv, NEW c \in Calls, NEW p \in {"idle", "snapshot", "ready"}, NEW d,
         Go(c, p, d), UNCHANGED books
  PROVE  OneTx' /\ Fresh' /\ Books'
<1>1. \A e \in Calls : InTx(e)' => InTx(e) /\ e # c /\ call'[e] = call[e]
  BY DEF Go, SerialInv, Typed, TypeOK, InTx
<1> QED BY <1>1 DEF SerialInv, OneTx, Fresh, Books, LedgerChains,
           NonNegativeBalance, books

(* After a commit no transaction is open.                                   *)
LEMMA CommitClosesTx ==
  ASSUME SerialInv, NEW c \in Calls, InTx(c), End(c)
  PROVE  OneTx' /\ Fresh'
<1>1. \A e \in Calls : ~InTx(e)'
  BY DEF End, Go, SerialInv, OneTx, Typed, TypeOK, InTx
<1> QED BY <1>1 DEF OneTx, Fresh

(* Every step keeps the books, and what it does to them is a step of the    *)
(* abstract ledger or nothing.                                              *)
LEMMA SerialStep ==
  ASSUME Serializable, SerialInv, [Next]_vars
  PROVE  /\ OneTx' /\ Fresh' /\ Books'
         /\ Promise!LNext \/ UNCHANGED books
<1> USE DEF SerialInv
<1>1. CASE UNCHANGED vars
  BY <1>1 DEF vars, books, OneTx, Fresh, Books, LedgerChains, NonNegativeBalance, InTx
<1>2. ASSUME UNCHANGED <<books, phase, call>>
      PROVE  OneTx' /\ Fresh' /\ Books'
  BY <1>2 DEF books, OneTx, Fresh, Books, LedgerChains, NonNegativeBalance, InTx
<1>3. ASSUME NEW t \in Traffickers, Setup2FA(t) \/ Verify2FA(t)
      PROVE  OneTx' /\ Fresh' /\ Books' /\ UNCHANGED books
  BY <1>2, <1>3 DEF Setup2FA, Verify2FA
<1>4. ASSUME NEW s \in Sales, NEW t \in Traffickers, NEW a \in Amounts,
             RegisterSale(s, t, a)
      PROVE  OneTx' /\ Fresh' /\ Books' /\ UNCHANGED books
  BY <1>2, <1>4 DEF RegisterSale
<1>5. ASSUME NEW c \in Calls, StartCall(c)
      PROVE  OneTx' /\ Fresh' /\ Books' /\ UNCHANGED books
  <2>1. \E p \in {"snapshot", "ready"} : \E d : Start(c, p, d)
    BY <1>5 DEF StartCall, StartRequest, StartRecord, StartWithdraw, StartConfirm, StartFail
  <2> QED BY <2>1, QuietStep DEF Start
<1>6. ASSUME NEW c \in Calls, StepCall(c)
      PROVE  /\ OneTx' /\ Fresh' /\ Books'
             /\ Promise!LNext \/ UNCHANGED books
  <2> DEFINE Goal == /\ OneTx' /\ Fresh' /\ Books'
                     /\ Promise!LNext \/ UNCHANGED books
  <2>0. ASSUME InTx(c), End(c), PostRow(c), MoveRelative(c) \/ MoveAbsolute(c),
               call[c].live + call[c].amount >= 0
        PROVE  Goal
    <3>1. PICK t \in Traffickers : t = call[c].acct
      BY <2>0 DEF Typed, CallsSane, CallSane, InTx
    <3>2. Books' /\ Promise!Post(t)
      BY <2>0, <3>1, PostKeepsBooks
    <3> QED BY <2>0, <3>2, CommitClosesTx DEF Promise!LNext
  <2>1. CASE CheckWithdrawal(c)
    BY <2>1, QuietStep DEF CheckWithdrawal, End
  <2>2. ASSUME NEW w \in Withdrawals, CreateWithdrawalRequest(c, w)
        PROVE  Goal
    BY <2>2, QuietStep DEF CreateWithdrawalRequest, End
  <2>3. CASE OpenTx(c)
    <3>1. \A e \in Calls : ~InTx(e)
      BY <2>3 DEF OpenTx, CanOpenTx
    <3>2. /\ \A e \in Calls : InTx(e)' => e = c
          /\ call'[c].acct = call[c].acct /\ call'[c].live = balance[call[c].acct]
          /\ balance' = balance
      BY <2>3, <3>1 DEF OpenTx, Go, Data, Typed, TypeOK, InTx, books
    <3> QED BY <2>3, <3>2 DEF OpenTx, OneTx, Fresh, Books, LedgerChains,
               NonNegativeBalance, books
  <2>4. CASE LockSale(c)
    <3>1. \A e \in Calls : InTx(e) => e = c
      BY <2>4 DEF LockSale, OneTx, InTx
    <3>2. /\ \A e \in Calls : InTx(e)' => e = c
          /\ call'[c].acct = call[c].acct /\ call'[c].live = balance[call[c].acct]
          /\ balance' = balance
      BY <2>4, <3>1 DEF LockSale, Go, Data, Typed, TypeOK, InTx, books
    <3> QED BY <2>4, <3>2 DEF LockSale, OneTx, Fresh, Books, LedgerChains,
               NonNegativeBalance, books
  <2>5. CASE CommitWithdraw(c)
    BY <2>0, <2>5 DEF CommitWithdraw, Affordable, InTx
  <2>6. CASE CommitRecord(c)
    BY <2>0, <2>6 DEF CommitRecord, Affordable, InTx
  <2>7. ASSUME InTx(c), call[c].kind \in {"confirm", "fail"}
        PROVE  call[c].live + call[c].amount >= 0
    <3>1. /\ call[c].acct \in Traffickers /\ call[c].amount \in Int
          /\ call[c].amount >= 0 /\ call[c].live = balance[call[c].acct]
          /\ call[c].live \in Int
      BY <2>7 DEF Typed, TypeOK, CallsSane, CallSane, Fresh, InTx
    <3>2. call[c].live >= 0
      BY <3>1 DEF Books, NonNegativeBalance
    <3> QED BY <3>1, <3>2
  <2>8. CASE CommitConfirm(c)
    BY <2>0, <2>7, <2>8 DEF CommitConfirm, InTx
  <2>9. CASE CommitFail(c)
    <3>1. InTx(c) /\ End(c) /\ call[c].kind = "fail"
      BY <2>9 DEF CommitFail, InTx
    <3>2. CASE call[c].amount > 0
      BY <2>0, <2>7, <2>9, <3>1, <3>2 DEF CommitFail
    <3>3. CASE ~(call[c].amount > 0)
      <4>1. UNCHANGED books
        BY <2>9, <3>3 DEF CommitFail
      <4>2. Go(c, "idle", NoCall)
        BY <3>1 DEF End
      <4>3. OneTx' /\ Fresh' /\ Books'
        BY <4>1, <4>2, QuietStep
      <4> QED BY <4>1, <4>3
    <3> QED BY <3>2, <3>3
  <2>10. CASE Abandon(c)
    BY <2>10, QuietStep DEF Abandon, End
  <2> QED BY <1>6, <2>1, <2>2, <2>3, <2>4, <2>5, <2>6, <2>8, <2>9, <2>10 DEF StepCall
<1> QED BY <1>1, <1>3, <1>4, <1>5, <1>6 DEF Next, vars, books

LEMMA SerialInvariant == ASSUME Serializable PROVE Spec => []SerialInv
<1>1. SerialInv /\ [Next]_vars => SerialInv'
  BY SerialStep, NextTyped DEF SerialInv
<1> QED BY <1>1, SerialInit, PTL DEF Spec

(* On SQLite no interleaving of withdrawals, entries and sales overdraws a  *)
(* wallet, although the routes decide on balances they read earlier.        *)
THEOREM NoOverdraft == ASSUME Serializable PROVE Spec => []NonNegativeBalance
<1>1. SerialInv => NonNegativeBalance
  BY DEF SerialInv, Books
<1> QED BY <1>1, SerialInvariant, PTL

(* On SQLite the rows of a ledger chain from zero to the balance.           *)
THEOREM LedgerExplainsBalance == ASSUME Serializable PROVE Spec => []LedgerChains
<1>1. SerialInv => LedgerChains
  BY DEF SerialInv, Books
<1> QED BY <1>1, SerialInvariant, PTL

(* On SQLite the handlers implement the abstract ledger: initial states map *)
(* to initial states, and every step is a Post or leaves the books alone.   *)
THEOREM WalletImplementsLedger == ASSUME Serializable PROVE Spec => KeepsPromise
<1> DEFINE View == [t \in Traffickers |->
                     [i \in 1..Len(ledger[t]) |->
                       [before |-> ledger[t][i].before, after |-> ledger[t][i].after]]]
<1>1. Init => Promise!LInit
  BY DEF Init, Promise!LInit
<1>2. SerialInv /\ [Next]_vars => [Promise!LNext]_<<balance, View>>
  <2>1. UNCHANGED books => UNCHANGED <<balance, View>>
    BY DEF books
  <2> QED BY <2>1, SerialStep
<1> QED BY <1>1, <1>2, SerialInvariant, PTL DEF Spec, KeepsPromise, Promise!LSpec

-----------------------------------------------------------------------------
(* Withdrawals, on either database.  A handler that found a request payable *)
(* is about that request and its amount; a row of the ledger that debits a  *)
(* request is about a completed one.                                        *)
Held(c) ==
  call[c].kind = "withdraw" /\ phase[c] \in {"ready", "tx"} =>
    /\ call[c].ref \in Withdrawals
    /\ withdrawalStatus[call[c].ref] # "absent"
    /\ call[c].acct = withdrawal[call[c].ref].owner
    /\ call[c].amount = -withdrawal[call[c].ref].amount

RowsCompleted ==
  \A t \in Traffickers : \A i \in 1..Len(ledger[t]) :
    ledger[t][i].kind = "withdraw" =>
      ledger[t][i].ref \in Withdrawals /\ withdrawalStatus[ledger[t][i].ref] = "completed"

DebitInv == (\A c \in Calls : Held(c)) /\ RowsCompleted /\ DebitIffCompleted

LEMMA DebitInit == Init => DebitInv
BY DEF Init, DebitInv, Held, RowsCompleted, DebitIffCompleted, NoCall, Data

(* Requests that exist keep their owner and amount.                         *)
RequestsKept ==
  \A w \in Withdrawals : withdrawalStatus[w] # "absent" =>
    withdrawalStatus'[w] # "absent" /\ withdrawal'[w] = withdrawal[w]

LEMMA HeldGo ==
  ASSUME Typed, DebitInv, RequestsKept, NEW c \in Calls, NEW p, NEW d, Go(c, p, d),
         d.kind = "withdraw" /\ p \in {"ready", "tx"} =>
           /\ d.ref \in Withdrawals /\ withdrawalStatus[d.ref] # "absent"
           /\ d.acct = withdrawal[d.ref].owner
           /\ d.amount = -withdrawal[d.ref].amount
  PROVE  \A e \in Calls : Held(e)'
<1> SUFFICES ASSUME NEW e \in Calls PROVE Held(e)'
  OBVIOUS
<1>1. CASE e = c
  <2>1. phase'[e] = p /\ call'[e] = d
    BY <1>1 DEF Go, Typed, TypeOK
  <2> QED BY <2>1 DEF Held, RequestsKept
<1>2. CASE e # c
  <2>1. phase'[e] = phase[e] /\ call'[e] = call[e]
    BY <1>2 DEF Go, Typed, TypeOK
  <2> QED BY <2>1 DEF Held, RequestsKept, DebitInv
<1> QED BY <1>1, <1>2

(* Nothing is posted, and the same requests are completed.                  *)
LEMMA RowsFrame ==
  ASSUME DebitInv, ledger' = ledger,
         \A w \in Withdrawals :
           /\ withdrawalStatus'[w] = "completed" <=> withdrawalStatus[w] = "completed"
           /\ withdrawalStatus[w] = "completed" => withdrawal'[w] = withdrawal[w]
  PROVE  RowsCompleted' /\ DebitIffCompleted'
<1>1. RowsCompleted'
  BY DEF DebitInv, RowsCompleted
<1>2. ASSUME NEW w \in Withdrawals, withdrawalStatus[w] = "completed"
      PROVE  \E t \in Traffickers : \E i \in 1..Len(ledger'[t]) :
               /\ t = withdrawal'[w].owner
               /\ ledger'[t][i].kind = "withdraw" /\ ledger'[t][i].ref = w
               /\ ledger'[t][i].before - ledger'[t][i].after = withdrawal'[w].amount
  BY <1>2 DEF DebitInv, DebitIffCompleted
<1>3. DebitIffCompleted'
  BY <1>1, <1>2 DEF DebitIffCompleted, RowsCompleted
<1> QED BY <1>1, <1>3

(* One row is posted to the ledger of one trafficker, at its end.           *)
LEMMA PostedAtEnd ==
  ASSUME Typed, NEW c \in Calls, phase[c] # "idle", PostRow(c)
  PROVE  /\ call[c].acct \in Traffickers
         /\ \A t \in Traffickers : t # call[c].acct => ledger'[t] = ledger[t]
         /\ \A t \in Traffickers : Len(ledger[t]) \in Nat
         /\ Len(ledger'[call[c].acct]) = Len(ledger[call[c].acct]) + 1
         /\ \A i \in 1..Len(ledger[call[c].acct]) :
              ledger'[call[c].acct][i] = ledger[call[c].acct][i]
         /\ ledger'[call[c].acct][Len(ledger[call[c].acct]) + 1] =
              [kind |-> call[c].kind, ref |-> call[c].ref,
               before |-> call[c].live, after |-> call[c].live + call[c].amount]
<1> DEFINE t == call[c].acct
           row == [kind |-> call[c].kind, ref |-> call[c].ref,
                   before |-> call[c].live, after |-> call[c].live + call[c].amount]
<1>1. t \in Traffickers /\ row \in Row
  BY DEF Typed, TypeOK, CallsSane, CallSane, Row
<1>2. \A u \in Traffickers : ledger[u] \in Seq(Row) /\ Len(ledger[u]) \in Nat
  BY DEF Typed, TypeOK
<1>3. /\ ledger'[t] = Append(ledger[t], row)
      /\ \A u \in Traffickers : u # t => ledger'[u] = ledger[u]
  BY <1>1 DEF PostRow, Typed, TypeOK
<1>4. PICK s \in Seq(Row) : s = ledger[t]
  BY <1>1, <1>2
<1>5. PICK l : l = ledger'[t]
  OBVIOUS
<1>6. l = Append(s, row)
  BY <1>3, <1>4, <1>5
<1>7. /\ Len(l) = Len(s) + 1 /\ \A i \in 1..Len(s) : l[i] = s[i]
      /\ l[Len(s) + 1] = row
  BY <1>1, <1>6, AppendRow
<1> QED BY <1>1, <1>2, <1>3, <1>4, <1>5, <1>7

(* What is on a ledger stays, and what a post adds is its last row.         *)
LEMMA PostKeepsRows ==
  ASSUME Typed, NEW c \in Calls, phase[c] # "idle", PostRow(c), NEW t \in Traffickers
  PROVE  /\ \A i \in 1..Len(ledger[t]) : i \in 1..Len(ledger'[t]) /\ ledger'[t][i] = ledger[t][i]
         /\ \A i \in 1..Len(ledger'[t]) :
              \/ i \in 1..Len(ledger[t])
              \/ /\ t = call[c].acct
                 /\ ledger'[t][i] = [kind |-> call[c].kind, ref |-> call[c].ref,
                                     before |-> call[c].live,
                                     after |-> call[c].live + call[c].amount]
<1>1. CASE t = call[c].acct
  BY <1>1, PostedAtEnd
<1>2. CASE t # call[c].acct
  BY <1>2, PostedAtEnd
<1> QED BY <1>1, <1>2

(* A post of another kind debits no request.                                *)
LEMMA PostOther ==
  ASSUME Typed, DebitInv, NEW c \in Calls, phase[c] # "idle", PostRow(c),
         call[c].kind # "withdraw", UNCHANGED requests
  PROVE  RowsCompleted' /\ DebitIffCompleted'
<1> USE DEF requests
<1>1. RowsCompleted'
  <2> SUFFICES ASSUME NEW t \in Traffickers, NEW i \in 1..Len(ledger'[t]),
                      ledger'[t][i].kind = "withdraw"
               PROVE  /\ ledger'[t][i].ref \in Withdrawals
                      /\ withdrawalStatus[ledger'[t][i].ref] = "completed"
    BY DEF RowsCompleted
  <2>1. CASE i \in 1..Len(ledger[t])
    <3>1. ledger'[t][i] = ledger[t][i]
      BY <2>1, PostKeepsRows
    <3> QED BY <2>1, <3>1 DEF DebitInv, RowsCompleted
  <2>2. CASE i \notin 1..Len(ledger[t])
    <3>1. ledger'[t][i] = [kind |-> call[c].kind, ref |-> call[c].ref,
                           before |-> call[c].live, after |-> call[c].live + call[c].amount]
      BY <2>2, PostKeepsRows, Zenon
    <3>2. ledger'[t][i].kind = call[c].kind
      BY <3>1
    <3> QED BY <3>2
  <2> QED BY <2>1, <2>2
<1>2. ASSUME NEW w \in Withdrawals, withdrawalStatus[w] = "completed"
      PROVE  \E t \in Traffickers : \E i \in 1..Len(ledger'[t]) :
               /\ t = withdrawal[w].owner
               /\ ledger'[t][i].kind = "withdraw" /\ ledger'[t][i].ref = w
               /\ ledger'[t][i].before - ledger'[t][i].after = withdrawal[w].amount
  <2>1. PICK t \in Traffickers : \E i \in 1..Len(ledger[t]) :
               /\ t = withdrawal[w].owner
               /\ ledger[t][i].kind = "withdraw" /\ ledger[t][i].ref = w
               /\ ledger[t][i].before - ledger[t][i].after = withdrawal[w].amount
    BY <1>2 DEF DebitInv, DebitIffCompleted
  <2> QED BY <2>1, PostKeepsRows
<1>3. DebitIffCompleted'
  BY <1>1, <1>2 DEF DebitIffCompleted, RowsCompleted
<1> QED BY <1>1, <1>3

(* The debit of a request, its row and its status are written together.     *)
LEMMA PostWithdraw ==
  ASSUME Typed, DebitInv, NEW c \in Calls, CommitWithdraw(c)
  PROVE  RowsCompleted' /\ DebitIffCompleted'
<1> DEFINE w == call[c].ref
           t == call[c].acct
<1>1. /\ phase[c] # "idle" /\ PostRow(c) /\ Held(c) /\ call[c].kind = "withdraw"
      /\ phase[c] = "tx" /\ Complete(c) /\ withdrawal' = withdrawal
  BY DEF CommitWithdraw, DebitInv
<1>2. w \in Withdrawals /\ t = withdrawal[w].owner /\ call[c].amount = -withdrawal[w].amount
  BY <1>1 DEF Held
<1>3. /\ withdrawalStatus'[w] = "completed"
      /\ \A v \in Withdrawals : v # w => withdrawalStatus'[v] = withdrawalStatus[v]
  BY <1>1, <1>2 DEF Complete, Typed, TypeOK
<1>4. RowsCompleted'
  <2> SUFFICES ASSUME NEW u \in Traffickers, NEW i \in 1..Len(ledger'[u]),
                      ledger'[u][i].kind = "withdraw"
               PROVE  /\ ledger'[u][i].ref \in Withdrawals
                      /\ withdrawalStatus'[ledger'[u][i].ref] = "completed"
    BY DEF RowsCompleted
  <2>1. CASE i \in 1..Len(ledger[u])
    <3>1. ledger'[u][i] = ledger[u][i]
      BY <1>1, <2>1, PostKeepsRows
    <3> QED BY <2>1, <3>1, <1>3 DEF DebitInv, RowsCompleted
  <2>2. CASE i \notin 1..Len(ledger[u])
    <3>1. ledger'[u][i] = [kind |-> call[c].kind, ref |-> call[c].ref,
                           before |-> call[c].live, after |-> call[c].live + call[c].amount]
      BY <1>1, <2>2, PostKeepsRows, Zenon
    <3>2. ledger'[u][i].ref = w
      BY <3>1
    <3> QED BY <3>2, <1>2, <1>3
  <2> QED BY <2>1, <2>2
<1>5. /\ Len(ledger[t]) + 1 \in 1..Len(ledger'[t])
      /\ ledger'[t][Len(ledger[t]) + 1] = [kind |-> "withdraw", ref |-> w,
            before |-> call[c].live, after |-> call[c].live + call[c].amount]
      /\ t \in Traffickers
  BY <1>1, PostedAtEnd
<1>6. call[c].live - (call[c].live + call[c].amount) = withdrawal[w].amount
  <2>1. call[c].live \in Int /\ withdrawal[w].amount \in Int
    BY <1>2 DEF Typed, TypeOK
  <2> QED BY <2>1, <1>2
<1>7. ASSUME NEW v \in Withdrawals, withdrawalStatus'[v] = "completed"
      PROVE  \E u \in Traffickers : \E i \in 1..Len(ledger'[u]) :
               /\ u = withdrawal[v].owner
               /\ ledger'[u][i].kind = "withdraw" /\ ledger'[u][i].ref = v
               /\ ledger'[u][i].before - ledger'[u][i].after = withdrawal[v].amount
  <2>1. CASE v = w
    <3>1. PICK n \in 1..Len(ledger'[t]) : n = Len(ledger[t]) + 1
      BY <1>5
    <3>2. /\ ledger'[t][n].kind = "withdraw" /\ ledger'[t][n].ref = w
          /\ ledger'[t][n].before - ledger'[t][n].after = withdrawal[w].amount
      BY <1>5, <1>6, <3>1
    <3> QED BY <2>1, <3>2, <1>2, <1>5
  <2>2. CASE v # w
    <3>1. PICK u \in Traffickers : \E i \in 1..Len(ledger[u]) :
               /\ u = withdrawal[v].owner
               /\ ledger[u][i].kind = "withdraw" /\ ledger[u][i].ref = v
               /\ ledger[u][i].before - ledger[u][i].after = withdrawal[v].amount
      BY <2>2, <1>3, <1>7 DEF DebitInv, DebitIffCompleted
    <3> QED BY <3>1, <1>1, PostKeepsRows
  <2> QED BY <2>1, <2>2
<1>8. DebitIffCompleted'
  BY <1>1, <1>4, <1>7 DEF DebitIffCompleted, RowsCompleted
<1> QED BY <1>4, <1>8

LEMMA DebitStep == Typed /\ DebitInv /\ [Next]_vars => DebitInv'
<1> SUFFICES ASSUME Typed, DebitInv, [Next]_vars PROVE DebitInv'
  OBVIOUS
<1> USE DEF books, requests, sales
<1>1. ASSUME UNCHANGED <<ledger, withdrawal, withdrawalStatus, phase, call>>
      PROVE  DebitInv'
  <2>1. \A c \in Calls : Held(c)'
    BY <1>1 DEF DebitInv, Held
  <2> QED BY <1>1, <2>1, RowsFrame DEF DebitInv
<1>2. CASE UNCHANGED vars
  BY <1>1, <1>2 DEF vars
<1>3. ASSUME NEW t \in Traffickers, Setup2FA(t) \/ Verify2FA(t)
      PROVE  DebitInv'
  BY <1>1, <1>3 DEF Setup2FA, Verify2FA
<1>4. ASSUME NEW s \in Sales, NEW t \in Traffickers, NEW a \in Amounts,
             RegisterSale(s, t, a)
      PROVE  DebitInv'
  BY <1>1, <1>4 DEF RegisterSale
<1>5. ASSUME NEW c \in Calls, NEW p, NEW d, Go(c, p, d), ledger' = ledger, UNCHANGED requests,
             d.kind = "withdraw" /\ p \in {"ready", "tx"} =>
               /\ d.ref \in Withdrawals /\ withdrawalStatus[d.ref] # "absent"
               /\ d.acct = withdrawal[d.ref].owner
               /\ d.amount = -withdrawal[d.ref].amount
      PROVE  DebitInv'
  <2>1. RequestsKept
    BY <1>5 DEF RequestsKept
  <2>2. \A e \in Calls : Held(e)'
    BY <1>5, <2>1, HeldGo
  <2> QED BY <1>5, <2>2, RowsFrame DEF DebitInv
<1>6. ASSUME NEW c \in Calls, End(c), ledger' = ledger, UNCHANGED requests
      PROVE  DebitInv'
  BY <1>5, <1>6 DEF End, NoCall, Data
<1>7. ASSUME NEW c \in Calls, StartCall(c)
      PROVE  DebitInv'
  <2>1. PICK p, k, t, r, a, l :
          Start(c, p, Data(k, t, r, a, l)) /\ (k = "withdraw" => p = "snapshot")
    BY <1>7 DEF StartCall, StartRequest, StartRecord, StartWithdraw, StartConfirm, StartFail
  <2> QED BY <1>5, <2>1 DEF Start, Data
<1>8. ASSUME NEW c \in Calls, StepCall(c)
      PROVE  DebitInv'
  <2>1. CASE CheckWithdrawal(c)
    <3>1. call[c].kind = "withdraw" /\ call[c].ref \in Withdrawals
      BY <2>1 DEF CheckWithdrawal, Typed, CallsSane, CallSane
    <3>2. CASE Payable(c)
      BY <1>5, <2>1, <3>1, <3>2 DEF CheckWithdrawal, Payable, Data
    <3>3. CASE ~Payable(c)
      BY <1>6, <2>1, <3>3 DEF CheckWithdrawal
    <3> QED BY <3>2, <3>3
  <2>2. ASSUME NEW w \in Withdrawals, CreateWithdrawalRequest(c, w)
        PROVE  DebitInv'
    <3>1. /\ End(c) /\ ledger' = ledger /\ withdrawalStatus[w] = "absent"
          /\ withdrawalStatus'[w] \in {"pending_processing", "pending_2fa"}
          /\ \A v \in Withdrawals : v # w =>
               withdrawalStatus'[v] = withdrawalStatus[v] /\ withdrawal'[v] = withdrawal[v]
      BY <2>2 DEF CreateWithdrawalRequest, Typed, TypeOK
    <3>2. RequestsKept
      BY <3>1 DEF RequestsKept
    <3>3. \A e \in Calls : Held(e)'
      BY <3>1, <3>2, HeldGo DEF End, NoCall, Data
    <3>4. RowsCompleted' /\ DebitIffCompleted'
      BY <3>1, RowsFrame
    <3> QED BY <3>3, <3>4 DEF DebitInv
  <2>3. CASE OpenTx(c)
    <3>1. call[c].kind = "withdraw" => TxAmount(c) = call[c].amount /\ Held(c)
      BY DEF TxAmount, DebitInv
    <3> QED BY <1>5, <2>3, <3>1 DEF OpenTx, Held, Data
  <2>4. CASE LockSale(c)
    BY <1>5, <2>4 DEF LockSale, Data
  <2>5. CASE CommitWithdraw(c)
    <3>1. /\ call[c].ref \in Withdrawals /\ withdrawal' = withdrawal
          /\ \A v \in Withdrawals :
               withdrawalStatus'[v] \in {withdrawalStatus[v], "completed"}
      BY <2>5 DEF CommitWithdraw, Complete, Typed, TypeOK, CallsSane, CallSane
    <3>2. RequestsKept
      BY <3>1 DEF RequestsKept
    <3>3. \A e \in Calls : Held(e)'
      BY <2>5, <3>2, HeldGo DEF CommitWithdraw, End, NoCall, Data
    <3> QED BY <2>5, <3>3, PostWithdraw DEF DebitInv
  <2>6. ASSUME phase[c] # "idle", End(c), PostRow(c), call[c].kind # "withdraw", UNCHANGED requests
        PROVE  DebitInv'
    <3>1. RequestsKept
      BY <2>6 DEF RequestsKept
    <3>2. \A e \in Calls : Held(e)'
      BY <2>6, <3>1, HeldGo DEF End, NoCall, Data
    <3> QED BY <2>6, <3>2, PostOther DEF DebitInv
  <2>7. CASE CommitRecord(c)
    BY <2>6, <2>7 DEF CommitRecord
  <2>8. CASE CommitConfirm(c)
    BY <2>6, <2>8 DEF CommitConfirm
  <2>9. CASE CommitFail(c)
    <3>1. CASE call[c].amount > 0
      BY <2>6, <2>9, <3>1 DEF CommitFail
    <3>2. CASE ~(call[c].amount > 0)
      BY <1>6, <2>9, <3>2 DEF CommitFail
    <3> QED BY <3>1, <3>2
  <2>10. CASE Abandon(c)
    BY <1>6, <2>10 DEF Abandon
  <2> QED BY <1>8, <2>1, <2>2, <2>3, <2>4, <2>5, <2>7, <2>8, <2>9, <2>10 DEF StepCall
<1> QED BY <1>2, <1>3, <1>4, <1>7, <1>8 DEF Next

(* On either database a withdrawal is completed exactly when its amount has *)
(* left its owner's wallet, although request and balance are read in        *)
(* different steps (processWithdrawal writes the three in one               *)
(* db.$transaction).                                                        *)
THEOREM WithdrawalsAreDebited == Spec => []DebitIffCompleted
<1>1. DebitInv => DebitIffCompleted
  BY DEF DebitInv
<1> QED BY <1>1, TypedInit, NextTyped, DebitInit, DebitStep, PTL DEF Spec

-----------------------------------------------------------------------------
(* No movement is lost: where every movement is relative, or every absolute *)
(* one starts from the committed balance.                                   *)
LEMMA PostMoves ==
  ASSUME Typed, PostedMatchesBalance, NEW c \in Calls, InTx(c), PostRow(c),
         \/ MoveRelative(c)
         \/ MoveAbsolute(c) /\ call[c].live = balance[call[c].acct]
  PROVE  PostedMatchesBalance'
<1>1. PICK t \in Traffickers : t = call[c].acct
  BY DEF Typed, CallsSane, CallSane, InTx
<1>2. balance' = [balance EXCEPT ![t] = balance[t] + call[c].amount]
  BY <1>1 DEF MoveRelative, MoveAbsolute
<1>3. posted' = [posted EXCEPT ![t] = posted[t] + call[c].amount]
  BY <1>1 DEF PostRow
<1> QED BY <1>1, <1>2, <1>3 DEF PostedMatchesBalance, Typed, TypeOK

LEMMA PostedStep ==
  ASSUME Serializable => SerialInv, Serializable \/ Sales = {},
         Typed, PostedMatchesBalance, [Next]_vars
  PROVE  PostedMatchesBalance'
<1>1. ASSUME UNCHANGED books PROVE PostedMatchesBalance'
  BY <1>1 DEF books, PostedMatchesBalance
<1>2. CASE UNCHANGED vars
  BY <1>1, <1>2 DEF vars, books
<1>3. CASE \E t \in Traffickers : Setup2FA(t) \/ Verify2FA(t)
  BY <1>1, <1>3 DEF Setup2FA, Verify2FA
<1>4. CASE \E s \in Sales, t \in Traffickers, a \in Amounts : RegisterSale(s, t, a)
  BY <1>1, <1>4 DEF RegisterSale
<1>5. ASSUME NEW c \in Calls, StartCall(c) PROVE UNCHANGED books
  <2>1. \E p \in {"snapshot", "ready"} : \E d : Start(c, p, d)
    BY <1>5 DEF StartCall, StartRequest, StartRecord, StartWithdraw, StartConfirm, StartFail
  <2> QED BY <2>1 DEF Start
<1>6. ASSUME NEW c \in Calls, call[c].kind \in {"confirm", "fail"}, InTx(c)
      PROVE  call[c].live = balance[call[c].acct]
  <2>1. Sales # {}
    BY <1>6 DEF Typed, CallsSane, CallSane
  <2> QED BY <1>6, <2>1 DEF SerialInv, Fresh
<1>7. ASSUME NEW c \in Calls, StepCall(c) PROVE PostedMatchesBalance'
  <2>1. CASE \/ CheckWithdrawal(c) \/ OpenTx(c) \/ LockSale(c) \/ Abandon(c)
             \/ \E w \in Withdrawals : CreateWithdrawalRequest(c, w)
    BY <1>1, <2>1 DEF CheckWithdrawal, OpenTx, LockSale, Abandon, CreateWithdrawalRequest
  <2>2. CASE CommitWithdraw(c)
    BY <2>2, PostMoves DEF CommitWithdraw, InTx
  <2>3. CASE CommitRecord(c)
    BY <2>3, PostMoves DEF CommitRecord, InTx
  <2>4. CASE CommitConfirm(c)
    BY <1>6, <2>4, PostMoves DEF CommitConfirm, InTx
  <2>5. CASE CommitFail(c)
    <3>1. InTx(c) /\ call[c].kind = "fail"
      BY <2>5 DEF CommitFail, InTx
    <3>2. CASE call[c].amount > 0
      BY <1>6, <2>5, <3>1, <3>2, PostMoves DEF CommitFail
    <3>3. CASE ~(call[c].amount > 0)
      BY <1>1, <2>5, <3>3 DEF CommitFail
    <3> QED BY <3>2, <3>3
  <2> QED BY <1>7, <2>1, <2>2, <2>3, <2>4, <2>5 DEF StepCall
<1> QED BY <1>1, <1>2, <1>3, <1>4, <1>5, <1>7 DEF Next

(* The balance is the sum of what was posted, on SQLite for every handler   *)
(* and on PostgreSQL for those of wallet.service.ts, which move it by       *)
(* increment and decrement; the absolute writes of a sale need SQLite.      *)
THEOREM NoMovementIsLost ==
  ASSUME Serializable \/ Sales = {}
  PROVE  Spec => []PostedMatchesBalance
<1>1. Init => PostedMatchesBalance
  BY DEF Init, PostedMatchesBalance
<1>2. CASE Serializable
  <2>1. SerialInv => Typed
    BY DEF SerialInv
  <2>2. SerialInv /\ PostedMatchesBalance /\ [Next]_vars => PostedMatchesBalance'
    BY <1>2, <2>1, PostedStep
  <2> QED BY <1>1, <1>2, <2>2, SerialInvariant, PTL DEF Spec
<1>3. CASE ~Serializable
  <2>1. Typed /\ PostedMatchesBalance /\ [Next]_vars => PostedMatchesBalance'
    BY <1>3, PostedStep
  <2> QED BY <1>1, <2>1, TypedInit, NextTyped, PTL DEF Spec
<1> QED BY <1>2, <1>3
=============================================================================
