------------------------------- MODULE Wallet -------------------------------
(***************************************************************************)
(* The trafficker wallet: every handler that moves Trafficker.walletBalance*)
(* through wallet.service.ts and trafficker.service.ts, with the routes    *)
(* that call them.  A handler is a call that runs in steps, one per await  *)
(* whose result it uses later: the profile is read, the request or sale is *)
(* read and checked, a transaction is opened and reads again, and the      *)
(* transaction commits.  Any number of calls run at once.                  *)
(***************************************************************************)
EXTENDS Integers, Sequences, FiniteSets

CONSTANTS
  Traffickers,  \* wallet owners
  Withdrawals,  \* WithdrawalRequest ids
  Sales,        \* TraffickerSale ids
  Calls,        \* request handlers that may be running at the same time
  Amounts,      \* amounts a caller may ask to move
  None,         \* no row referenced
  Serializable, \* TRUE: SQLite, one transaction at a time;
                \* FALSE: PostgreSQL READ COMMITTED
  MaxRows       \* bound: no new call once a ledger has this many rows

(* A commission is a multiple of four so that 25% and 50% of it are whole.  *)
ASSUME WalletAssumption ==
  /\ Amounts \subseteq Nat
  /\ \A a \in Amounts : a % 4 = 0
  /\ None \notin Withdrawals \cup Sales \cup Traffickers
  /\ Serializable \in BOOLEAN
  /\ MaxRows \in Nat

VARIABLES
  balance,           \* Trafficker.walletBalance
  ledger,            \* WalletTransaction and TraffickerTransaction rows, in order
  posted,            \* history: the sum of the amounts of those rows
  withdrawal,        \* WithdrawalRequest rows: owner and amount
  withdrawalStatus,
  sale,              \* TraffickerSale rows: owner and commission
  saleStatus,
  twoFactor,         \* TwoFactorConfig of each trafficker
  phase,             \* where each handler is
  call               \* what it has read

books == <<balance, ledger, posted>>
requests == <<withdrawal, withdrawalStatus>>
sales == <<sale, saleStatus>>
vars == <<balance, ledger, posted, withdrawal, withdrawalStatus, sale, saleStatus,
          twoFactor, phase, call>>

Kinds == {"none", "request", "withdraw", "record", "confirm", "fail"}
Phases == {"idle", "snapshot", "ready", "tx", "locked"}
Refs == Withdrawals \cup Sales \cup {None}
Owners == Traffickers \cup {None}

Row == [kind: Kinds, ref: Refs, before: Int, after: Int]
Data(kind, acct, ref, amount, live) ==
  [kind |-> kind, acct |-> acct, ref |-> ref, amount |-> amount, live |-> live]
NoCall == Data("none", None, None, 0, 0)

TypeOK ==
  /\ balance \in [Traffickers -> Int]
  /\ ledger \in [Traffickers -> Seq(Row)]
  /\ posted \in [Traffickers -> Int]
  /\ withdrawal \in [Withdrawals -> [owner: Owners, amount: Nat]]
  /\ withdrawalStatus \in
       [Withdrawals -> {"absent", "pending_2fa", "pending_processing", "completed"}]
  /\ sale \in [Sales -> [owner: Owners, commission: Nat]]
  /\ saleStatus \in [Sales -> {"absent", "pending", "confirmed", "failed"}]
  /\ twoFactor \in [Traffickers -> {"absent", "setup", "enabled"}]
  /\ phase \in [Calls -> Phases]
  /\ call \in [Calls -> [kind: Kinds, acct: Owners, ref: Refs,
                         amount: Int, live: Int]]

Init ==
  /\ balance = [t \in Traffickers |-> 0]
  /\ ledger = [t \in Traffickers |-> <<>>]
  /\ posted = [t \in Traffickers |-> 0]
  /\ withdrawal = [w \in Withdrawals |-> [owner |-> None, amount |-> 0]]
  /\ withdrawalStatus = [w \in Withdrawals |-> "absent"]
  /\ sale = [s \in Sales |-> [owner |-> None, commission |-> 0]]
  /\ saleStatus = [s \in Sales |-> "absent"]
  /\ twoFactor = [t \in Traffickers |-> "absent"]
  /\ phase = [c \in Calls |-> "idle"]
  /\ call = [c \in Calls |-> NoCall]

-----------------------------------------------------------------------------
(* Two-factor configuration: setup_2fa is refused with 409 once enabled and *)
(* otherwise replaces the secret; verify_2fa enables it.                    *)
Setup2FA(t) ==
  /\ twoFactor[t] # "enabled"
  /\ twoFactor' = [twoFactor EXCEPT ![t] = "setup"]
  /\ UNCHANGED <<books, requests, sales, phase, call>>

Verify2FA(t) ==
  /\ twoFactor[t] # "absent"
  /\ twoFactor' = [twoFactor EXCEPT ![t] = "enabled"]
  /\ UNCHANGED <<books, requests, sales, phase, call>>

RegisterSale(s, t, commission) ==
  /\ saleStatus[s] = "absent"
  /\ sale' = [sale EXCEPT ![s] = [owner |-> t, commission |-> commission]]
  /\ saleStatus' = [saleStatus EXCEPT ![s] = "pending"]
  /\ UNCHANGED <<books, requests, twoFactor, phase, call>>

-----------------------------------------------------------------------------
(* A call moves to a phase with what it has read so far; it ends with its   *)
(* answer.                                                                  *)
Go(c, p, data) ==
  /\ phase' = [phase EXCEPT ![c] = p]
  /\ call' = [call EXCEPT ![c] = data]

End(c) == Go(c, "idle", NoCall)

(* A handler starts by reading what it later decides on, outside any        *)
(* transaction.                                                             *)
Start(c, p, data) ==
  /\ phase[c] = "idle"
  /\ Len(ledger[data.acct]) < MaxRows
  /\ Go(c, p, data)
  /\ UNCHANGED <<books, requests, sales, twoFactor>>

(* request_withdrawal and the trafficker route's withdraw: a positive       *)
(* amount the profile just read can pay.                                    *)
StartRequest(c, t, amount) ==
  /\ 0 < amount /\ amount <= balance[t]
  /\ Start(c, "ready", Data("request", t, None, amount, 0))

(* process_withdrawal resolves the trafficker first and reads the request   *)
(* in the next step.                                                        *)
StartWithdraw(c, t, w) ==
  Start(c, "snapshot", Data("withdraw", t, w, 0, balance[t]))

(* record_transaction refuses on the balance it read; the service checks    *)
(* again inside the transaction.                                            *)
StartRecord(c, t, delta) ==
  /\ balance[t] + delta >= 0
  /\ Start(c, "ready", Data("record", t, None, delta, 0))

(* confirm_sale and fail_sale read the sale and check its status.  failSale *)
(* refuses only confirmed and compensated sales, so a failed one passes.    *)
StartConfirm(c, s) ==
  /\ saleStatus[s] = "pending"
  /\ Start(c, "ready", Data("confirm", sale[s].owner, s, 0, 0))

StartFail(c, s, quarters) ==
  /\ saleStatus[s] \in {"pending", "failed"}
  /\ Start(c, "ready", Data("fail", sale[s].owner, s, quarters, 0))

(* process_withdrawal's second read: owner, status and the snapshot of the  *)
(* balance are checked; any failed check answers and ends the call.         *)
Payable(c) ==
  /\ withdrawal[call[c].ref].owner = call[c].acct
  /\ withdrawalStatus[call[c].ref] = "pending_processing"
  /\ withdrawal[call[c].ref].amount <= call[c].live

CheckWithdrawal(c) ==
  /\ phase[c] = "snapshot"
  /\ IF Payable(c)
     THEN Go(c, "ready", Data("withdraw", call[c].acct, call[c].ref,
                              -withdrawal[call[c].ref].amount, call[c].live))
     ELSE End(c)
  /\ UNCHANGED <<books, requests, sales, twoFactor>>

(* The WithdrawalRequest is created once the 2FA configuration is read: a   *)
(* wallet without 2FA gets a request that no handler ever advances.         *)
CreateWithdrawalRequest(c, w) ==
  /\ call[c].kind = "request" /\ phase[c] = "ready"
  /\ withdrawalStatus[w] = "absent"
  /\ withdrawal' = [withdrawal EXCEPT ![w] =
       [owner |-> call[c].acct, amount |-> call[c].amount]]
  /\ withdrawalStatus' = [withdrawalStatus EXCEPT ![w] =
       IF twoFactor[call[c].acct] = "enabled"
       THEN "pending_processing" ELSE "pending_2fa"]
  /\ End(c)
  /\ UNCHANGED <<books, sales, twoFactor>>

-----------------------------------------------------------------------------
(* Transactions.  On SQLite an open transaction excludes every other; under *)
(* READ COMMITTED a transaction's first read and its write are two steps,   *)
(* and its writes and commit are one, for the rows it writes stay locked.   *)
InTx(c) == phase[c] \in {"tx", "locked"}

(* Mutant: the queries run on the shared client, outside the transaction.   *)
CanOpenAnyTx == TRUE

CanOpenTx == Serializable => \A d \in Calls : ~InTx(d)

Compensation(commission, quarters) == (commission * quarters) \div 4

TxAmount(c) ==
  CASE call[c].kind = "confirm" -> sale[call[c].ref].commission
    [] call[c].kind = "fail" ->
         Compensation(sale[call[c].ref].commission, call[c].amount)
    [] OTHER -> call[c].amount

(* The transaction's first read: the live balance, and the sale.            *)
OpenTx(c) ==
  /\ phase[c] = "ready" /\ call[c].kind # "request"
  /\ CanOpenTx
  /\ Go(c, "tx", Data(call[c].kind, call[c].acct, call[c].ref, TxAmount(c),
                      balance[call[c].acct]))
  /\ UNCHANGED <<books, requests, sales, twoFactor>>

SaleUnlocked(c) ==
  \A d \in Calls \ {c} : phase[d] = "locked" => call[d].ref # call[c].ref

(* failSale updates the sale row, which it keeps locked, before it reads    *)
(* the balance it will overwrite.                                           *)
LockSale(c) ==
  /\ call[c].kind = "fail" /\ phase[c] = "tx"
  /\ SaleUnlocked(c)
  /\ Go(c, "locked", Data("fail", call[c].acct, call[c].ref, call[c].amount,
                          balance[call[c].acct]))
  /\ UNCHANGED <<books, requests, sales, twoFactor>>

(* One row with the values the transaction read.                            *)
PostRow(c) ==
  /\ ledger' = [ledger EXCEPT ![call[c].acct] = Append(@,
       [kind |-> call[c].kind, ref |-> call[c].ref,
        before |-> call[c].live, after |-> call[c].live + call[c].amount])]
  /\ posted' = [posted EXCEPT ![call[c].acct] = @ + call[c].amount]

(* walletBalance: balanceAfter: the value read plus the amount.             *)
MoveAbsolute(c) ==
  balance' = [balance EXCEPT ![call[c].acct] = call[c].live + call[c].amount]

(* increment / decrement: relative to the committed value.                  *)
MoveRelative(c) ==
  balance' = [balance EXCEPT ![call[c].acct] = @ + call[c].amount]

(* Mutant: the check on the live balance is left to the route.              *)
AffordableByRoute(c) == TRUE

Affordable(c) == call[c].live + call[c].amount >= 0

(* Mutants: the request keeps its status; the request is left in process.   *)
KeepStatus(c) == UNCHANGED withdrawalStatus
LeaveProcessing(c) ==
  withdrawalStatus' = [withdrawalStatus EXCEPT ![call[c].ref] = "processing"]

(* The request is marked completed whatever its status is by now.           *)
Complete(c) ==
  withdrawalStatus' = [withdrawalStatus EXCEPT ![call[c].ref] = "completed"]

CommitWithdraw(c) ==
  /\ call[c].kind = "withdraw" /\ phase[c] = "tx"
  /\ Affordable(c)
  /\ MoveRelative(c)
  /\ PostRow(c)
  /\ Complete(c)
  /\ End(c)
  /\ UNCHANGED <<withdrawal, sales, twoFactor>>

CommitRecord(c) ==
  /\ call[c].kind = "record" /\ phase[c] = "tx"
  /\ Affordable(c)
  /\ PostRow(c)
  /\ MoveRelative(c)
  /\ End(c)
  /\ UNCHANGED <<requests, sales, twoFactor>>

(* The sale is not read for its status again.                               *)
CommitConfirm(c) ==
  /\ call[c].kind = "confirm" /\ phase[c] = "tx"
  /\ SaleUnlocked(c)
  /\ saleStatus' = [saleStatus EXCEPT ![call[c].ref] = "confirmed"]
  /\ MoveAbsolute(c)
  /\ PostRow(c)
  /\ End(c)
  /\ UNCHANGED <<requests, sale, twoFactor>>

(* Mutant: the compensation reaches the wallet without its row.             *)
CommitFailNoRow(c) ==
  /\ call[c].kind = "fail" /\ phase[c] = "locked"
  /\ saleStatus' = [saleStatus EXCEPT ![call[c].ref] = "failed"]
  /\ MoveAbsolute(c)
  /\ End(c)
  /\ UNCHANGED <<ledger, posted, requests, sale, twoFactor>>

(* With no compensation due only the sale changes.                          *)
CommitFail(c) ==
  /\ call[c].kind = "fail" /\ phase[c] = "locked"
  /\ saleStatus' = [saleStatus EXCEPT ![call[c].ref] = "failed"]
  /\ IF call[c].amount > 0
     THEN MoveAbsolute(c) /\ PostRow(c)
     ELSE UNCHANGED books
  /\ End(c)
  /\ UNCHANGED <<requests, sale, twoFactor>>

(* A refused TOTP code, an error thrown inside the transaction, a lost      *)
(* connection or a restart ends the call with nothing written.              *)
Abandon(c) ==
  /\ phase[c] # "idle"
  /\ End(c)
  /\ UNCHANGED <<books, requests, sales, twoFactor>>

StartCall(c) ==
  \/ \E t \in Traffickers, a \in Amounts :
       \/ StartRequest(c, t, a)
       \/ StartRecord(c, t, a)
       \/ StartRecord(c, t, -a)
  \/ \E t \in Traffickers, w \in Withdrawals : StartWithdraw(c, t, w)
  \/ \E s \in Sales : StartConfirm(c, s)
  \/ \E s \in Sales, q \in {1, 2, 4} : StartFail(c, s, q)

StepCall(c) ==
  \/ CheckWithdrawal(c)
  \/ \E w \in Withdrawals : CreateWithdrawalRequest(c, w)
  \/ OpenTx(c)
  \/ LockSale(c)
  \/ CommitWithdraw(c)
  \/ CommitRecord(c)
  \/ CommitConfirm(c)
  \/ CommitFail(c)
  \/ Abandon(c)

Next ==
  \/ \E t \in Traffickers : Setup2FA(t) \/ Verify2FA(t)
  \/ \E s \in Sales, t \in Traffickers, a \in Amounts : RegisterSale(s, t, a)
  \/ \E c \in Calls : StartCall(c) \/ StepCall(c)

Spec == Init /\ [][Next]_vars

-----------------------------------------------------------------------------
(* Each row starts where the previous one ended and the balance is where    *)
(* the last one ended: the ledger the admin sees explains the balance.      *)
(* wallet.service.ts:315-316 states it of every row ("use the live values   *)
(* so the row matches the actual debited balance").  KeepsPromise implies it*)
LedgerChains ==
  \A t \in Traffickers :
    LET rows == ledger[t] IN
    /\ \A i \in 1..Len(rows) :
         rows[i].before = IF i = 1 THEN 0 ELSE rows[i-1].after
    /\ balance[t] = IF rows = <<>> THEN 0 ELSE rows[Len(rows)].after

(* No interleaving of withdrawals, entries and sales overdraws a wallet:    *)
(* the checks made on the snapshot are made again on the live balance.      *)
NonNegativeBalance == \A t \in Traffickers : balance[t] >= 0

(* A withdrawal is completed exactly when its amount has left its owner's   *)
(* wallet: the debit, the row and the status commit together.               *)
DebitIffCompleted ==
  \A w \in Withdrawals :
    withdrawalStatus[w] = "completed" <=>
      \E t \in Traffickers : \E i \in 1..Len(ledger[t]) :
        /\ t = withdrawal[w].owner
        /\ ledger[t][i].kind = "withdraw" /\ ledger[t][i].ref = w
        /\ ledger[t][i].before - ledger[t][i].after = withdrawal[w].amount

(* The balance is the sum of what the ledger posted, even when two          *)
(* transactions read the same balance: wallet.service.ts moves it by        *)
(* increment and decrement ("a concurrent transaction ... cannot be lost"). *)
PostedMatchesBalance == \A t \in Traffickers : balance[t] = posted[t]

(* wallet.service.ts:262-263: the balance, the transaction and the          *)
(* withdrawal "can never diverge": one withdrawal is debited at most once.  *)
WithdrawalDebitedOnce ==
  \A w \in Withdrawals, t \in Traffickers :
    Cardinality({i \in 1..Len(ledger[t]) :
                   ledger[t][i].kind = "withdraw" /\ ledger[t][i].ref = w}) <= 1

(* trafficker.service.ts:317: confirmSale is to "Confirm a pending sale     *)
(* atomically": the sale it flips is still pending when it commits.         *)
ConfirmsPendingSale ==
  [][\A c \in Calls : CommitConfirm(c) => saleStatus[call[c].ref] = "pending"]_vars

(* "creates WithdrawalRequest (status pending_2fa if totp required)"        *)
(* (wallet/route.ts:11): no request waits for a code nobody asks for.       *)
WaitsForRequiredTotp ==
  [][\A w \in Withdrawals :
       withdrawalStatus[w] = "absent" /\ withdrawalStatus'[w] = "pending_2fa" =>
         twoFactor[withdrawal'[w].owner] = "enabled"]_vars

(* The ledger the abstract specification sees: what each row says of the    *)
(* balance.                                                                 *)
Promise == INSTANCE WalletLedger WITH
  ledger <- [t \in Traffickers |->
              [i \in 1..Len(ledger[t]) |->
                [before |-> ledger[t][i].before, after |-> ledger[t][i].after]]]

(* With one transaction at a time the handlers implement the promise: every *)
(* change of a balance is one row that says what it was and what it is, and *)
(* it is never negative (processWithdrawal, recordTransaction, confirmSale  *)
(* and failSale run their writes inside db.$transaction).                   *)
KeepsPromise == Promise!LSpec
=============================================================================
