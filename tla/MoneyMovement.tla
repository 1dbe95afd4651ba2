--------------------------- MODULE MoneyMovement ---------------------------
(***************************************************************************)
(* The request handlers of account-service that move money or decide       *)
(* whether it may move:                                                    *)
(*   SandboxTransactionService    deposit, adminCredit, withdraw           *)
(*   InternalTransferService      transfer (posted at once, or held)       *)
(*   ExternalTransferService      transfer (simulated wire)                *)
(*   TransferReviewService        approve, reject a held transfer          *)
(*   AccountStatusService         transition                               *)
(* Every handler is a chain of awaits; between two of them any other       *)
(* request may run.  `stage` names the await a request has reached.  A     *)
(* database transaction ($transaction) is one step; everything after it    *)
(* (event, audit row, receipt job, e-mail) is a separate step that can     *)
(* fail on its own.                                                        *)
(***************************************************************************)
EXTENDS DoubleEntry, Sequences, FiniteSets

CONSTANTS
  Accounts,            \* customer accounts, each with an AccountBalance row
  Cash,                \* the bank's own Cash ledger account, code '1000'
  Users,               \* customers and staff
  Owner,               \* [Accounts -> Users]
  OverdraftAccounts,   \* accounts whose type allowsOverdraft
  TotpUsers,           \* users with an enabled TOTP factor
  InitBalance,         \* [Accounts -> Int], balances at the start
  InitStatus,          \* [Accounts -> AccountStatus], statuses at the start
  Intents,             \* what clients want done, each once
  Request,             \* [Intents -> Requests], what each intent asks for
  MaxTries,            \* bound: how often a client submits one intent
  PerTransactionLimit, \* the TransferLimit row in effect ...
  DailyLimit,          \* ... its tightest cumulative ceiling
  HighValue,           \* the HIGH_RISK_TRANSACTION threshold
  Failures             \* TRUE: a step may throw and a process may die

VARIABLES
  accountStatus,  \* [Accounts -> AccountStatus]            accounts.status
  balance,        \* [Accounts -> Int]  available = current, always moved alike
  journal,        \* Seq of entries                         journal_entries
  txns,           \* [TxnIds -> Txn]       transactions and transfer_approvals
  effects,        \* pairs <<side effect, transaction>> that have happened
  stage,          \* [Intents -> Stages], the next await of its handler
  tail,           \* [Intents -> Seq(Effects)], side effects still to perform
  target,         \* [Intents -> TxnIds], the transaction it works on
  tries,          \* [Intents -> 0..MaxTries], submissions so far
  reply           \* [Intents -> Replies], what the client was last told

vars == <<accountStatus, balance, journal, txns, effects,
          stage, tail, target, tries, reply>>

database == <<accountStatus, balance, journal, txns>>
requestVars == <<stage, tail, target, tries, reply>>

-----------------------------------------------------------------------------
AccountStatus ==
  {"PENDING_ACTIVATION", "ACTIVE", "FROZEN", "DORMANT", "CLOSED", "RESTRICTED"}

LegalTransitions ==
  [s \in AccountStatus |->
     CASE s = "PENDING_ACTIVATION" -> {"ACTIVE", "CLOSED"}
       [] s = "ACTIVE" -> {"FROZEN", "DORMANT", "RESTRICTED", "CLOSED"}
       [] s = "CLOSED" -> {}
       [] OTHER -> {"ACTIVE", "CLOSED"}]

Credits == {"deposit", "adminCredit"}
Transfers == {"internal", "external"}
Debits == {"withdraw"} \cup Transfers
Reviews == {"approve", "reject"}
Operations == Credits \cup Debits \cup Reviews \cup {"transition"}

LedgerAccounts == Accounts \cup {Cash}

\* src and dst are the accounts debited and credited (Cash for the bank's
\* side).  A review names neither; a transition names its account in dst and
\* the status it asks for in goal.
Requests ==
  [op : Operations, user : Users, src : LedgerAccounts, dst : LedgerAccounts,
   amount : Nat \ {0}, goal : AccountStatus]

ASSUME ConstantsFit ==
  /\ Cash \notin Accounts
  /\ Owner \in [Accounts -> Users]
  /\ OverdraftAccounts \subseteq Accounts
  /\ InitBalance \in [Accounts -> Int]
  /\ InitStatus \in [Accounts -> AccountStatus]
  /\ Request \in [Intents -> Requests]
  /\ MaxTries \in Nat \ {0}
  /\ {PerTransactionLimit, DailyLimit, HighValue} \subseteq Nat
  /\ Failures \in BOOLEAN

\* The routes: a credit comes from Cash, a withdrawal or wire goes to Cash, an
\* internal transfer joins two customer accounts.
ASSUME RequestsFollowRoutes ==
  \A i \in Intents :
    LET r == Request[i]
    IN  /\ r.op \in Credits => r.src = Cash /\ r.dst \in Accounts
        /\ r.op \in {"withdraw", "external"} => r.src \in Accounts /\ r.dst = Cash
        /\ r.op = "internal" => r.src \in Accounts /\ r.dst \in Accounts
        /\ r.op = "transition" => r.dst \in Accounts

\* Standard accounts start without debt.
ASSUME OpeningBalances ==
  \A a \in Accounts \ OverdraftAccounts : InitBalance[a] >= 0

-----------------------------------------------------------------------------
(* Transactions.  One submission of one intent creates at most one.        *)

TxnIds == Intents \X (1..MaxTries)

NoTxn == [status |-> "NONE", approval |-> "NONE", src |-> Cash, dst |-> Cash, amount |-> 0]

Txn == [status : {"NONE", "PENDING", "COMPLETED", "REJECTED"},
        approval : {"NONE", "PENDING", "APPROVED", "REJECTED"},
        src : LedgerAccounts, dst : LedgerAccounts, amount : Nat]

Effects == {"publish", "audit", "receipt", "email"}
Stages == {"idle", "load", "balance", "limits", "confirm", "commit", "hold", "after"}
Replies == {"none", "ok", "held", "mfa", "refused", "error"}

\* The money a request would move: a review moves the held transaction's.
Terms(i) == IF Request[i].op \in Reviews THEN txns[target[i]] ELSE Request[i]

Busy(i) == stage[i] # "idle"

Goto(i, s) ==
  /\ stage' = [stage EXCEPT ![i] = s]
  /\ UNCHANGED <<tail, target, tries, reply>>

\* The handler throws or returns; the client sees r.
Answer(i, r) ==
  /\ stage' = [stage EXCEPT ![i] = "idle"]
  /\ tail' = [tail EXCEPT ![i] = << >>]
  /\ reply' = [reply EXCEPT ![i] = r]
  /\ UNCHANGED <<target, tries>>

\* The database transaction committed; these side effects remain.
Then(i, seq) ==
  /\ stage' = [stage EXCEPT ![i] = "after"]
  /\ tail' = [tail EXCEPT ![i] = seq]
  /\ UNCHANGED <<target, tries, reply>>

-----------------------------------------------------------------------------
Init ==
  /\ accountStatus = InitStatus
  /\ balance = InitBalance
  /\ journal = << >>
  /\ txns = [t \in TxnIds |-> NoTxn]
  /\ effects = {}
  /\ stage = [i \in Intents |-> "idle"]
  /\ tail = [i \in Intents |-> << >>]
  /\ target = [i \in Intents |-> <<i, 1>>]
  /\ tries = [i \in Intents |-> 0]
  /\ reply = [i \in Intents |-> "none"]

\* A request arrives.  The client submits an intent again only after an
\* answer that did not say it was done.  A review addresses a held transaction.
Submit(i) ==
  /\ ~Busy(i)
  /\ reply[i] \notin {"ok", "held"}
  /\ tries[i] < MaxTries
  /\ \E t \in TxnIds :
       /\ IF Request[i].op \in Reviews THEN txns[t].approval # "NONE"
                                       ELSE t = <<i, tries[i] + 1>>
       /\ target' = [target EXCEPT ![i] = t]
  /\ stage' = [stage EXCEPT ![i] = "load"]
  /\ tries' = [tries EXCEPT ![i] = @ + 1]
  /\ reply' = [reply EXCEPT ![i] = "none"]
  /\ UNCHANGED <<database, effects, tail>>

-----------------------------------------------------------------------------
(* Reading and deciding.                                                   *)

\* loadOwnedActiveAccount / loadActiveAccount: every customer account named
\* must be ACTIVE, and the caller's own unless staff credit it.
MayUse(i) ==
  LET r == Request[i]
  IN  \A a \in {r.src, r.dst} \cap Accounts :
        /\ accountStatus[a] = "ACTIVE"
        /\ r.op # "adminCredit" => Owner[a] = r.user

LoadAccounts(i) ==
  /\ stage[i] = "load"
  /\ Request[i].op \in Credits \cup Debits
  /\ IF MayUse(i) /\ Request[i].src # Request[i].dst
     THEN Goto(i, IF Request[i].op \in Credits THEN "commit" ELSE "balance")
     ELSE Answer(i, "refused")
  /\ UNCHANGED <<database, effects>>

\* Faulty variant: the review skips the check that the transfer is still PENDING.
LoadHeldUnchecked(i) ==
  /\ stage[i] = "load"
  /\ Request[i].op \in Reviews
  /\ IF Request[target[i][1]].user # Request[i].user
     THEN Goto(i, IF Request[i].op = "approve" THEN "balance" ELSE "commit")
     ELSE Answer(i, "refused")
  /\ UNCHANGED <<database, effects>>

\* assertPendingAndNotOwnRequest, on rows read outside the transaction that
\* later resolves them.  The maker is the user of the intent that was held.
LoadHeld(i) ==
  /\ stage[i] = "load"
  /\ Request[i].op \in Reviews
  /\ LET t == target[i]
     IN  IF /\ txns[t].status = "PENDING"
            /\ txns[t].approval = "PENDING"
            /\ Request[t[1]].user # Request[i].user
         THEN Goto(i, IF Request[i].op = "approve" THEN "balance" ELSE "commit")
         ELSE Answer(i, "refused")
  /\ UNCHANGED <<database, effects>>

LoadStatus(i) ==
  /\ stage[i] = "load"
  /\ Request[i].op = "transition"
  /\ IF Request[i].goal \in LegalTransitions[accountStatus[Request[i].dst]]
     THEN Goto(i, "commit")
     ELSE Answer(i, "refused")
  /\ UNCHANGED <<database, effects>>

\* Faulty variant: only a transfer's balance is checked.
CheckTransferBalance(i) ==
  /\ stage[i] = "balance"
  /\ IF \/ Request[i].op \notin Transfers
        \/ balance[Terms(i).src] >= Terms(i).amount
     THEN Goto(i, IF Request[i].op \in Transfers THEN "limits" ELSE "commit")
     ELSE Answer(i, "refused")
  /\ UNCHANGED <<database, effects>>

CheckBalance(i) ==
  /\ stage[i] = "balance"
  /\ IF \/ Terms(i).src \in OverdraftAccounts
        \/ balance[Terms(i).src] >= Terms(i).amount
     THEN Goto(i, IF Request[i].op \in Transfers THEN "limits" ELSE "commit")
     ELSE Answer(i, "refused")
  /\ UNCHANGED <<database, effects>>

\* sumOutboundTransfers: COMPLETED transfers out of the account.  A transfer
\* still held for review is not counted.
Outbound(a) ==
  {t \in TxnIds : /\ txns[t].status = "COMPLETED"
                  /\ txns[t].src = a
                  /\ Request[t[1]].op \in Transfers}

\* Faulty variant: the ceiling is compared before the amount is added.
CheckLimitsBefore(i) ==
  /\ stage[i] = "limits"
  /\ IF /\ Request[i].amount <= PerTransactionLimit
        /\ TotalOf(txns, Outbound(Request[i].src)) <= DailyLimit
     THEN Goto(i, "confirm")
     ELSE Answer(i, "refused")
  /\ UNCHANGED <<database, effects>>

CheckLimits(i) ==
  /\ stage[i] = "limits"
  /\ LET r == Request[i]
     IN  IF /\ r.amount <= PerTransactionLimit
            /\ TotalOf(txns, Outbound(r.src)) + r.amount <= DailyLimit
         THEN Goto(i, "confirm")
         ELSE Answer(i, "refused")
  /\ UNCHANGED <<database, effects>>

\* resolveStepUp.  Velocity and device signals depend on the clock and the
\* session, so any attempt may be flagged; a high amount always is.
StepUp(i) ==
  /\ stage[i] = "confirm"
  /\ Request[i].op = "internal"
  /\ \/ Request[i].amount < HighValue /\ Goto(i, "commit")      \* no signal
     \/ Request[i].user \in TotpUsers /\ Goto(i, "commit")       \* right code
     \/ Request[i].user \in TotpUsers /\ Answer(i, "mfa")        \* no code yet
     \/ Answer(i, "refused")                                     \* wrong code
     \/ Request[i].user \notin TotpUsers /\ Goto(i, "hold")
  /\ UNCHANGED <<database, effects>>

\* TransferOtpService: no code (one is mailed), a wrong one, or the right one.
ConfirmWire(i) ==
  /\ stage[i] = "confirm"
  /\ Request[i].op = "external"
  /\ \/ Answer(i, "mfa")
     \/ Answer(i, "refused")
     \/ Goto(i, "commit")
  /\ UNCHANGED <<database, effects>>

-----------------------------------------------------------------------------
(* Writing.  Nothing read above is looked at again.                        *)

\* Faulty variant: the event is forgotten.
UnpublishedEffects(op) ==
  <<"audit", "receipt">>
    \o (IF op \in Transfers \cup {"approve"} THEN <<"email">> ELSE << >>)

PostedEffects(op) ==
  <<"publish", "audit", "receipt">>
    \o (IF op \in Transfers \cup {"approve"} THEN <<"email">> ELSE << >>)

\* Faulty variant: the credited account's balance is not incremented.
PostDebitOnly(t, terms) ==
  /\ journal' = Append(journal, Entry(t, terms.src, terms.dst, terms.amount))
  /\ balance' = Moved(balance, Entry(t, terms.src, Cash, terms.amount))

Post(t, terms) ==
  LET e == Entry(t, terms.src, terms.dst, terms.amount)
  IN  /\ journal' = Append(journal, e)
      /\ balance' = Moved(balance, e)

NewTxn(i, status, approval) ==
  [status |-> status, approval |-> approval, src |-> Request[i].src,
   dst |-> Request[i].dst, amount |-> Request[i].amount]

\* A new transaction is created COMPLETED together with its journal entry.
CommitPosting(i) ==
  /\ stage[i] = "commit"
  /\ Request[i].op \in Credits \cup Debits
  /\ txns' = [txns EXCEPT ![target[i]] = NewTxn(i, "COMPLETED", "NONE")]
  /\ Post(target[i], Request[i])
  /\ Then(i, PostedEffects(Request[i].op))
  /\ UNCHANGED <<accountStatus, effects>>

\* Transaction, TransferRequest and TransferApproval rows; no ledger entry.
CommitHold(i) ==
  /\ stage[i] = "hold"
  /\ txns' = [txns EXCEPT ![target[i]] = NewTxn(i, "PENDING", "PENDING")]
  /\ Then(i, <<"audit", "email">>)
  /\ UNCHANGED <<accountStatus, balance, journal, effects>>

\* The updates name the row by id only, not by its PENDING status.
CommitApproval(i) ==
  /\ stage[i] = "commit"
  /\ Request[i].op = "approve"
  /\ txns' = [txns EXCEPT ![target[i]].status = "COMPLETED",
                          ![target[i]].approval = "APPROVED"]
  /\ Post(target[i], txns[target[i]])
  /\ Then(i, PostedEffects("approve"))
  /\ UNCHANGED <<accountStatus, effects>>

CommitRejection(i) ==
  /\ stage[i] = "commit"
  /\ Request[i].op = "reject"
  /\ txns' = [txns EXCEPT ![target[i]].status = "REJECTED",
                          ![target[i]].approval = "REJECTED"]
  /\ Then(i, <<"audit", "email">>)
  /\ UNCHANGED <<accountStatus, balance, journal, effects>>

CommitTransition(i) ==
  /\ stage[i] = "commit"
  /\ Request[i].op = "transition"
  /\ accountStatus' = [accountStatus EXCEPT ![Request[i].dst] = Request[i].goal]
  /\ Then(i, <<"audit", "publish">>)
  /\ UNCHANGED <<balance, journal, txns, effects>>

-----------------------------------------------------------------------------
(* After the commit.                                                       *)

SideEffect(i) ==
  /\ stage[i] = "after"
  /\ tail[i] # << >>
  /\ effects' = effects \cup {<<Head(tail[i]), target[i]>>}
  /\ tail' = [tail EXCEPT ![i] = Tail(@)]
  /\ UNCHANGED <<database, stage, target, tries, reply>>

Respond(i) ==
  /\ stage[i] = "after"
  /\ tail[i] = << >>
  /\ Answer(i, IF /\ Request[i].op \in Transfers
                  /\ txns[target[i]].approval # "NONE"
               THEN "held" ELSE "ok")
  /\ UNCHANGED <<database, effects>>

\* A query, the event bus, a queue or the process itself fails (a LOCKED
\* financial period and a Postgres deadlock abort do too): what has not
\* committed is rolled back and the client gets an error or no answer.
Fail(i) ==
  /\ Failures
  /\ Busy(i)
  /\ Answer(i, "error")
  /\ UNCHANGED <<database, effects>>

Handle(i) ==
  \/ LoadAccounts(i) \/ LoadHeld(i) \/ LoadStatus(i)
  \/ CheckBalance(i) \/ CheckLimits(i) \/ StepUp(i) \/ ConfirmWire(i)
  \/ CommitPosting(i) \/ CommitHold(i)
  \/ CommitApproval(i) \/ CommitRejection(i) \/ CommitTransition(i)
  \/ SideEffect(i) \/ Respond(i)

Next == \E i \in Intents : Submit(i) \/ Handle(i) \/ Fail(i)

Spec == Init /\ [][Next]_vars

-----------------------------------------------------------------------------
TypeOK ==
  /\ accountStatus \in [Accounts -> AccountStatus]
  /\ balance \in [Accounts -> Int]
  /\ journal \in Seq([txn : TxnIds, debit : LedgerAccounts,
                      credit : LedgerAccounts, amount : Nat])
  /\ txns \in [TxnIds -> Txn]
  /\ effects \subseteq Effects \X TxnIds
  /\ stage \in [Intents -> Stages]
  /\ tail \in [Intents -> Seq(Effects)]
  /\ target \in [Intents -> TxnIds]
  /\ tries \in [Intents -> 0..MaxTries]
  /\ reply \in [Intents -> Replies]

(* Whatever the interleaving.                                              *)

\* The AccountBalance projection equals the opening balance plus the journal
\* lines of the account, however many handlers post at once: no update is
\* lost between two read-modify-write handlers (atomic increment/decrement).
BalanceReconciles == balance = Derived(InitBalance, journal)

\* A transfer held for review has no ledger entry: no balance moves until a
\* member of staff resolves it (internal-transfer.service.ts, class comment).
HeldMoneyDoesNotMove ==
  \A t \in TxnIds : txns[t].status \in {"NONE", "PENDING"} => EntriesOf(journal, t) = {}

\* "Completed" is only ever said of a transaction the ledger knows, and every
\* entry carries the terms the customer asked for.
CompletedIsPosted ==
  \A t \in TxnIds :
    /\ txns[t].status = "COMPLETED" => EntriesOf(journal, t) # {}
    /\ \A n \in EntriesOf(journal, t) :
         journal[n] = Entry(t, Request[t[1]].src, Request[t[1]].dst, Request[t[1]].amount)

\* The event TRANSFER_COMPLETED / DEPOSIT_POSTED / WITHDRAWAL_POSTED and the
\* receipt job only exist for a transaction with a journal entry.
AnnouncedIsPosted ==
  \A p \in effects :
    (p[1] \in {"publish", "receipt"} /\ Request[p[2][1]].op # "transition")
      => EntriesOf(journal, p[2]) # {}

\* An answer tells the truth: refused or asked for a code means this attempt
\* left no transaction; held means one awaits (or had) a review; ok means the
\* money moved, the event is out and the receipt is queued.
AnswersAreTrue ==
  \A i \in Intents :
    LET t == <<i, tries[i]>>
    IN  Request[i].op \in Credits \cup Debits =>
          /\ reply[i] \in {"refused", "mfa"} => txns[t] = NoTxn
          /\ reply[i] = "held" => txns[t].approval # "NONE"
          /\ reply[i] = "ok" => /\ EntriesOf(journal, t) # {}
                               /\ {"publish", "audit", "receipt"} \X {t} \subseteq effects

\* A transaction is posted at most once.
PostedAtMostOnce ==
  \A t \in TxnIds : \A m, n \in EntriesOf(journal, t) : m = n

\* The detailed handlers implement TransferContract.
AsPromised ==
  [t \in TxnIds |->
     [state |-> CASE txns[t].status = "NONE" -> "none"
                  [] txns[t].status = "PENDING" -> "held"
                  [] txns[t].status = "COMPLETED" -> "settled"
                  [] txns[t].status = "REJECTED" -> "declined",
      debit |-> txns[t].src, credit |-> txns[t].dst, amount |-> txns[t].amount]]

Contract ==
  INSTANCE TransferContract
    WITH Txns <- TxnIds, Amounts <- {Request[i].amount : i \in Intents},
         txn <- AsPromised

ImplementsContract == Contract!Spec

\* Who completes a transaction, by posting it or by approving it, goes on to
\* announce it on the event bus and to queue its receipt; if not, the caller is
\* told of an error.
CompletedIsAnnounced ==
  \A i \in Intents :
    (/\ stage[i] = "after" /\ txns[target[i]].status = "COMPLETED"
     /\ (Request[i].op = "approve" \/ txns[target[i]].approval = "NONE"))
      ~> {"publish", "receipt"} \X {target[i]} \subseteq effects \/ reply[i] = "error"
=============================================================================
