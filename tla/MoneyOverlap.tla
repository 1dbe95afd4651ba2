---------------------------- MODULE MoneyOverlap ----------------------------
(***************************************************************************)
(* MoneyMovement with a history of how far requests overlapped.  No        *)
(* handler locks the rows it has decided about, so the rules of the bank   *)
(* hold up to what was decided and not yet written: the histories record   *)
(* how much that was.                                                      *)
(***************************************************************************)
EXTENDS MoneyMovement

CONSTANT Largest  \* bound: the largest amount a client asks for

ASSUME AmountsAreBounded ==
  Largest \in Nat /\ \A i \in Intents : Request[i].amount <= Largest

VARIABLES
  rush,      \* [Accounts -> Nat], most debits at once past the balance check
  reviewers  \* [TxnIds -> Nat], most reviews at once past the PENDING check

overlapVars == <<vars, rush, reviewers>>

\* The requests that have found enough on account a and not yet taken it.
Cleared(a) ==
  {i \in Intents : /\ Request[i].op \in Debits \cup {"approve"}
                   /\ stage[i] \in {"limits", "confirm", "commit"}
                   /\ Terms(i).src = a}

\* The reviews that have found t PENDING and not yet resolved it.
Resolving(t) ==
  {i \in Intents : /\ Request[i].op \in Reviews
                   /\ stage[i] \in {"balance", "commit"}
                   /\ target[i] = t}

Greater(m, n) == IF m >= n THEN m ELSE n

OverlapInit ==
  /\ Init
  /\ rush = [a \in Accounts |-> 0]
  /\ reviewers = [t \in TxnIds |-> 0]

OverlapNext ==
  /\ Next
  /\ rush' = [a \in Accounts |-> Greater(rush[a], Cardinality(Cleared(a)'))]
  /\ reviewers' = [t \in TxnIds |-> Greater(reviewers[t], Cardinality(Resolving(t)'))]

OverlapSpec == OverlapInit /\ [][OverlapNext]_overlapVars

\* Node's event loop keeps running every pending continuation.
FairSpec == OverlapSpec /\ \A i \in Intents : WF_vars(Handle(i))

-----------------------------------------------------------------------------
\* How many debits of account a slipped past another one.
Slipped(a) == IF rush[a] = 0 THEN 0 ELSE rush[a] - 1

\* A standard account is never overdrawn (docs/business-rules.md:66), except by what
\* was decided on a stale balance: at most the largest amount for each debit that
\* was between its check and its commit together with another.
OverdraftIsOverlap ==
  \A a \in Accounts \ OverdraftAccounts : balance[a] >= -(Slipped(a) * Largest)

\* Transfers posted without a review stay within the cumulative ceiling
\* (docs/business-rules.md:71), except for one transfer for each that overlapped.
ExcessIsOverlap ==
  \A a \in Accounts :
    TotalOf(txns, {t \in Outbound(a) : txns[t].approval = "NONE"})
      <= DailyLimit + Slipped(a) * PerTransactionLimit

\* "This transfer has already been resolved": a held transfer is resolved once.  It is
\* posted again, or posted although rejected, only as often as reviews overlapped.
ResolvedOncePerReview ==
  \A t \in TxnIds :
    Cardinality(EntriesOf(journal, t)) + (IF txns[t].status = "REJECTED" THEN 1 ELSE 0)
      <= Greater(reviewers[t], 1)

\* Every commit is a step of TransferContract, so that a transaction moves money once,
\* on the terms it was held with; unless it resolves a transfer that two reviews at
\* once found PENDING.
KeepsContract ==
  [][\/ Contract!Next
     \/ \E i \in Intents : /\ reviewers[target[i]] > 1
                           /\ CommitApproval(i) \/ CommitRejection(i)]_(Contract!contractVars)
=============================================================================
