-------------------------- MODULE TransferContract --------------------------
(***************************************************************************)
(* What the money-movement component promises, free of requests, reads and *)
(* failures: a transaction is held at most once, settled at most once, or  *)
(* declined; settling it is ONE step that appends its only journal entry   *)
(* and moves both balances; nothing else moves money.                      *)
(* (docs/business-rules.md:74: "money moved" and "the ledger agrees money  *)
(* moved" are never allowed to diverge.)                                   *)
(***************************************************************************)
EXTENDS DoubleEntry, Sequences

CONSTANTS Txns, Accounts, Cash, Amounts, InitBalance

VARIABLES
  txn,       \* [Txns -> [state, debit, credit, amount]]
  journal,   \* the append-only sequence of journal entries
  balance    \* [Accounts -> Int], the AccountBalance projection

contractVars == <<txn, journal, balance>>

Blank == [state |-> "none", debit |-> Cash, credit |-> Cash, amount |-> 0]

TermsOf(state, e) ==
  [state |-> state, debit |-> e.debit, credit |-> e.credit, amount |-> e.amount]

Init ==
  /\ txn = [t \in Txns |-> Blank]
  /\ journal = << >>
  /\ balance = InitBalance

Post(e) ==
  /\ journal' = Append(journal, e)
  /\ balance' = Moved(balance, e)

Hold(t) ==
  /\ txn[t] = Blank
  /\ UNCHANGED <<journal, balance>>
  /\ \E d, c \in Accounts \cup {Cash}, m \in Amounts :
       /\ d # c
       /\ txn' = [txn EXCEPT ![t] = TermsOf("held", Entry(t, d, c, m))]

SettleAtOnce(t) ==
  /\ txn[t] = Blank
  /\ \E d, c \in Accounts \cup {Cash}, m \in Amounts :
       /\ d # c
       /\ Post(Entry(t, d, c, m))
       /\ txn' = [txn EXCEPT ![t] = TermsOf("settled", Entry(t, d, c, m))]

SettleHeld(t) ==
  /\ txn[t].state = "held"
  /\ txn' = [txn EXCEPT ![t].state = "settled"]
  /\ Post(Entry(t, txn[t].debit, txn[t].credit, txn[t].amount))

Decline(t) ==
  /\ txn[t].state = "held"
  /\ txn' = [txn EXCEPT ![t].state = "declined"]
  /\ UNCHANGED <<journal, balance>>

Next ==
  \E t \in Txns : Hold(t) \/ SettleAtOnce(t) \/ SettleHeld(t) \/ Decline(t)

Spec == Init /\ [][Next]_contractVars
=============================================================================
