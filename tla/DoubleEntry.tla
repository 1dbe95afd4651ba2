---------------------------- MODULE DoubleEntry ----------------------------
(***************************************************************************)
(* The accounting vocabulary of LedgerPostingService: a journal entry with *)
(* one DEBIT and one CREDIT line of the same positive amount, and what     *)
(* posting it does to the AccountBalance projection.  Customer accounts    *)
(* carry an AccountBalance row; the bank's Cash account (code '1000') only *)
(* receives journal lines.                                                 *)
(***************************************************************************)
EXTENDS Integers, FiniteSetsExt

\* The entry realising transaction t: customer money leaves `debit` and
\* arrives at `credit`.
Entry(t, debit, credit, amount) ==
  [txn |-> t, debit |-> debit, credit |-> credit, amount |-> amount]

\* The balance projection after an entry: `decrement` on the debited account
\* and `increment` on the credited one, both in the same database transaction.
Moved(balances, e) ==
  [a \in DOMAIN balances |->
     balances[a] - (IF a = e.debit THEN e.amount ELSE 0)
                 + (IF a = e.credit THEN e.amount ELSE 0)]

\* The sum of the amounts of the rows ids: journal entries, or transactions.
TotalOf(rows, ids) == MapThenSumSet(LAMBDA n : rows[n].amount, ids)

\* The sum of the amounts of the journal lines selected by Sel(_).
LineTotal(journal, Sel(_)) == TotalOf(journal, {n \in DOMAIN journal : Sel(journal[n])})

\* What the projection must equal: opening balances plus credits less debits.
Derived(opening, journal) ==
  [a \in DOMAIN opening |->
     opening[a] - LineTotal(journal, LAMBDA e : e.debit = a)
                + LineTotal(journal, LAMBDA e : e.credit = a)]

\* The entries of the journal that realise transaction t.
EntriesOf(journal, t) == {n \in DOMAIN journal : journal[n].txn = t}
=============================================================================
