-------------------------- MODULE MCMoneyMovement --------------------------
(***************************************************************************)
(* Small instances of MoneyMovement: two customers with two standard       *)
(* accounts each, two members of staff, and a few units of money.          *)
(***************************************************************************)
EXTENDS MoneyOverlap, TLC

CONSTANTS checking, savings, pocket, reserve, cash, customer, partner, staffA, staffB

\* customer owns checking and savings, partner owns pocket and reserve.
MCAccounts == {checking, savings, pocket, reserve}
MCUsers == {customer, partner, staffA, staffB}
MCOwner == [a \in Accounts |-> IF a \in {checking, savings} THEN customer ELSE partner]
MCBalance == [a \in Accounts |-> IF a \in {checking, pocket} THEN 2 ELSE 0]
AllActive == [a \in Accounts |-> "ACTIVE"]

Wire(a, m) == [op |-> "external", user |-> customer, src |-> a, dst |-> cash,
               amount |-> m, goal |-> "ACTIVE"]
Internal(a, b, m) == [Wire(a, m) EXCEPT !.op = "internal", !.dst = b]
Review(op, s) == [op |-> op, user |-> s, src |-> cash, dst |-> cash,
                  amount |-> 1, goal |-> "ACTIVE"]
Approve(s) == Review("approve", s)
Reject(s) == Review("reject", s)
Transition(s, a, g) == [op |-> "transition", user |-> s, src |-> cash, dst |-> a,
                        amount |-> 1, goal |-> g]

\* A customer's transfer that may be held, a checker who approves and one who
\* rejects it, and the customer's wire of all the money there is; beside them
\* another customer's transfer, confirmed with a TOTP code, out of an account that
\* may be overdrawn.
RaceRequests ==
  <<Internal(checking, savings, 1), Approve(staffA), Reject(staffB), Wire(checking, 2),
    [Internal(reserve, pocket, 1) EXCEPT !.user = partner]>>

\* A transfer that may be held, its checker, and the closing of the account it goes
\* to: all three may be submitted again after a failure.
RetryRequests ==
  <<Internal(checking, savings, 1), Approve(staffA), Transition(staffA, savings, "CLOSED")>>

\* One transfer that may be held, and two checkers who both approve.
DoubleApprovalRequests ==
  <<Internal(checking, savings, 1), Approve(staffA), Approve(staffB)>>
=============================================================================
