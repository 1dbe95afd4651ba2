\* Two checkers approve the same held transfer.
CONSTANTS
  checking = checking
  savings = savings
  pocket = pocket
  reserve = reserve
  cash = cash
  customer = customer
  partner = partner
  staffA = staffA
  staffB = staffB
  Accounts <- MCAccounts
  Cash = cash
  Users <- MCUsers
  Owner <- MCOwner
  OverdraftAccounts = {}
  TotpUsers = {partner}
  InitBalance <- MCBalance
  InitStatus <- AllActive
  Intents = {1, 2, 3}
  Request <- DoubleApprovalRequests
  MaxTries = 1
  PerTransactionLimit = 2
  DailyLimit = 2
  HighValue = 2
  Largest = 2
  Failures = FALSE
SPECIFICATION OverlapSpec
\* Every client eventually has its answer or has given up: the run may stop.
CHECK_DEADLOCK FALSE
INVARIANT PostedAtMostOnce
