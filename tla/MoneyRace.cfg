\* Contending requests overlap freely; no step fails.
CONSTANTS
  checking = checking
  savings = savings
  pocket = pocket
  reserve = reserve
  cash = cash
  customer = customer
  partner = partner
  staffA = staffA
  staffB = staffB
  Accounts <- MCAccounts
  Cash = cash
  Users <- MCUsers
  Owner <- MCOwner
  OverdraftAccounts = {reserve}
  TotpUsers = {partner}
  InitBalance <- MCBalance
  InitStatus <- AllActive
  Intents = {1, 2, 3, 4, 5}
  Request <- RaceRequests
  MaxTries = 1
  PerTransactionLimit = 2
  DailyLimit = 2
  HighValue = 2
  Largest = 2
  Failures = FALSE
SPECIFICATION OverlapSpec
\* Every client eventually has its answer: the run may stop.
CHECK_DEADLOCK FALSE
INVARIANTS
  BalanceReconciles
  OverdraftIsOverlap
  ResolvedOncePerReview
