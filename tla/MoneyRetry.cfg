\* Failed requests are submitted again and any step may fail.
CONSTANTS
  checking = checking
  savings = savings
  pocket = pocket
  reserve = reserve
  cash = cash
  customer = customer
  partner = partner
  staffA = staffA
  staffB = staffB
  Accounts = {checking, savings}
  Cash = cash
  Users <- MCUsers
  Owner <- MCOwner
  OverdraftAccounts = {}
  TotpUsers = {partner}
  InitBalance <- MCBalance
  InitStatus <- AllActive
  Intents = {1, 2, 3}
  Request <- RetryRequests
  MaxTries = 2
  PerTransactionLimit = 2
  DailyLimit = 1
  HighValue = 2
  Largest = 2
  Failures = TRUE
SPECIFICATION FairSpec
\* Every client eventually has its answer or has given up: the run may stop.
CHECK_DEADLOCK FALSE
INVARIANTS
  ExcessIsOverlap
  AnswersAreTrue
PROPERTIES
  ImplementsContract
  CompletedIsAnnounced
