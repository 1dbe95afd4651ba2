\* Handlers throw, Redis commands fail, processes die and come back.
CONSTANTS
  mailer = mailer
  ledger = ledger
  Groups = {mailer, ledger}
  Consumers = {1, 2, 3}
  GroupOf <- MCGroupOf
  MaxAttempts <- MixedAttempts
  Batch = 2
  MaxEvents = 3
  Bare = {3}
  HandlerFails = TRUE
  RedisFails = TRUE
  Crashes = TRUE
SPECIFICATION BusSpec
\* When every event is taken the loops wait for the next one.
CHECK_DEADLOCK FALSE
INVARIANTS
  AcknowledgedWasHeard
  ForgottenHasACause
