\* Two requests of one customer overlap and any step may fail.
CONSTANTS
  Clients = {web, phone}
  MaxRequests = 4
  MaxAttempts = 1
  SetSize = 1
SPECIFICATION Spec
SYMMETRY Alike
\* When every request is answered nothing is left to do.
CHECK_DEADLOCK FALSE
INVARIANTS
  CodeIsUsedOnce
  WrongCodesAreLimited
  ReplacedCodesAreDead
  SecretIsProved
