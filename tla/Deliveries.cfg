\* An item of any kind, two executions, anything may fail.
CONSTANTS
  Items = {1}
  Workers = {1, 2}
  MaxAttempts = 3
  MaxStalls = 2
  Faults = TRUE
SPECIFICATION FairSpec
\* When every job is completed or given up the workers wait for the next one.
CHECK_DEADLOCK FALSE
INVARIANTS
  ExtraCopiesHaveACause
  OneStatementPerRequest
PROPERTIES
  EnqueuedComesOut
