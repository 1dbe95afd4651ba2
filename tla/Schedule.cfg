\* A daily and a one-time transfer; processes die, jobs come twice, the queue fails.
CONSTANTS
  daily = daily
  once = once
  Schedules = {daily, once}
  Start <- MCStart
  Period <- MCPeriod
  End <- MCEnd
  External = {once}
  Workers = {1, 2}
  MaxDeliveries = 2
  Horizon = 2
  MaxHit = 1
  QueueFails = TRUE
  LateErrors = TRUE
  Crashes = TRUE
SPECIFICATION FaultSpec
\* On the last day, with every job done, nothing is left to do.
CHECK_DEADLOCK FALSE
INVARIANTS
  OccurrencesInTurn
  RowHasJob
PROPERTIES
  CancelledIsNoOp
  DueIsServed
