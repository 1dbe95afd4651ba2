\* Two callers of one key, two calls each, everything may fail.
CONSTANTS
  web = web
  mobile = mobile
  Callers = {web, mobile}
  MaxCalls = 2
SPECIFICATION FairSpec
\* When every caller has used up its calls nothing is left to do.
CHECK_DEADLOCK FALSE
INVARIANTS
  EveryExtraRunHasACause
  OnlyRealResults
PROPERTIES
  EveryCallEnds
