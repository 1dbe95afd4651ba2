\* Two tabs of a browser and a phone; requests overlap and any step may fail.
CONSTANTS
  tab1 = tab1
  tab2 = tab2
  app = app
  laptop = laptop
  phone = phone
  Clients = {tab1, tab2, app}
  Browsers = {laptop, phone}
  Browser <- MCBrowser
  May <- MCMay
  MaxRequests <- MCRequests
  MaxAttempts = 2
  MaxConcurrent = 1
SPECIFICATION Spec
\* When every client has sent its requests nothing is left to do.
CHECK_DEADLOCK FALSE
INVARIANTS
  SessionsAreLimited
  GuessesAreLimited
  CookieIsAccepted
  ReplayEndsSession
 
