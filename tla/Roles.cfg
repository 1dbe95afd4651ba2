\* Two requests overlap and any step may fail.
CONSTANTS
  None = None
  alice = alice
  boss = boss
  deputy = deputy
  base = base
  lead = lead
  temp = temp
  Clients = {web, cli}
  Users = {alice}
  Admins = {boss, deputy}
  Roles = {base, lead, temp}
  MaxDepth = 2
  MaxRequests = 3
  Seeded = {base, lead}
  System = {base}
  InitParent <- MCParent
  InitSensitive = {base}
  InitGranting = {base}
  InitHeld <- MCHeld
  InitAsked <- MCAsked
SPECIFICATION Spec
SYMMETRY Alike
\* When every request is answered nothing is left to do.
CHECK_DEADLOCK FALSE
INVARIANTS
  LostPermissionsAreForgotten
  NoShortCycle
  ReviewsAreFinal
  SensitiveNeedsTwo
  
