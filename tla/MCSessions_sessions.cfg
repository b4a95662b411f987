CONSTANTS
  u1 = u1
  u2 = u2
  b1 = b1
  b2 = b2
  h1 = h1
  h2 = h2
  None = None
  Users <- MCUsers
  Browsers <- MCBrowsers
  Tabs <- MCTabs
  Handlers <- MCHandlers
  CookieParser = TRUE
  AccessLife = 1
  RefreshLife = 2
  MaxTime = 3
  MaxLogins = 2
SPECIFICATION Spec
SYMMETRY AllAlike
INVARIANTS
  TypeOK
  CookiesAgree
  EndTakesHold
PROPERTY EndedStaysEnded
CHECK_DEADLOCK FALSE
