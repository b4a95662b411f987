SPECIFICATION Spec
CONSTANTS
  None = None
  Orders = {o1}
  Refs = {r1}
  Tokens = {t1}
  Handlers = {h1, h2}
  HoldDays = 1
  LastDay = 1
INVARIANT
  ReleasedOncePerCharge
