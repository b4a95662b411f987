SPECIFICATION Spec
CONSTANTS
  None = None
  Orders = {o1, o2}
  Refs = {r1, r2}
  Tokens = {t1, t2}
  Handlers = {h1, h2}
  HoldDays = 1
  LastDay = 1
SYMMETRY Symmetry
INVARIANTS
  TypeOK
  FundsAreCharged
  HeldIsReleasable
  ChargeIsRecorded
PROPERTY
  KeepsPromise
