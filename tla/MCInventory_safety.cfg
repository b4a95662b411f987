SPECIFICATION Spec
CONSTANTS
  None = None
  p1 = p1
  p2 = p2
  p3 = p3
  s1 = s1
  s2 = s2
  Products = {p1, p2, p3}
  Seller <- TwoShops
  Quantities = {1}
  MaxQuantity = 1
  MaxItems = 2
  Levels = {0, 1}
  Orders = {o1, o2, o3}
  Handlers = {h1, h2}
CHECK_DEADLOCK FALSE
SYMMETRY OneShopSymmetry
INVARIANTS
  TypeOK
  OversellBounded
  CommittedIsAnnounced
PROPERTY
  KeepsLedger
