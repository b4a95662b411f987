SPECIFICATION FairSpec
CONSTANTS
  None = None
  p1 = p1
  p2 = p2
  p3 = p3
  s1 = s1
  s2 = s2
  Products = {p1, p2}
  Seller <- OneShop
  Quantities <- Signed
  MaxQuantity = 1
  MaxItems = 2
  Levels = {2}
  Orders = {o1, o2}
  Handlers = {h1, h2}
CHECK_DEADLOCK FALSE
INVARIANT StockConserved
PROPERTY RequestEnds
