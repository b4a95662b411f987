SPECIFICATION Spec
CONSTANTS
  None = None
  p1 = p1
  p2 = p2
  t1 = t1
  Products = {p1, p2}
  Seller <- OneShop
  Quantities <- SomeQuantities
  MaxQuantity = 1
  MaxItems = 2
  Levels = {}
  Orders = {o1}
  Carts <- SmallCarts
  Users = {u1, u2}
  Tabs = {u2}
  Handlers = {h1, h2}
SYMMETRY Sym
INVARIANTS
  TypeOK
  OneItemPerProduct
PROPERTY
  KeepsCart
