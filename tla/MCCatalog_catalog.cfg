CONSTANTS
  t1 = t1
  c1 = c1
  c2 = c2
  p1 = p1
  w1 = w1
  w2 = w2
  NoFilter = NoFilter
  Shapes <- MCShapes
  TableOf <- MCTableOf
  KeysOf <- MCKeysOf
  Listings <- MCListings
  Take = 2
  MaxRows = 3
  MaxWrites = 2
SPECIFICATION CatalogSpec
INVARIANTS
  CatalogTypeOK
  PagesAccounted
