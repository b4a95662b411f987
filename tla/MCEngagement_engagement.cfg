SPECIFICATION Spec
CONSTANTS
  None = None
  Users = {u1, u2}
  Tenants = {t1}
  Handlers = {h1, h2}
  MaxPosts = 1
  MaxRows = 3
SYMMETRY Symmetry
INVARIANTS
  TypeOK
  CountersAccounted
PROPERTY
  RemovesWhatItRead
