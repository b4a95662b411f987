SPECIFICATION FairSpec
CONSTANTS
  None = None
  Users = {u1, u2}
  Ratings = {1}
  Handlers = {h1, h2}
  Pool = 2
INVARIANTS
  TypeOK
  OnlyPublishedCount
PROPERTY
  RequestEnds
