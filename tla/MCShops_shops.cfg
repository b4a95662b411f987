CONSTANTS
  u1 = u1
  u2 = u2
  n1 = n1
  n2 = n2
  n3 = n3
  h1 = h1
  h2 = h2
  None = None
  Users <- MCUsers
  Names <- MCNames
  Handlers <- MCHandlers
  SlugOf <- MCSlugOf
  Role <- MCRole
  MaxAccounts = 2
SPECIFICATION Spec
SYMMETRY Alike
INVARIANTS
  TypeOK
  SubaccountsAccounted
  
PROPERTY AddressIsForLife
