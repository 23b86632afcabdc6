SPECIFICATION Spec
CONSTANTS
  i1 = i1
  d1 = d1
  d2 = d2
  r1 = r1
  r2 = r2
  None = None
  Identities = {i1}
  Devices = {d1, d2}
  IdentityOf <- AllOfOne
  SignedPreKeys = {p1, p2}
  Requests = {r1, r2}
  Repeats = FALSE
  MaxUpload = 2
  MaxKeys = 2
INVARIANTS
  TypeOK
  
  
  KeysBelongTogether
  HandedOutOnce
PROPERTIES
  ImplementsDirectory
SYMMETRY Symmetry
