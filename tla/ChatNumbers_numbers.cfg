SPECIFICATION Spec
CONSTANTS
  i1 = i1
  i2 = i2
  i3 = i3
  c1 = c1
  c2 = c2
  c3 = c3
  None = None
  Conns = {c1, c2, c3}
  Identities = {i1, i2}
  IdentityOf <- TwoOfOne
  ShortPart <- SameShort
  TailPart <- SameNumber
  TailLen = 2
  Required = 2
  Timeout = 4
  MaxAttempts = 4
  MaxTime = 5
INVARIANTS
  TypeOK
  UniqueNumbers
  
  RateLimit
  LimiterInv
PROPERTIES
  NumberConstant
  ImplementsNumbers
