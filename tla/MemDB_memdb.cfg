SPECIFICATION Spec
CONSTANTS
  i1 = i1
  i2 = i2
  d1 = d1
  d2 = d2
  p1 = p1
  p2 = p2
  None = None
  Identities = {i1, i2}
  DeviceIds = {d1, d2}
  SignedPreKeys = {p1, p2}
  ShortPart <- SameShort
  TailPart <- SameTail
  TailLen = 2
  MaxUpload = 2
  MaxKeys = 3
INVARIANTS
  TypeOK
  UnknownHasNoDevice
  HandedOutOnce
  
PROPERTIES
  ImplementsDirectory
  ImplementsNumbers
SYMMETRY Symmetry
