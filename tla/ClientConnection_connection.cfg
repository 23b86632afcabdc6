SPECIFICATION Spec
CONSTANTS
  Conns = {c1}
  Subs = {c1}
  Publishers = {c1, other}
  Other = other
  Free = Free
  None = None
  ChCap = 1
  MaxMessages = 2
  InCap = 2
  MaxRequests = 1
  MaxWarnings = 1
INVARIANTS
  TypeOK
  AckedWasReceived

  
  
CHECK_DEADLOCK FALSE
