SPECIFICATION Spec
CONSTANTS
  Conns = {c1}
  Subs = {c1, s1}
  Publishers = {c1, other}
  Other = other
  Free = Free
  None = None
  ChCap = 1
  MaxMessages = 1
  InCap = 1
  MaxRequests = 2
  MaxWarnings = 0
INVARIANTS
  KeptIsPending

  
CHECK_DEADLOCK FALSE
