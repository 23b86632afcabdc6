SPECIFICATION Spec
CONSTANTS
  h1 = h1
  h2 = h2
  m1 = m1
  m2 = m2
  None = None
  Hosts = {h1, h2}
  Messages = {m1}
  MinRetry = 1
  Timeout = 1
  MaxTime = 3
  MaxMoves = 1
  MaxFaults = 2
INVARIANTS
  TypeOK
  PassedOnBeforeAcked
  
PROPERTIES
  MessagesSettle
CHECK_DEADLOCK FALSE
