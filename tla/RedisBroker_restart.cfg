SPECIFICATION Spec
CONSTANTS
  s1 = s1
  s2 = s2
  a = a
  b = b
  NoOffset = NoOffset
  Streams <- OneStream
  Subs = {s1}
  StreamOf <- AllOnA
  Backlog <- OnlyTenth
  FirstId <- Tenth
  FirstOffset = NoOffset
  OutCap = 1
  ReadCount = 2
  Trimming = TRUE
  MaxLen = 2
  MaxMs = 1
  MaxPublished = 3
  MaxCrashes = 1
INVARIANTS
  TypeOK
  Inv
  AtLeastOnce
CHECK_DEADLOCK FALSE
