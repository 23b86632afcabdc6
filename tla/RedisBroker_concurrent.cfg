SPECIFICATION Spec
CONSTANTS
  s1 = s1
  s2 = s2
  a = a
  b = b
  NoOffset = NoOffset
  Streams <- OneStream
  Subs = {s1, s2}
  StreamOf <- AllOnA
  Backlog <- Empty
  FirstId <- New
  FirstOffset = NoOffset
  OutCap = 1
  ReadCount = 2
  Trimming = FALSE
  MaxLen = 2
  MaxMs = 1
  MaxPublished = 2
  MaxCrashes = 0
INVARIANTS
  RecordedWasDelivered
  
PROPERTIES
  
  OffsetNeverMovesBack
  
SYMMETRY Symmetry
CHECK_DEADLOCK FALSE
