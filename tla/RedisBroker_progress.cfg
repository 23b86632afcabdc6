SPECIFICATION FairSpec
CONSTANTS
  s1 = s1
  s2 = s2
  a = a
  b = b
  NoOffset = NoOffset
  Streams <- OneStream
  Subs = {s1}
  StreamOf <- AllOnA
  Backlog <- Empty
  FirstId <- New
  FirstOffset = NoOffset
  OutCap = 1
  ReadCount = 2
  Trimming = FALSE
  MaxLen = 2
  MaxMs = 1
  MaxPublished = 3
  MaxCrashes = 1
PROPERTIES
  DeliveryProgress
CHECK_DEADLOCK FALSE
