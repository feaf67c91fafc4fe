SPECIFICATION Spec
CONSTANTS
  o1 = o1
  o2 = o2
  s1 = s1
  s2 = s2
  s3 = s3
  NoStream = NoStream
  Origins <- TwoOrigins
  Streams <- ThreeStreams
  MaxRequests = 3
  MaxWire = 3
  SurplusRequests = 2
SYMMETRY Symmetry
INVARIANTS
  StreamsAccountedFor
  OwnWholeAnswer
  NothingLostInPool
  SentOnce
CHECK_DEADLOCK FALSE
