SPECIFICATION Spec
CONSTANTS
  o1 = o1
  o2 = o2
  s1 = s1
  s2 = s2
  s3 = s3
  NoStream = NoStream
  Origins <- OneOrigin
  Streams <- TwoStreams
  MaxRequests = 2
  MaxWire = 2
  SurplusRequests = 0
INVARIANTS
  StaleIsReconnected
CHECK_DEADLOCK FALSE
