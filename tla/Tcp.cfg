SPECIFICATION TcpSpec
CONSTANTS
  Timeout = 3
  MaxAddresses = 3
  ResolverTime = 5
  Pieces = 2
INVARIANTS
  OneDeadline
PROPERTIES
  RequestEnds
CHECK_DEADLOCK FALSE
