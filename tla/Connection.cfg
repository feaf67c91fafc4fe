SPECIFICATION ConnectionSpec
CONSTANTS
  Timeout = 3
  MaxAddresses = 2
  ResolverTime = 2
INVARIANTS
  ReleasedOnce
  ConnectIsBounded
  ExchangeInTime
PROPERTIES
  ConnectionEnds
CHECK_DEADLOCK FALSE
