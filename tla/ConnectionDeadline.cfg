SPECIFICATION ConnectionSpec
CONSTANTS
  Timeout = 3
  MaxAddresses = 2
  ResolverTime = 0
INVARIANTS
  DeadlineCoversConnect
CHECK_DEADLOCK FALSE
