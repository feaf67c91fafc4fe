SPECIFICATION Spec
CONSTANTS
  c1 = c1
  c2 = c2
  c3 = c3
  NoCaller = NoCaller
  Callers <- ThreeCallers
INVARIANTS
  CloseMeansStopped
PROPERTIES
  CallsReturn
  ImplementsSerialBackend
CHECK_DEADLOCK FALSE
