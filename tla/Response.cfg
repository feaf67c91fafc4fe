SPECIFICATION Spec
CONSTANTS
  MaxLine = 2
  MaxHead = 12
  MaxHeaders = 2
  MaxBody = 2
  MaxTrailerBytes = 6
  MaxTrailers = 1
  MaxInformational = 1
  MaxSegment = 4
  Wires <- AllWires
INVARIANTS
  WithinLimits
  CompletesAtItsEnd
  MissesNoMessage
CHECK_DEADLOCK FALSE
