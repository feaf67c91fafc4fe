SPECIFICATION Spec
CONSTANTS
  p1 = p1
  p2 = p2
  NoProcess = NoProcess
  Processes <- TwoProcesses
  MaxRequests = 3
  MaxInterrupts = 2
  PipeRooms = {0, 1}
INVARIANTS
  AnswerIsOwn
  OneWorker
  CloseReaps
  EveryAnswerHasAReader
PROPERTIES
  CallsReturn
  OrphansExit
CHECK_DEADLOCK FALSE
