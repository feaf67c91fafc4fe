SPECIFICATION CaptureSpec
CONSTANTS
  Count = 2
  Attempts = 2
  MaxBacklog = 2
  Baselines <- SomeBaselines
  Candidates <- SomeCandidates
INVARIANTS
  ManifestIsComplete
  RecordsAreTrue
  NothingLeftRunning
  VerdictIsSound
PROPERTIES
  CaptureEnds
CHECK_DEADLOCK FALSE
