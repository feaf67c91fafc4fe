SPECIFICATION Spec
CONSTANTS
  p1 = p1
  p2 = p2
  Processes <- TwoProcesses
  k1 = k1
  k2 = k2
  Keys <- TwoKeys
  a1 = a1
  a2 = a2
  an = an
  b1 = b1
  Paths <- SomePaths
  Canonical <- SomeCanonical
  Directory <- SomeDirectory
  Files = {"f1", "f2"}
  MaxRuns = 4
  MaxInterrupts = 1
  MaxKills = 1
  FileNames <- SomeNames
  SafeNames <- SomeSafeNames
  Casefold <- SomeCasefold
  CodePoint <- SomeCodePoint
  Documents <- SomeDocuments
  Archives <- SomeArchives
  SourceLocks <- SomeSourceLocks
  ProfileLocks <- SomeProfileLocks
  MaxArchiveMembers = 2
  MaxArchiveBytes = 3
SYMMETRY Symmetry
INVARIANTS
  PreparedStaysLocked
  FailureLeavesNothing
  ReleasedIsEmbedded
  LocksAgree
  InputsAreSafe
PROPERTIES
  CacheOnlyImproves
CHECK_DEADLOCK FALSE
