SPECIFICATION Spec
CONSTANTS
  t1 = t1
  t2 = t2
  n1 = n1
  n2 = n2
  n3 = n3
  n4 = n4
  None = None
  Platform = "linux"
  MaxHeaders = 3
  Threads <- TwoThreads
  MainThread = t1
  Natives <- FourNatives
  MaxCalls = 2
  MaxInterrupts = 1
  MaxChanges = 1
  Arguments <- AnyThenFew
  PemFiles <- SomeFiles
  Bundles <- SomeBundles
  Replacements <- OtherBundle
SYMMETRY NativeSymmetry
INVARIANTS
  InsecureByChoice
  VerifiedAsAgreed
  OnlyRacesLeak
  OneMessage
  PolicyIsBundle
CHECK_DEADLOCK FALSE
