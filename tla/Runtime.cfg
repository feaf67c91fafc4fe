SPECIFICATION Spec
CONSTANTS
  r1 = r1
  r2 = r2
  r3 = r3
  o1 = o1
  o2 = o2
  c1 = c1
  c2 = c2
  b1 = b1
  NoRuntime = NoRuntime
  NoConfig = NoConfig
  NoBundle = NoBundle
  Runtimes <- ThreeRuntimes
  Objects <- TwoObjects
  Configs <- TwoConfigs
  Bundles <- OneBundle
  MaxReferences = 2
SYMMETRY Symmetry
INVARIANTS
  TrustIsOwn
  ObjectsKeepRuntime
CHECK_DEADLOCK FALSE
