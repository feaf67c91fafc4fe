---------------------------- MODULE MCNssRuntime ----------------------------
\* Instances of NssRuntime for TLC.
EXTENDS NssRuntime, TLC

CONSTANTS r1, r2, r3, o1, o2, c1, c2, b1

TwoConfigs == {c1, c2}
OneBundle == {b1}
ThreeRuntimes == {r1, r2, r3}
TwoObjects == {o1, o2}

\* Handles, objects and configurations are interchangeable.
Symmetry ==
  Permutations(Runtimes) \cup Permutations(Objects) \cup Permutations(Configs)
=============================================================================
