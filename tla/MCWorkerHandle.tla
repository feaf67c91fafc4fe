--------------------------- MODULE MCWorkerHandle ---------------------------
\* Instances of WorkerHandle for TLC.
EXTENDS WorkerHandle

CONSTANTS c1, c2, c3

ThreeCallers == {c1, c2, c3}
=============================================================================
