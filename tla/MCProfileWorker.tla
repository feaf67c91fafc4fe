--------------------------- MODULE MCProfileWorker ---------------------------
\* Instances of ProfileWorker for TLC.
EXTENDS ProfileWorker

CONSTANTS p1, p2

TwoProcesses == {p1, p2}
=============================================================================
