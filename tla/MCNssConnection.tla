--------------------------- MODULE MCNssConnection ---------------------------
\* Instances of NssConnection for TLC.
EXTENDS NssConnection
=============================================================================
