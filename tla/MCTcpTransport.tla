---------------------------- MODULE MCTcpTransport ----------------------------
\* Instances of TcpTransport for TLC.
EXTENDS TcpTransport
=============================================================================
