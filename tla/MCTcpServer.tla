----------------------------- MODULE MCTcpServer -----------------------------
(* Instances of TcpServer for TLC.                                          *)
EXTENDS TcpServer

CONSTANTS k1, k2, k3, d1, d2

=============================================================================
