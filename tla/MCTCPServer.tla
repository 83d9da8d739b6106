----------------------------- MODULE MCTCPServer -----------------------------
(* Small instances of TCPServer.                                           *)
EXTENDS TCPServer
=============================================================================
