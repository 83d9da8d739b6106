---------------------------- MODULE MCPyTCPClient ----------------------------
(* Small instances of PyTCPClient, with the thread names of MCRunLoop.     *)
EXTENDS PyTCPClient

CONSTANTS ctx, det

AllThreads == {ctx, det} \cup Consumers \cup Stoppers
=============================================================================
