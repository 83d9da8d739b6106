----------------------------- MODULE MCRunLoop -----------------------------
(***************************************************************************)
(* Small instances of RunLoop: one context thread, one thread watching the *)
(* flag, and the consumers and stoppers the .cfg names.                    *)
(***************************************************************************)
EXTENDS RunLoop

CONSTANTS ctx, det

AllThreads == {ctx, det} \cup Consumers \cup Stoppers
=============================================================================
