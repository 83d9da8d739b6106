------------------------------ MODULE TCPClient ------------------------------
(***************************************************************************)
(* The life of a TCPClientImpl<TCPMsg> over several Connect() and          *)
(* Disconnect(): m_connection, m_thrContext and the io_context it runs,    *)
(* around the queue and the loop of RunLoop.  Of a connection the module   *)
(* keeps the socket, and the call of OnConnected at the end of the         *)
(* validation; TCPConnection has the rest.                                 *)
(*                                                                         *)
(* RunLoop's m_context is "running" until the first Disconnect() stops it, *)
(* "joined" when no thread is left, and "stopped" while one is there to    *)
(* join, in run() or back from it.                                         *)
(*                                                                         *)
(* The module holds the operations only, as TCPMsgQueue does; who calls    *)
(* them is PyTCPClient's matter.  Bound: at most MaxConnects Connect().    *)
(***************************************************************************)
EXTENDS RunLoop

CONSTANTS Closer,       \* the thread that calls Connect() and Disconnect()
          MaxConnects

ASSUME ClientAssumption ==
    /\ Closer \in Stoppers /\ MaxConnects \in Nat
    /\ ~DetectorStops

VARIABLES m_connection, \* "null", or the state of its socket
          closing,      \* its Disconnect() has posted a close
          hook,         \* the OnConnected the context thread waits for
          nConnects,
          nConnected    \* calls of OnConnected

clientVars == <<m_connection, closing, hook, nConnects, nConnected>>

ClientTypeOK ==
    /\ m_connection \in {"null", "connecting", "open", "closed"}
    /\ closing \in BOOLEAN
    /\ hook \in {"none", "called", "cleared", "set"}
    /\ nConnects \in 0..MaxConnects
    /\ nConnected \in 0..nConnects

ClientInit ==
    /\ m_connection = "null"
    /\ closing = FALSE
    /\ hook = "none"
    /\ nConnects = 0 /\ nConnected = 0

-----------------------------------------------------------------------------
(* The calls of the user.                                                   *)

IsConnected == m_connection \in {"connecting", "open"}

Joinable == nConnects > 0 /\ m_context # "joined"

\* The thread is assigned whatever m_thrContext is: a joinable one ends the
\* process.  Nothing restarts a stopped io_context, whose run() returns.
Connect ==
    /\ pc[Closer] = "out" /\ nConnects < MaxConnects
    /\ nConnects' = nConnects + 1
    /\ IF Joinable THEN Abort /\ UNCHANGED <<m_connection, m_context>>
       ELSE /\ m_connection' = "connecting"
            /\ m_context' = IF m_context = "joined" THEN "stopped" ELSE m_context
            /\ UNCHANGED queueVars
    /\ UNCHANGED <<closing, hook, nConnected, runner, m_bShuttingDown, nLeft,
                   hand, handled, nPushed>>

\* Disconnect() posts the close, and goes on as RunLoop's Stop() does:
\* exit_wait, stop the io_context, join its thread.
DisconnectBegin ==
    /\ StopBegin(Closer)
    /\ closing' = (closing \/ IsConnected)
    /\ UNCHANGED <<m_connection, hook, nConnects, nConnected>>

\* The context thread leaves a handler that called OnConnected when the
\* future of the std::async is destroyed, that is when the hook returns.
ContextFree == pc[Context] = "out" /\ hook = "none"

\* Mutants: the connection is destroyed before the thread is joined; the
\* join does not wait for the hook.
ResetThenJoin ==
    /\ \/ ExitWait(Closer) /\ UNCHANGED clientVars
       \/ /\ StopContext(Closer) /\ m_connection' = "null"
          /\ UNCHANGED <<closing, hook, nConnects, nConnected>>
       \/ hook = "none" /\ JoinContext(Closer) /\ UNCHANGED clientVars

DisconnectDetached ==
    /\ ExitWait(Closer) \/ StopContext(Closer) \/ JoinContext(Closer)
    /\ UNCHANGED clientVars

Disconnect ==
    /\ \/ ExitWait(Closer) \/ StopContext(Closer)
       \/ hook = "none" /\ JoinContext(Closer)
    /\ UNCHANGED clientVars

\* m_connection.reset().  What the io_context still holds never runs.
ResetConnection ==
    /\ m_connection' = "null"
    /\ closing' = FALSE
    /\ UNCHANGED <<hook, nConnects, nConnected>>

-----------------------------------------------------------------------------
(* The handlers of the context thread.                                      *)

HandlerRuns == m_context = "running" /\ ContextFree

\* Mutant: the reading of the notification goes on.
ValidatedAgain ==
    /\ HandlerRuns /\ m_connection = "connecting"
    /\ hook' = "called" /\ nConnected' = nConnected + 1
    /\ UNCHANGED <<m_connection, closing, nConnects, vars>>

\* The validation is over: OnConnected is called, in a thread of its own.
Validated ==
    /\ HandlerRuns /\ m_connection = "connecting"
    /\ m_connection' = "open"
    /\ hook' = "called" /\ nConnected' = nConnected + 1
    /\ UNCHANGED <<closing, nConnects, vars>>

\* The attempt fails, or later a read or a write.
ConnectionFails ==
    /\ HandlerRuns /\ IsConnected
    /\ m_connection' = "closed"
    /\ UNCHANGED <<closing, hook, nConnects, nConnected, vars>>

RunClose ==
    /\ HandlerRuns /\ closing
    /\ m_connection' = "closed" /\ closing' = FALSE
    /\ UNCHANGED <<hook, nConnects, nConnected, vars>>

MessageRead ==
    /\ ContextFree /\ m_connection = "open"
    /\ AddToIncomingMessageQueue
    /\ UNCHANGED clientVars

-----------------------------------------------------------------------------
(* Properties.                                                              *)

\* A handler on the context thread, and the OnConnected it waits for, use
\* the connection by a raw pointer: Disconnect() destroys it only when they
\* are through.
ConnectionOutlivesHandlers ==
    pc[Context] \in PushLocs \/ hook # "none" => m_connection # "null"
=============================================================================
