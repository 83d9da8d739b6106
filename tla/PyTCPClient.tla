----------------------------- MODULE PyTCPClient -----------------------------
(***************************************************************************)
(* The Python client of py_tcp_client.py on the binding of                 *)
(* pybind_module.cpp: the main thread, which calls connect_and_wait,       *)
(* wait_for_message, run_background and disconnect, the thread of          *)
(* run_background, the context thread and its hooks.  The binding keeps    *)
(* the interpreter lock (GIL) through connect and disconnect, gives it up  *)
(* in update and run, and takes it for every hook; between two steps of    *)
(* Python code the interpreter may switch threads.  So the GIL is out of   *)
(* reach exactly while the main thread is inside disconnect.               *)
(*                                                                         *)
(* The main thread is Main when it consumes and Closer in disconnect:      *)
(* RunLoop keeps the two roles apart.  A timeout may expire at any time.   *)
(* stop() is a disconnect, and a join with a timeout; SIGINT is RunLoop's.  *)
(***************************************************************************)
EXTENDS TCPClient

CONSTANTS Main, Runner, \* the consumers
          Wanted,       \* the messages that wait_for_message's predicate accepts
          NoMsg         \* None

ASSUME PyAssumption ==
    /\ Main # Runner /\ Consumers = {Main, Runner} /\ Stoppers = {Closer}
    /\ Wanted \subseteq Items /\ NoMsg \notin Items
    /\ SizeMax \in Budgets

VARIABLES at,           \* where the main thread is in its Python code
          connected_event, disconnected_event, message_event,
          last_msg,
          nBefore,      \* messages handled before wait_for_message was called
          returned      \* what it returned last

eventVars == <<connected_event, disconnected_event>>
messageVars == <<message_event, last_msg, nBefore, returned>>
pyVars == <<at, eventVars, messageVars>>
allVars == <<vars, clientVars, pyVars>>

ConnectLocs == {"waiting", "timed_out"}
DisconnectLocs == {"disconnect", "on_disconnected"}
WaitForLocs == {"poll", "update", "no_match", "match", "pump"}

PyTypeOK ==
    /\ TypeOK /\ ClientTypeOK
    /\ at \in {"idle"} \cup ConnectLocs \cup DisconnectLocs \cup WaitForLocs
    /\ connected_event \in BOOLEAN
    /\ disconnected_event \in BOOLEAN
    /\ message_event \in BOOLEAN
    /\ {last_msg, returned} \subseteq Items \cup {NoMsg}
    /\ nBefore \in Nat

PyInit ==
    /\ Init /\ ClientInit
    /\ at = "idle"
    /\ connected_event = FALSE /\ disconnected_event = FALSE
    /\ message_event = FALSE
    /\ last_msg = NoMsg /\ returned = NoMsg
    /\ nBefore = 0

\* Mutant: run() is called without gil_scoped_release.
GilHeldInRun == at # "disconnect" /\ runner = NoThread

GilFree == at # "disconnect"

\* The main thread goes on, in Python code.
MainAt(from, to) ==
    /\ at = from /\ at' = to
    /\ pc[Main] = "out" /\ pc[Closer] = "out"

-----------------------------------------------------------------------------
(* connect_and_wait and disconnect.                                         *)

\* The connect that throws inside returns False and changes nothing.
ConnectAndWait ==
    /\ MainAt("idle", "waiting")
    /\ Connect
    /\ UNCHANGED <<eventVars, messageVars>>

\* connected_event.wait(timeout) returns: True, or False and disconnect.
WaitConnected ==
    /\ \/ connected_event /\ MainAt("waiting", "idle")
       \/ ~connected_event /\ MainAt("waiting", "timed_out")
    /\ UNCHANGED <<vars, clientVars, eventVars, messageVars>>

PyDisconnect ==
    /\ GilFree
    /\ MainAt("idle", "disconnect") \/ MainAt("timed_out", "disconnect")
    /\ DisconnectBegin
    /\ UNCHANGED <<eventVars, messageVars>>

InDisconnect ==
    /\ at = "disconnect"
    /\ Disconnect
    /\ UNCHANGED pyVars

\* m_connection.reset() and the first half of OnDisconnected; the GIL, which
\* main has, may change hands from here on.
OnDisconnectedBegin ==
    /\ MainAt("disconnect", "on_disconnected")
    /\ ResetConnection
    /\ connected_event' = FALSE
    /\ UNCHANGED <<vars, disconnected_event, messageVars>>

OnDisconnectedEnd ==
    /\ MainAt("on_disconnected", "idle")
    /\ disconnected_event' = TRUE
    /\ UNCHANGED <<vars, clientVars, connected_event, messageVars>>

-----------------------------------------------------------------------------
(* OnConnected, in the thread of the std::async, and OnMessage.             *)

HookTo(from, to) ==
    /\ hook = from /\ hook' = to
    /\ GilFree /\ pc[Context] = "out"
    /\ UNCHANGED <<vars, m_connection, closing, nConnects, nConnected, at, messageVars>>

OnConnected ==
    \/ /\ HookTo("called", "cleared")
       /\ disconnected_event' = FALSE /\ UNCHANGED connected_event
    \/ /\ HookTo("cleared", "set")
       /\ connected_event' = TRUE /\ UNCHANGED disconnected_event
    \/ HookTo("set", "none") /\ UNCHANGED eventVars

PyOnMessage(c) ==
    /\ GilFree
    /\ OnMessage(c)
    /\ last_msg' = hand[c][1] /\ message_event' = TRUE
    /\ UNCHANGED <<clientVars, at, eventVars, nBefore, returned>>

-----------------------------------------------------------------------------
(* wait_for_message: update(False), look at the event and at last_msg, until*)
(* a message matches or the time is over.                                   *)

\* Mutant: the event is not cleared first.
WaitUncleared ==
    /\ MainAt("idle", "poll")
    /\ nBefore' = Len(handled) /\ returned' = NoMsg
    /\ UNCHANGED <<vars, clientVars, eventVars, message_event, last_msg>>

WaitForMessage ==
    /\ MainAt("idle", "poll")
    /\ message_event' = FALSE
    /\ nBefore' = Len(handled) /\ returned' = NoMsg
    /\ UNCHANGED <<vars, clientVars, eventVars, last_msg>>

Poll ==
    /\ MainAt("poll", "update")
    /\ Goto(Main, "out", "drain")
    /\ nLeft' = [nLeft EXCEPT ![Main] = SizeMax]
    /\ UNCHANGED <<queueData, m_context, runner, m_bShuttingDown, hand, handled,
                   nPushed, clientVars, eventVars, messageVars>>

Look ==
    /\ \/ ~message_event /\ MainAt("update", "poll")
       \/ message_event /\ last_msg \in Wanted /\ MainAt("update", "match")
       \/ message_event /\ last_msg \notin Wanted /\ MainAt("update", "no_match")
    /\ UNCHANGED <<vars, clientVars, eventVars, messageVars>>

NotMatched ==
    /\ MainAt("no_match", "poll")
    /\ message_event' = FALSE
    /\ UNCHANGED <<vars, clientVars, eventVars, last_msg, nBefore, returned>>

\* last_msg is read again for the result.
ReturnMessage ==
    /\ MainAt("match", "idle")
    /\ returned' = last_msg
    /\ UNCHANGED <<vars, clientVars, eventVars, message_event, last_msg, nBefore>>

GiveUp ==
    /\ MainAt("poll", "idle")
    /\ UNCHANGED <<vars, clientVars, eventVars, messageVars>>

\* One turn of pump_until(wait): its deadline is looked at between turns.
Pump ==
    /\ \/ MainAt("idle", "pump") /\ \E wait \in BOOLEAN :
              /\ Goto(Main, "out", IF wait THEN "update_wait" ELSE "drain")
              /\ nLeft' = [nLeft EXCEPT ![Main] = SizeMax]
       \/ MainAt("pump", "idle") /\ UNCHANGED <<pc, nLeft>>
    /\ UNCHANGED <<queueData, m_context, runner, m_bShuttingDown, hand, handled,
                   nPushed, clientVars, eventVars, messageVars>>

-----------------------------------------------------------------------------
RunBackground ==
    /\ at = "idle" /\ pc[Closer] = "out"
    /\ RunBegin(Runner)
    /\ UNCHANGED <<clientVars, pyVars>>

\* The steps of update() and run() that call no hook.
PyUpdate(c) ==
    /\ Wait(c) \/ Drain(c) \/ TakeMessage(c) \/ PopFrontEmpty(c) \/ RunCheck(c)
    /\ UNCHANGED <<clientVars, pyVars>>

Handlers ==
    /\ Validated \/ ConnectionFails \/ RunClose \/ MessageRead
    /\ UNCHANGED pyVars

PyWake(c) == Wake(c) /\ UNCHANGED <<clientVars, pyVars>>

\* The calls the main thread has begun; the context thread; the others.
MainStep ==
    \/ WaitConnected \/ (at = "timed_out" /\ PyDisconnect)
    \/ InDisconnect \/ OnDisconnectedBegin \/ OnDisconnectedEnd
    \/ Poll \/ Look \/ NotMatched \/ ReturnMessage \/ GiveUp

ContextStep ==
    \/ FinishPush /\ UNCHANGED <<clientVars, pyVars>>
    \/ OnConnected

PyNext ==
    \/ MainStep \/ ContextStep \/ Handlers
    \/ ConnectAndWait \/ PyDisconnect \/ WaitForMessage \/ Pump \/ RunBackground
    \/ \E c \in Consumers : PyUpdate(c) \/ PyOnMessage(c) \/ PyWake(c)

PySpec == PyInit /\ [][PyNext]_allVars

\* Threads are scheduled, timers expire, and a lock or the GIL that is free
\* again and again is granted.
PyFairSpec ==
    /\ PySpec
    /\ SF_allVars(MainStep) /\ SF_allVars(ContextStep)
    /\ \A c \in Consumers : SF_allVars(PyUpdate(c) \/ PyOnMessage(c))

-----------------------------------------------------------------------------
(* Properties.                                                              *)

\* The events say what the hooks said last, although the hooks run in two
\* threads: never both, and after disconnect the client does not count as
\* connected, whatever OnConnected was under way.
EventsAgree ==
    /\ ~(connected_event /\ disconnected_event)
    /\ at = "idle" /\ m_connection = "null" => ~connected_event

\* wait_for_message returns a message that was handled after it was called,
\* although message_event may be set from before, and run() in the background
\* may handle others at any point.  Which one of them is not promised: update
\* may handle several, and last_msg is read again for the result.
ReturnsNewMessage ==
    returned # NoMsg =>
        \E i \in nBefore + 1 .. Len(handled) : handled[i] = returned

\* disconnect has the GIL and waits for the context thread, which waits for
\* an OnConnected that waits for the GIL.
GilCycle == at = "disconnect" /\ hook # "none"

\* "timeout: float = 5.0": connect_and_wait returns.
ConnectAndWaitReturns == at = "waiting" ~> at = "idle" \/ Aborted

\* Calls of disconnect return, in connect_and_wait too, unless the GIL or
\* the two locks of the queue are ever taken crosswise.
DisconnectReturns ==
    [](~GilCycle /\ ~LockCycle) =>
        (at \in ConnectLocs \cup DisconnectLocs ~> at = "idle" \/ Aborted)
=============================================================================
