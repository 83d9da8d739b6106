-------------------------- MODULE PyTCPClientProofs --------------------------
(***************************************************************************)
(* Theorems about PyTCPClient, for any messages and bounds.  Its steps are *)
(* steps of RunLoop, but for Connect, so that the lemmas of RunLoopProofs  *)
(* carry over.                                                             *)
(***************************************************************************)
EXTENDS PyTCPClient, RunLoopProofs

\* A disconnect is over only when the context thread is joined, and with it
\* the hook it waits for; until then the connection stays.
LifeInv ==
    /\ pc[Closer] \in ExitLocs \cup StopLocs => at = "disconnect"
    /\ at = "disconnect" /\ pc[Closer] = "out" => m_context = "joined"
    /\ m_context = "joined" => pc[Context] \notin PushLocs /\ hook = "none"
    /\ at = "on_disconnected" => m_context = "joined" /\ m_connection = "null"
    /\ m_connection = "null" =>
          hook = "none" /\ pc[Context] \notin PushLocs /\ ~connected_event
    /\ m_connection # "null" => nConnects > 0
    /\ closing => m_connection # "null"
    /\ m_context = "running" /\ m_connection = "connecting" => nConnected = 0
    /\ hook \in {"cleared", "set"} => ~disconnected_event
    /\ ~(connected_event /\ disconnected_event)

Waiting == {"poll", "update", "no_match", "match"}

\* From the call of wait_for_message on: message_event stands for a message
\* handled since, and last_msg is then such a one.
MatchInv ==
    /\ ReturnsNewMessage
    /\ at \in Waiting =>
          /\ nBefore <= Len(handled)
          /\ message_event \/ at = "match" =>
                \E i \in nBefore + 1 .. Len(handled) : handled[i] = last_msg

PyInv == WakeInv /\ PyTypeOK /\ LifeInv /\ HandHeld /\ MatchInv

-----------------------------------------------------------------------------
LEMMA PyRoles ==
    /\ Main \in Consumers /\ Runner \in Consumers /\ Closer \in Stoppers
    /\ Main # Runner
    /\ \A c \in Consumers : c # Context /\ c # Closer /\ c # Detector
    /\ Closer # Context /\ Closer # Detector /\ Context # Detector
    /\ Consumers \subseteq Threads /\ {Context, Closer, Detector} \subseteq Threads
    /\ NoThread \notin Consumers
BY PyAssumption, ClientAssumption, RolesInThreads

\* The Python code and the client's handlers leave the queue and the loop
\* alone, or take a step of theirs.
LEMMA LoopStep ==
    ASSUME [PyNext]_allVars
    PROVE  [Next]_vars \/ ConnectAndWait
<1> USE PyRoles
<1>1. CASE MainStep
  <2>1. CASE WaitConnected \/ OnDisconnectedBegin \/ OnDisconnectedEnd \/ Look
             \/ NotMatched \/ ReturnMessage \/ GiveUp
    BY <2>1 DEF WaitConnected, OnDisconnectedBegin, OnDisconnectedEnd, Look,
                NotMatched, ReturnMessage, GiveUp
  <2>2. CASE PyDisconnect
    BY <2>2 DEF PyDisconnect, DisconnectBegin, Next, Environment
  <2>3. CASE InDisconnect
    <3>1. Step(Closer)
      BY <2>3 DEF InDisconnect, Disconnect, Step
    <3> QED BY <3>1 DEF Next
  <2>4. CASE Poll
    <3>1. UpdateBegin(Main)
      BY <2>4, PyAssumption DEF Poll, UpdateBegin
    <3> QED BY <3>1 DEF Next, Environment
  <2> QED BY <1>1, <2>1, <2>2, <2>3, <2>4 DEF MainStep
<1>2. CASE ContextStep
  <2>1. CASE FinishPush
    <3>1. Step(Context)
      BY <2>1 DEF Step
    <3> QED BY <3>1 DEF Next
  <2>2. CASE OnConnected
    BY <2>2 DEF OnConnected, HookTo
  <2> QED BY <1>2, <2>1, <2>2 DEF ContextStep
<1>3. CASE Handlers
  <2>1. CASE Validated \/ ConnectionFails \/ RunClose
    BY <2>1 DEF Validated, ConnectionFails, RunClose
  <2>2. CASE MessageRead
    BY <2>2 DEF MessageRead, Next, Environment
  <2> QED BY <1>3, <2>1, <2>2 DEF Handlers
<1>4. CASE PyDisconnect
  BY <1>4 DEF PyDisconnect, DisconnectBegin, Next, Environment
<1>5. CASE WaitForMessage
  BY <1>5 DEF WaitForMessage
<1>6. CASE Pump
  <2>1. CASE UNCHANGED <<pc, nLeft>>
    BY <1>6, <2>1 DEF Pump, vars, queueVars, queueData
  <2>2. ASSUME NEW wait \in BOOLEAN,
               Goto(Main, "out", IF wait THEN "update_wait" ELSE "drain"),
               nLeft' = [nLeft EXCEPT ![Main] = SizeMax]
        PROVE  UpdateBegin(Main)
    BY <1>6, <2>2, PyAssumption DEF Pump, UpdateBegin
  <2> QED BY <1>6, <2>1, <2>2 DEF Pump, Next, Environment
<1>7. CASE RunBackground
  BY <1>7 DEF RunBackground, Next, Environment
<1>8. ASSUME NEW c \in Consumers, PyUpdate(c) \/ PyOnMessage(c) \/ PyWake(c)
      PROVE  [Next]_vars
  <2>1. CASE PyWake(c)
    BY <2>1 DEF PyWake, Next, Environment
  <2>2. CASE PyUpdate(c) \/ PyOnMessage(c)
    <3>1. Step(c)
      BY <2>2 DEF PyUpdate, PyOnMessage, Step, Update
    <3> QED BY <3>1 DEF Next
  <2> QED BY <1>8, <2>1, <2>2
<1>9. CASE UNCHANGED allVars
  BY <1>9 DEF allVars
<1> QED BY <1>1, <1>2, <1>3, <1>4, <1>5, <1>6, <1>7, <1>8, <1>9 DEF PyNext

\* A second Connect changes m_context, or ends the process.
LEMMA WakeKept ==
    ASSUME WakeInv, [PyNext]_allVars
    PROVE  WakeInv'
<1>1. CASE [Next]_vars
  BY <1>1, TypeStep, ControlStep, WakeStep DEF WakeInv
<1>2. CASE ConnectAndWait
  <2>1. /\ Abort \/ UNCHANGED queueVars
        /\ m_context' \in {"running", "stopped", "joined"}
        /\ UNCHANGED <<runner, m_bShuttingDown, nLeft, hand, handled, nPushed>>
    BY <1>2 DEF ConnectAndWait, Connect, WakeInv, TypeOK
  <2>2. CASE Abort
    <3>1. pc' = [t \in Threads |-> "aborted"] /\ UNCHANGED queueData
      BY <2>2 DEF Abort
    <3>2. TypeOK'
      BY <2>1, <3>1 DEF WakeInv, TypeOK, queueData, Locations
    <3>3. Budgeted'
      BY <2>1, <3>1, RolesInThreads DEF Budgeted, WaitLocs, SleepLocs
    <3>4. Control' /\ EnoughAwake'
      BY <3>1, ControlAborted, AbortedAwake
    <3> QED BY <3>2, <3>3, <3>4 DEF WakeInv
  <2>3. CASE UNCHANGED queueVars
    BY <2>1, <2>3
       DEF WakeInv, TypeOK, Budgeted, Control, Roles, Owners, NotifySeesSleepers,
           EnoughAwake, Committed, Attending, Pushing, queueVars
  <2> QED BY <2>1, <2>2, <2>3
<1> QED BY <1>1, <1>2, LoopStep

-----------------------------------------------------------------------------
\* What the consumers do is not seen by the others, unless the process ends.
LEMMA ConsumersApart ==
    ASSUME TypeOK, NEW c \in Consumers, PyUpdate(c) \/ PyOnMessage(c) \/ PyWake(c)
    PROVE  /\ UNCHANGED <<m_context, clientVars, at, eventVars, nBefore, returned, runner>>
           /\ \/ pc' = [t \in Threads |-> "aborted"]
              \/ \A t \in Threads \ {c} : pc'[t] = pc[t]
<1> USE PyRoles DEF loopVars, pyVars, messageVars
<1>1. CASE PyWake(c)
  BY <1>1 DEF PyWake, Wake, SpuriousWake, Goto, TypeOK
<1>2. CASE PyOnMessage(c)
  BY <1>2 DEF PyOnMessage, OnMessage, Goto, TypeOK
<1>3. CASE PyUpdate(c)
  <2>1. CASE Wait(c)
    BY <1>3, <2>1 DEF PyUpdate, Wait, WaitLock, WaitEmpty, WaitExiting, WaitBlock,
                      WaitReturn, Goto, TypeOK
  <2>2. CASE Drain(c)
    BY <1>3, <2>2 DEF PyUpdate, Drain, Goto, TypeOK
  <2>3. CASE TakeMessage(c)
    BY <1>3, <2>3 DEF PyUpdate, TakeMessage, PopFront, Goto, TypeOK
  <2>4. CASE PopFrontEmpty(c)
    BY <1>3, <2>4 DEF PyUpdate, PopFrontEmpty, Abort
  <2>5. CASE RunCheck(c)
    BY <1>3, <2>5 DEF PyUpdate, RunCheck, Goto, TypeOK
  <2> QED BY <1>3, <2>1, <2>2, <2>3, <2>4, <2>5 DEF PyUpdate
<1> QED BY <1>1, <1>2, <1>3

LEMMA LifeInit == PyInit => LifeInv
BY PyRoles, RolesInThreads
   DEF PyInit, Init, ClientInit, LifeInv, ExitLocs, StopLocs, PushLocs

\* Steps that leave what LifeInv speaks of, or end the process.
LEMMA LifeApart ==
    ASSUME LifeInv, UNCHANGED <<m_context, clientVars, at, eventVars>>,
           \/ pc' = [t \in Threads |-> "aborted"]
           \/ pc'[Context] = pc[Context] /\ pc'[Closer] = pc[Closer]
    PROVE  LifeInv'
BY PyRoles DEF LifeInv, clientVars, eventVars, ExitLocs, StopLocs, PushLocs

LEMMA LifeStep ==
    ASSUME WakeInv, PyTypeOK, LifeInv, [PyNext]_allVars
    PROVE  LifeInv'
<1> USE PyRoles DEF ExitLocs, StopLocs, PushLocs, clientVars, pyVars, eventVars, messageVars
<1> TypeOK BY DEF PyTypeOK
<1>1. CASE ConnectAndWait
  <2>1. CASE Joinable
    <3>1. /\ pc'[Context] = "aborted" /\ pc'[Closer] = "aborted" /\ at' = "waiting"
          /\ nConnects' = nConnects + 1 /\ nConnects \in Nat
          /\ UNCHANGED <<m_context, m_connection, closing, hook, nConnected, eventVars>>
      BY <1>1, <2>1 DEF ConnectAndWait, Connect, Abort, MainAt, PyTypeOK, ClientTypeOK
    <3> QED BY <3>1 DEF LifeInv
  <2>2. CASE ~Joinable
    <3>1. nConnects = 0 => nConnected = 0
      BY DEF PyTypeOK, ClientTypeOK
    <3>2. /\ at = "idle" /\ at' = "waiting" /\ pc' = pc
          /\ m_connection' = "connecting" /\ nConnects' = nConnects + 1
          /\ m_context' = IF m_context = "joined" THEN "stopped" ELSE m_context
          /\ UNCHANGED <<closing, hook, nConnected, eventVars>>
      BY <1>1, <2>2 DEF ConnectAndWait, Connect, MainAt, queueVars
    <3>3. nConnects = 0 \/ m_context = "joined"
      BY <2>2 DEF Joinable, PyTypeOK, ClientTypeOK
    <3>4. nConnects \in Nat
      BY DEF PyTypeOK, ClientTypeOK
    <3>5. m_context' = "running" => nConnected = 0
      BY <3>1, <3>2, <3>3
    <3> QED BY <3>2, <3>4, <3>5 DEF LifeInv
  <2> QED BY <2>1, <2>2
<1>2. CASE WaitConnected \/ Look \/ NotMatched \/ ReturnMessage \/ GiveUp \/ WaitForMessage
  BY <1>2 DEF WaitConnected, Look, NotMatched, ReturnMessage, GiveUp, WaitForMessage,
              MainAt, LifeInv, vars, queueVars
<1>3. CASE PyDisconnect
  <2>1. /\ at' = "disconnect" /\ pc'[Closer] = "exit_lock" /\ pc'[Context] = pc[Context]
        /\ UNCHANGED <<m_context, m_connection, hook, nConnects, nConnected, eventVars>>
    BY <1>3 DEF PyDisconnect, DisconnectBegin, StopBegin, Goto, MainAt, TypeOK, loopVars
  <2>2. closing' => closing \/ m_connection # "null"
    BY <1>3 DEF PyDisconnect, DisconnectBegin, IsConnected
  <2> QED BY <2>1, <2>2 DEF LifeInv
<1>4. CASE InDisconnect
  <2>1. at = "disconnect" /\ UNCHANGED <<clientVars, pyVars>>
    BY <1>4 DEF InDisconnect, Disconnect
  <2>2. CASE ExitWait(Closer)
    <3>1. UNCHANGED m_context
      BY <2>2 DEF ExitWait, loopVars
    <3>2. CASE ExitLock(Closer) \/ ExitSet(Closer)
      BY <2>1, <3>1, <3>2 DEF ExitLock, ExitSet, Goto, LifeInv, TypeOK
    <3>3. CASE ExitNotify(Closer, AfterExitWait(Closer))
      <4>1. /\ pc[Closer] = "exit_notify" /\ pc'[Closer] = "stop_context"
            /\ pc'[Context] = pc[Context] \/ (pc[Context] = "blocked" /\ pc'[Context] = "woken")
        BY <3>3, NotifyMoves DEF ExitNotify, AfterExitWait
      <4> QED BY <2>1, <3>1, <4>1 DEF LifeInv
    <3> QED BY <2>2, <3>2, <3>3 DEF ExitWait
  <2>3. CASE StopContext(Closer)
    BY <2>1, <2>3 DEF StopContext, Abort, Goto, LifeInv, TypeOK
  <2>4. CASE hook = "none" /\ JoinContext(Closer)
    BY <2>1, <2>4 DEF JoinContext, Goto, LifeInv, TypeOK
  <2> QED BY <1>4, <2>2, <2>3, <2>4 DEF InDisconnect, Disconnect
<1>5. CASE OnDisconnectedBegin
  BY <1>5 DEF OnDisconnectedBegin, ResetConnection, MainAt, LifeInv, vars, queueVars
<1>6. CASE OnDisconnectedEnd
  BY <1>6 DEF OnDisconnectedEnd, MainAt, LifeInv, vars, queueVars
<1>7. CASE Poll \/ Pump
  <2>1. /\ pc'[Context] = pc[Context] /\ pc'[Closer] = pc[Closer]
        /\ pc[Closer] = "out" /\ at \notin {"disconnect", "on_disconnected"}
        /\ at' \notin {"disconnect", "on_disconnected"}
        /\ UNCHANGED <<m_context, clientVars, eventVars>>
    BY <1>7 DEF Poll, Pump, Goto, MainAt, TypeOK
  <2> QED BY <2>1 DEF LifeInv
<1>8. CASE RunBackground
  <2>1. /\ pc'[Context] = pc[Context] /\ pc'[Closer] = pc[Closer]
        /\ UNCHANGED <<m_context, clientVars, at, eventVars>>
    <3>1. pc' = [pc EXCEPT ![Runner] = "run_check", ![Detector] = "polling"]
      BY <1>8 DEF RunBackground, RunBegin
    <3>2. \A t \in Threads \ {Runner, Detector} : pc'[t] = pc[t]
      BY <3>1 DEF TypeOK
    <3>3. UNCHANGED <<m_context, clientVars, at, eventVars>>
      BY <1>8 DEF RunBackground, RunBegin
    <3> QED BY <3>2, <3>3
  <2> QED BY <2>1, LifeApart
<1>9. CASE ContextStep
  <2>1. CASE FinishPush /\ UNCHANGED <<clientVars, pyVars>>
    <3>1. pc[Context] \in PushLocs /\ UNCHANGED m_context
      BY <2>1 DEF FinishPush, PushBlocking, PushNotify, NotifyOne, Goto, loopVars
    <3>2. pc'[Closer] = pc[Closer]
      BY <2>1, NotifyMoves
         DEF FinishPush, PushBlocking, PushNotify, Goto, TypeOK, WakeInv, Control, Roles, StopperLocs
    <3> QED BY <2>1, <3>1, <3>2 DEF LifeInv
  <2>2. CASE OnConnected
    BY <2>2 DEF OnConnected, HookTo, LifeInv, vars, queueVars
  <2> QED BY <1>9, <2>1, <2>2 DEF ContextStep
<1>10. CASE Handlers
  <2>1. CASE Validated
    <3>1. /\ m_context = "running" /\ pc[Context] = "out" /\ hook = "none"
          /\ m_connection = "connecting" /\ m_connection' = "open"
          /\ hook' = "called" /\ nConnected' = nConnected + 1
          /\ UNCHANGED <<closing, nConnects, m_context, pc, at, eventVars>>
      BY <1>10, <2>1 DEF Handlers, Validated, HandlerRuns, ContextFree, vars, queueVars
    <3> QED BY <3>1 DEF LifeInv
  <2>2. CASE ConnectionFails \/ RunClose
    <3>1. /\ m_context = "running" /\ m_connection' = "closed"
          /\ m_connection # "null"
          /\ UNCHANGED <<hook, nConnects, nConnected, m_context, pc, at, eventVars>>
          /\ closing' => closing
      <4>1. CASE ConnectionFails
        BY <1>10, <4>1
           DEF Handlers, ConnectionFails, IsConnected, HandlerRuns, vars, queueVars
      <4>2. CASE RunClose
        BY <1>10, <4>2
           DEF Handlers, RunClose, HandlerRuns, vars, queueVars, LifeInv
      <4> QED BY <2>2, <4>1, <4>2
    <3> QED BY <3>1 DEF LifeInv
  <2>3. CASE MessageRead
    <3>1. /\ m_context = "running" /\ m_connection = "open"
          /\ pc'[Closer] = pc[Closer]
          /\ UNCHANGED <<m_context, clientVars, pyVars>>
      BY <1>10, <2>3
         DEF Handlers, MessageRead, AddToIncomingMessageQueue, PushInsert, Goto, TypeOK
    <3> QED BY <3>1 DEF LifeInv
  <2> QED BY <1>10, <2>1, <2>2, <2>3 DEF Handlers
<1>11. ASSUME NEW c \in Consumers, PyUpdate(c) \/ PyOnMessage(c) \/ PyWake(c)
       PROVE  LifeInv'
  <2>1. /\ UNCHANGED <<m_context, clientVars, at, eventVars>>
        /\ \/ pc' = [t \in Threads |-> "aborted"]
           \/ \A t \in Threads \ {c} : pc'[t] = pc[t]
    BY <1>11, ConsumersApart
  <2> QED BY <2>1, LifeApart
<1>12. CASE UNCHANGED allVars
  BY <1>12, LifeApart DEF allVars, vars, queueVars
<1> QED BY <1>1, <1>2, <1>3, <1>4, <1>5, <1>6, <1>7, <1>8, <1>9, <1>10, <1>11, <1>12
        DEF PyNext, MainStep

-----------------------------------------------------------------------------
LEMMA HandKept ==
    ASSUME WakeInv, HandHeld, [PyNext]_allVars
    PROVE  HandHeld'
<1>1. CASE [Next]_vars
  BY <1>1, HandStep DEF WakeInv, Control
<1>2. CASE ConnectAndWait
  <2>1. pc' = [t \in Threads |-> "aborted"] \/ pc' = pc
    BY <1>2 DEF ConnectAndWait, Connect, Abort, queueVars
  <2> QED BY <1>2, <2>1, PyRoles DEF ConnectAndWait, Connect, HandHeld
<1> QED BY <1>1, <1>2, LoopStep

-----------------------------------------------------------------------------
LEMMA ClientTypeStep ==
    ASSUME ClientTypeOK, LifeInv, [PyNext]_allVars
    PROVE  ClientTypeOK'
<1> USE DEF ClientTypeOK
<1>1. CASE ConnectAndWait
  BY <1>1, ClientAssumption DEF ConnectAndWait, Connect
<1>2. CASE UNCHANGED clientVars
  BY <1>2 DEF clientVars
<1>3. CASE PyDisconnect
  BY <1>3 DEF PyDisconnect, DisconnectBegin, IsConnected
<1>4. CASE OnDisconnectedBegin
  BY <1>4 DEF OnDisconnectedBegin, ResetConnection
<1>5. CASE OnConnected
  BY <1>5 DEF OnConnected, HookTo
<1>6. CASE Handlers
  <2>1. CASE Validated
    <3>1. nConnected = 0 /\ nConnects > 0
      BY <2>1 DEF Validated, HandlerRuns, LifeInv
    <3> QED BY <2>1, <3>1 DEF Validated
  <2>2. CASE ConnectionFails \/ RunClose \/ MessageRead
    BY <2>2 DEF ConnectionFails, RunClose, MessageRead, clientVars
  <2> QED BY <1>6, <2>1, <2>2 DEF Handlers
<1>7. ASSUME ~ConnectAndWait, ~PyDisconnect, ~OnDisconnectedBegin, ~OnConnected, ~Handlers
      PROVE  UNCHANGED clientVars
  BY <1>7
     DEF PyNext, MainStep, ContextStep, WaitConnected, InDisconnect, Disconnect,
         OnDisconnectedEnd, Poll, Look, NotMatched, ReturnMessage, GiveUp, WaitForMessage,
         Pump, RunBackground, PyUpdate, PyOnMessage, PyWake, allVars
<1> QED BY <1>1, <1>2, <1>3, <1>4, <1>5, <1>6, <1>7

\* What the Python side keeps of its own.
PyOwnType ==
    /\ at \in {"idle"} \cup ConnectLocs \cup DisconnectLocs \cup WaitForLocs
    /\ connected_event \in BOOLEAN /\ disconnected_event \in BOOLEAN
    /\ message_event \in BOOLEAN
    /\ last_msg \in Items \cup {NoMsg} /\ returned \in Items \cup {NoMsg}
    /\ nBefore \in Nat

LEMMA PyOwnTypeStep ==
    ASSUME TypeOK, HandHeld, PyOwnType, [PyNext]_allVars
    PROVE  PyOwnType'
<1> USE DEF PyOwnType, ConnectLocs, DisconnectLocs, WaitForLocs, MainAt,
            eventVars, messageVars, pyVars
<1>1. CASE MainStep
  <2>1. CASE WaitConnected \/ PyDisconnect \/ InDisconnect
    BY <2>1 DEF WaitConnected, PyDisconnect, InDisconnect
  <2>2. CASE OnDisconnectedBegin \/ OnDisconnectedEnd
    BY <2>2 DEF OnDisconnectedBegin, OnDisconnectedEnd
  <2>3. CASE Poll \/ Look \/ NotMatched \/ ReturnMessage \/ GiveUp
    BY <2>3 DEF Poll, Look, NotMatched, ReturnMessage, GiveUp
  <2> QED BY <1>1, <2>1, <2>2, <2>3 DEF MainStep
<1>2. CASE ContextStep
  BY <1>2 DEF ContextStep, OnConnected, HookTo
<1>3. CASE Handlers
  BY <1>3 DEF Handlers
<1>4. CASE ConnectAndWait \/ PyDisconnect \/ Pump \/ RunBackground
  BY <1>4 DEF ConnectAndWait, PyDisconnect, Pump, RunBackground
<1>5. CASE WaitForMessage
  <2>1. Len(handled) \in Nat
    BY DEF TypeOK
  <2> QED BY <1>5, <2>1 DEF WaitForMessage
<1>6. ASSUME NEW c \in Consumers, PyUpdate(c) \/ PyWake(c)
      PROVE  PyOwnType'
  BY <1>6 DEF PyUpdate, PyWake
<1>7. ASSUME NEW c \in Consumers, PyOnMessage(c)
      PROVE  PyOwnType'
  <2>1. PICK m \in Items : hand[c] = <<m>>
    BY <1>7, HandOfMessage DEF PyOnMessage, OnMessage, Goto
  <2>2. last_msg' = m
    BY <1>7, <2>1 DEF PyOnMessage
  <2> QED BY <1>7, <2>2 DEF PyOnMessage
<1>8. CASE UNCHANGED allVars
  BY <1>8 DEF allVars
<1> QED BY <1>1, <1>2, <1>3, <1>4, <1>5, <1>6, <1>7, <1>8 DEF PyNext

LEMMA PyTypes == PyTypeOK <=> TypeOK /\ ClientTypeOK /\ PyOwnType
BY DEF PyTypeOK, PyOwnType

-----------------------------------------------------------------------------
\* Steps that keep what was handled and the message events, and do not begin
\* a wait_for_message or a look at last_msg.
LEMMA MatchApart ==
    ASSUME MatchInv, UNCHANGED <<handled, messageVars>>,
           at' \in Waiting => at \in Waiting,
           at' = "match" => message_event \/ at = "match"
    PROVE  MatchInv'
BY DEF MatchInv, ReturnsNewMessage, messageVars

\* What was handled stays where it is when one more is.
LEMMA HandledGrows ==
    ASSUME TypeOK, nBefore \in Nat, NEW m \in Items, handled' = handled \o <<m>>
    PROVE  /\ Len(handled) \in Nat
           /\ Len(handled') = Len(handled) + 1 /\ handled'[Len(handled')] = m
           /\ \A i \in 1 .. Len(handled) : handled'[i] = handled[i]
BY DEF TypeOK

LEMMA MatchOfMessage ==
    ASSUME PyTypeOK, HandHeld, MatchInv, NEW c \in Consumers, PyOnMessage(c)
    PROVE  MatchInv'
<1> TypeOK /\ nBefore \in Nat BY DEF PyTypeOK
<1>1. PICK m \in Items : hand[c] = <<m>>
  BY HandOfMessage DEF PyOnMessage, OnMessage, Goto
<1>2. /\ handled' = handled \o <<m>> /\ last_msg' = m
      /\ UNCHANGED <<at, nBefore, returned>>
  BY <1>1 DEF PyOnMessage, OnMessage
<1>3. /\ Len(handled) \in Nat
      /\ Len(handled') = Len(handled) + 1 /\ handled'[Len(handled')] = m
      /\ \A i \in 1 .. Len(handled) : handled'[i] = handled[i]
  BY <1>2, HandledGrows
<1>4. ReturnsNewMessage'
  BY <1>2, <1>3 DEF MatchInv, ReturnsNewMessage
<1>5. at \in Waiting =>
          /\ nBefore <= Len(handled')
          /\ \E i \in nBefore + 1 .. Len(handled') : handled'[i] = last_msg'
  BY <1>2, <1>3 DEF MatchInv
<1> QED BY <1>2, <1>4, <1>5 DEF MatchInv

\* Nothing else than OnMessage adds to what was handled.
LEMMA HandledKept ==
    ASSUME [PyNext]_allVars, \A c \in Consumers : ~PyOnMessage(c)
    PROVE  UNCHANGED handled
<1> USE DEF vars, queueVars, loopVars
<1>1. CASE MainStep
  BY <1>1
     DEF MainStep, WaitConnected, PyDisconnect, DisconnectBegin, StopBegin, InDisconnect,
         Disconnect, ExitWait, StopContext, JoinContext, OnDisconnectedBegin,
         OnDisconnectedEnd, Poll, Look, NotMatched, ReturnMessage, GiveUp
<1>2. CASE ContextStep \/ Handlers
  BY <1>2
     DEF ContextStep, FinishPush, OnConnected, HookTo, Handlers, Validated,
         ConnectionFails, RunClose, MessageRead, AddToIncomingMessageQueue
<1>3. CASE ConnectAndWait \/ PyDisconnect \/ WaitForMessage \/ Pump \/ RunBackground
  BY <1>3
     DEF ConnectAndWait, Connect, PyDisconnect, DisconnectBegin, StopBegin,
         WaitForMessage, Pump, RunBackground, RunBegin
<1>4. ASSUME NEW c \in Consumers, PyUpdate(c) \/ PyWake(c)
      PROVE  UNCHANGED handled
  BY <1>4
     DEF PyUpdate, PyWake, Wake, SpuriousWake, Wait, WaitLock, WaitEmpty, WaitExiting,
         WaitBlock, WaitReturn, Drain, TakeMessage, PopFront, PopFrontEmpty, RunCheck
<1>5. CASE UNCHANGED allVars
  BY <1>5 DEF allVars
<1> QED BY <1>1, <1>2, <1>3, <1>4, <1>5 DEF PyNext

LEMMA MatchStep ==
    ASSUME PyTypeOK, HandHeld, MatchInv, [PyNext]_allVars
    PROVE  MatchInv'
<1> USE DEF pyVars, Waiting
<1>1. CASE \E c \in Consumers : PyOnMessage(c)
  BY <1>1, MatchOfMessage
<1>2. CASE \A c \in Consumers : ~PyOnMessage(c)
  <2>1. handled' = handled /\ Len(handled) \in Nat
    BY <1>2, HandledKept DEF PyTypeOK, TypeOK
  <2>2. CASE WaitForMessage
    BY <2>1, <2>2 DEF WaitForMessage, MainAt, MatchInv, ReturnsNewMessage, PyTypeOK
  <2>3. CASE NotMatched
    BY <2>1, <2>3 DEF NotMatched, MainAt, MatchInv, ReturnsNewMessage
  <2>4. CASE ReturnMessage
    BY <2>1, <2>4 DEF ReturnMessage, MainAt, MatchInv, ReturnsNewMessage
  <2>5. CASE WaitConnected \/ PyDisconnect \/ InDisconnect \/ OnDisconnectedBegin
             \/ OnDisconnectedEnd \/ Poll \/ Look \/ GiveUp
    <3>1. /\ UNCHANGED messageVars
          /\ at' \in Waiting => at \in Waiting
          /\ at' = "match" => message_event \/ at = "match"
      BY <2>5 DEF WaitConnected, PyDisconnect, InDisconnect, OnDisconnectedBegin,
                  OnDisconnectedEnd, Poll, Look, GiveUp, MainAt
    <3> QED BY <2>1, <3>1, MatchApart
  <2>6. CASE ContextStep \/ Handlers \/ ConnectAndWait \/ Pump \/ RunBackground
    <3>1. /\ UNCHANGED messageVars
          /\ at' \in Waiting => at \in Waiting
          /\ at' = "match" => message_event \/ at = "match"
      BY <2>6 DEF ContextStep, OnConnected, HookTo, Handlers, ConnectAndWait, Pump,
                  RunBackground, MainAt
    <3> QED BY <2>1, <3>1, MatchApart
  <2>7. ASSUME NEW c \in Consumers, PyUpdate(c) \/ PyWake(c)
        PROVE  MatchInv'
    <3>1. UNCHANGED <<at, messageVars>>
      BY <2>7 DEF PyUpdate, PyWake
    <3> QED BY <2>1, <3>1, MatchApart
  <2>8. CASE UNCHANGED allVars
    BY <2>1, <2>8, MatchApart DEF allVars
  <2> QED BY <1>2, <2>2, <2>3, <2>4, <2>5, <2>6, <2>7, <2>8 DEF PyNext, MainStep
<1> QED BY <1>1, <1>2

-----------------------------------------------------------------------------
LEMMA PyInitHolds == PyInit => PyInv
<1> SUFFICES ASSUME PyInit PROVE PyInv
    OBVIOUS
<1>1. TypeOK /\ WakeInv
  BY TypeInit, ControlInit, WakeInit DEF PyInit, WakeInv
<1>2. ClientTypeOK
  <2>1. ClientInit /\ 0 \in 0..MaxConnects /\ 0 \in 0..0
    BY ClientAssumption DEF PyInit
  <2> QED BY <2>1 DEF ClientInit, ClientTypeOK
<1>3. PyOwnType
  BY DEF PyInit, PyOwnType
<1>4. HandHeld
  BY PyRoles, RolesInThreads DEF PyInit, Init, HandHeld
<1>5. MatchInv
  BY DEF PyInit, MatchInv, ReturnsNewMessage, Waiting
<1> QED BY <1>1, <1>2, <1>3, <1>4, <1>5, LifeInit, PyTypes DEF PyInv

(***************************************************************************)
(* The invariant of the client: where its threads are, and what the        *)
(* connection and the context thread have come to.                         *)
(***************************************************************************)
THEOREM PyInvariant == PySpec => []PyInv
<1>1. PyInit => PyInv
  BY PyInitHolds
<1>2. PyInv /\ [PyNext]_allVars => PyInv'
  <2> SUFFICES ASSUME PyInv, [PyNext]_allVars PROVE PyInv'
    OBVIOUS
  <2>1. WakeInv' /\ LifeInv' /\ HandHeld' /\ MatchInv'
    BY WakeKept, LifeStep, HandKept, MatchStep DEF PyInv
  <2>2. ClientTypeOK' /\ PyOwnType'
    BY ClientTypeStep, PyOwnTypeStep, PyTypes DEF PyInv
  <2>3. PyTypeOK'
    BY <2>1, <2>2 DEF WakeInv, PyTypeOK, PyOwnType
  <2> QED BY <2>1, <2>3 DEF PyInv
<1> QED BY <1>1, <1>2, PTL DEF PySpec

(***************************************************************************)
(* Every variable of the client keeps its type.                            *)
(***************************************************************************)
THEOREM PyTypeCorrect == PySpec => []PyTypeOK
<1>1. PyInv => PyTypeOK
  BY DEF PyInv
<1> QED BY <1>1, PyInvariant, PTL

(***************************************************************************)
(* While a consumer of the client sleeps in wait(), every queued message   *)
(* has a consumer awake for it or a notification still to come: connect,   *)
(* disconnect and the hooks of the Python client take nothing from that.   *)
(***************************************************************************)
THEOREM PyNoLostWakeup == PySpec => []WokenForEveryMessage
<1>1. PyInv => WokenForEveryMessage
  <2> SUFFICES ASSUME PyInv, Blocked # {} PROVE Committed # {}
    BY DEF PyInv, WakeInv, EnoughAwake, WokenForEveryMessage
  <2>1. PICK w \in Threads : pc[w] = "blocked"
    BY DEF Blocked
  <2>2. w \in Consumers
    BY <2>1, RolesAssumption
       DEF PyInv, WakeInv, Control, Roles, PushLocs, StopperLocs, StopLocs, ExitLocs
  <2> QED BY <2>1, <2>2 DEF Committed
<1> QED BY <1>1, PyInvariant, PTL

(***************************************************************************)
(* connected_event and disconnected_event are never both set, and after    *)
(* disconnect the client does not count as connected: OnDisconnected comes *)
(* after the join, hence after every OnConnected.                          *)
(***************************************************************************)
THEOREM EventsHold == PySpec => []EventsAgree
<1>1. PyInv => EventsAgree
  BY DEF PyInv, LifeInv, EventsAgree
<1> QED BY <1>1, PyInvariant, PTL

(***************************************************************************)
(* m_connection.reset() leaves no handler, no hook and no push behind that *)
(* uses the connection.                                                    *)
(***************************************************************************)
THEOREM ConnectionOutlives == PySpec => []ConnectionOutlivesHandlers
<1>1. PyInv => ConnectionOutlivesHandlers
  BY DEF PyInv, LifeInv, ConnectionOutlivesHandlers
<1> QED BY <1>1, PyInvariant, PTL

(***************************************************************************)
(* wait_for_message returns no message that was handled before it was      *)
(* called, whatever run() in the background handles, whenever.             *)
(***************************************************************************)
THEOREM NewMessageReturned == PySpec => []ReturnsNewMessage
<1>1. PyInv => ReturnsNewMessage
  BY DEF PyInv, MatchInv
<1> QED BY <1>1, PyInvariant, PTL
=============================================================================
