------------------------------ MODULE RunLoop ------------------------------
(***************************************************************************)
(* The incoming queue m_qMessagesIn of a server, a client or a raw-message *)
(* sender, and the threads around it: the thread m_thrContext that pushes  *)
(* what it has read, the threads that call Update() or Run(), the thread   *)
(* Run() starts to watch m_bShuttingDown, and the threads that call Stop() *)
(* or Disconnect().  The three Update() and the three Run() are the same   *)
(* code but for what the watching thread calls (DetectorStops); the lines  *)
(* in PROJECT.json are those of the server.                                *)
(*                                                                         *)
(* Bounds: at most MaxItems messages arrive in a behaviour, and one thread *)
(* at a time is inside Run().                                              *)
(***************************************************************************)
EXTENDS TCPMsgQueue

CONSTANTS Items,      \* what a message may be
          Context,    \* m_thrContext, where every message is read
          Consumers,  \* threads that call Update() or Run()
          Stoppers,   \* threads that call Stop() or Disconnect()
          Detector,   \* thr_shutdown_detect, alive while a Run() is
          Budgets,    \* values of nMaxMessages that Update() is called with
          SizeMax,    \* its default, size_t(-1)
          MaxItems,   \* bound on the messages that arrive
          DetectorStops  \* the watching thread calls Stop() (the server), or
                         \* m_qMessagesIn.exit_wait() only (the two clients)

ASSUME RolesAssumption ==
    /\ Threads = {Context, Detector} \cup Consumers \cup Stoppers
    /\ Context # Detector
    /\ Consumers \cap (Stoppers \cup {Context, Detector}) = {}
    /\ Stoppers \cap {Context, Detector} = {}

\* An Update(true, 0) would take a wakeup and no message; no caller passes 0.
ASSUME BoundsAssumption ==
    /\ MaxItems \in Nat
    /\ SizeMax \in Nat /\ SizeMax > MaxItems
    /\ Budgets \subseteq 1..SizeMax
    /\ DetectorStops \in BOOLEAN

VARIABLES m_context,        \* the io_context: running, stopped, or its thread joined
          runner,           \* the thread inside Run(), or NoThread
          m_bShuttingDown,  \* set by the SIGINT handler, never reset
          nLeft,            \* nMaxMessages - nMessageCount of each Update()
          hand,             \* the message taken by pop_front and not yet handled
          handled,          \* the messages OnMessage was called with, in that order
          nPushed           \* how many messages have arrived

vars == <<queueVars, m_context, runner, m_bShuttingDown, nLeft, hand, handled, nPushed>>
loopVars == <<m_context, runner, m_bShuttingDown, nLeft, hand, handled, nPushed>>

\* Locations of a consumer in Update() and Run(), and of the watching thread.
UpdateLocs == {"update_wait", "drain", "pop", "handle"}
RunLocs == {"run_check", "run_join"}
StopLocs == {"stop_context", "stop_join"}
Locations == {"out", "polling", "aborted"} \cup UpdateLocs \cup RunLocs
                 \cup StopLocs \cup PushLocs \cup WaitLocs \cup SleepLocs \cup ExitLocs

TypeOK ==
    /\ m_queue \in Seq(Items)
    /\ m_mutex \in Threads \cup {NoThread}
    /\ m_mtxBlocking \in Threads \cup {NoThread}
    /\ m_bExiting \in BOOLEAN
    /\ pc \in [Threads -> Locations]
    /\ m_context \in {"running", "stopped", "joined"}
    /\ runner \in Consumers \cup {NoThread}
    /\ m_bShuttingDown \in BOOLEAN
    /\ nLeft \in [Consumers -> 0..SizeMax]
    /\ hand \in [Consumers -> {<<>>} \cup {<<m>> : m \in Items}]
    /\ handled \in Seq(Items)
    /\ nPushed \in 0..MaxItems

Init ==
    /\ m_queue = <<>>
    /\ m_mutex = NoThread
    /\ m_mtxBlocking = NoThread
    /\ m_bExiting = FALSE
    /\ pc = [t \in Threads |-> "out"]
    /\ m_context = "running"
    /\ runner = NoThread
    /\ m_bShuttingDown = FALSE
    /\ nLeft = [c \in Consumers |-> 0]
    /\ hand = [c \in Consumers |-> <<>>]
    /\ handled = <<>>
    /\ nPushed = 0

-----------------------------------------------------------------------------
(* The context thread: one push_back for every message read, until the      *)
(* io_context is stopped.                                                   *)

AddToIncomingMessageQueue ==
    /\ m_context = "running"
    /\ nPushed < MaxItems
    /\ \E m \in Items : PushInsert(Context, m, "out")
    /\ nPushed' = nPushed + 1
    /\ UNCHANGED <<m_context, runner, m_bShuttingDown, nLeft, hand, handled>>

FinishPush ==
    /\ PushBlocking(Context) \/ PushNotify(Context, "out")
    /\ UNCHANGED loopVars

-----------------------------------------------------------------------------
(* Update(bWait, nMaxMessages).                                             *)

UpdateBegin(c) ==
    /\ \E bWait \in BOOLEAN :
          Goto(c, "out", IF bWait THEN "update_wait" ELSE "drain")
    /\ \E n \in Budgets : nLeft' = [nLeft EXCEPT ![c] = n]
    /\ UNCHANGED <<queueData, m_context, runner, m_bShuttingDown, hand, handled, nPushed>>

Wait(c) ==
    /\ \/ WaitLock(c, "update_wait")
       \/ WaitEmpty(c, "drain")
       \/ WaitExiting(c, "drain")
       \/ WaitBlock(c)
       \/ WaitLock(c, "woken")
    /\ UNCHANGED loopVars

\* Back in Run(), or in the user's code.
AfterUpdate(c) == IF runner = c THEN "run_check" ELSE "out"

\* Mutants: the budget is not looked at; the queue is not looked at.
DrainPastBudget(c) ==
    /\ \/ SeenNonEmpty /\ Goto(c, "drain", "pop")
       \/ SeenEmpty /\ Goto(c, "drain", AfterUpdate(c))
    /\ UNCHANGED <<queueData, loopVars>>

DrainUnseen(c) ==
    /\ \/ nLeft[c] > 0 /\ Goto(c, "drain", "pop")
       \/ (nLeft[c] = 0 \/ SeenEmpty) /\ Goto(c, "drain", AfterUpdate(c))
    /\ UNCHANGED <<queueData, loopVars>>

\* The loop condition nMessageCount < nMaxMessages && !m_qMessagesIn.empty().
Drain(c) ==
    /\ \/ nLeft[c] > 0 /\ SeenNonEmpty /\ Goto(c, "drain", "pop")
       \/ (nLeft[c] = 0 \/ SeenEmpty) /\ Goto(c, "drain", AfterUpdate(c))
    /\ UNCHANGED <<queueData, loopVars>>

TakeMessage(c) ==
    /\ PopFront(c, "pop", "handle")
    /\ hand' = [hand EXCEPT ![c] = <<Head(m_queue)>>]
    /\ UNCHANGED <<m_context, runner, m_bShuttingDown, nLeft, handled, nPushed>>

OnMessage(c) ==
    /\ Goto(c, "handle", "drain")
    /\ handled' = handled \o hand[c]
    /\ hand' = [hand EXCEPT ![c] = <<>>]
    /\ nLeft' = [nLeft EXCEPT ![c] = @ - 1]
    /\ UNCHANGED <<queueData, m_context, runner, m_bShuttingDown, nPushed>>

Abort ==
    /\ pc' = [t \in Threads |-> "aborted"]
    /\ UNCHANGED queueData

\* pop_front of an empty deque is undefined behaviour: the process is lost.
PopFrontEmpty(c) ==
    /\ pc[c] = "pop" /\ SeenEmpty
    /\ Abort
    /\ UNCHANGED loopVars

Update(c) == Wait(c) \/ Drain(c) \/ TakeMessage(c) \/ OnMessage(c) \/ PopFrontEmpty(c)

-----------------------------------------------------------------------------
(* Run(): installs the SIGINT handler, starts the watching thread, calls    *)
(* Update(true) until the flag is set, and joins the watching thread.       *)

RunBegin(c) ==
    /\ runner = NoThread
    /\ pc[c] = "out" /\ pc[Detector] = "out"
    /\ pc' = [pc EXCEPT ![c] = "run_check", ![Detector] = "polling"]
    /\ runner' = c
    /\ UNCHANGED <<queueData, m_context, m_bShuttingDown, nLeft, hand, handled, nPushed>>

RunCheck(c) ==
    /\ \/ m_bShuttingDown /\ Goto(c, "run_check", "run_join") /\ UNCHANGED nLeft
       \/ /\ ~m_bShuttingDown
          /\ Goto(c, "run_check", "update_wait")
          /\ nLeft' = [nLeft EXCEPT ![c] = SizeMax]
    /\ UNCHANGED <<queueData, m_context, runner, m_bShuttingDown, hand, handled, nPushed>>

RunJoin(c) ==
    /\ pc[Detector] = "out"
    /\ Goto(c, "run_join", "out")
    /\ runner' = NoThread
    /\ UNCHANGED <<queueData, m_context, m_bShuttingDown, nLeft, hand, handled, nPushed>>

\* The SIGINT handler, installed by the first Run() and never removed; the
\* second signal aborts the process.
Signal ==
    /\ runner # NoThread \/ m_bShuttingDown
    /\ \/ ~m_bShuttingDown /\ m_bShuttingDown' = TRUE /\ UNCHANGED queueVars
       \/ m_bShuttingDown /\ Abort /\ UNCHANGED m_bShuttingDown
    /\ UNCHANGED <<m_context, runner, nLeft, hand, handled, nPushed>>

-----------------------------------------------------------------------------
(* Stop(), called by the server's watching thread once it sees the flag,    *)
(* and by any thread that wants the server or the client stopped: exit_wait,*)
(* stop the io_context, join its thread.                                    *)

DetectShutdown ==
    /\ m_bShuttingDown
    /\ Goto(Detector, "polling", "exit_lock")
    /\ UNCHANGED <<queueData, loopVars>>

StopBegin(s) ==
    /\ Goto(s, "out", "exit_lock")
    /\ UNCHANGED <<queueData, loopVars>>

AfterExitWait(s) ==
    IF s = Detector /\ ~DetectorStops THEN "out" ELSE "stop_context"

ExitWait(s) ==
    /\ ExitLock(s) \/ ExitSet(s) \/ ExitNotify(s, AfterExitWait(s))
    /\ UNCHANGED loopVars

\* m_context.stop(), then joinable().  A second join of a thread that is
\* being joined throws, out of a destructor or a thread: the process ends.
StopContext(s) ==
    /\ pc[s] = "stop_context"
    /\ \/ m_context = "joined" /\ Goto(s, "stop_context", "out")
          /\ UNCHANGED <<queueData, m_context>>
       \/ /\ m_context # "joined"
          /\ \A t \in Threads : pc[t] # "stop_join"
          /\ m_context' = "stopped"
          /\ Goto(s, "stop_context", "stop_join")
          /\ UNCHANGED queueData
       \/ /\ \E t \in Threads : pc[t] = "stop_join"
          /\ Abort
          /\ UNCHANGED m_context
    /\ UNCHANGED <<runner, m_bShuttingDown, nLeft, hand, handled, nPushed>>

JoinContext(s) ==
    /\ pc[Context] = "out"
    /\ Goto(s, "stop_join", "out")
    /\ m_context' = "joined"
    /\ UNCHANGED <<queueData, runner, m_bShuttingDown, nLeft, hand, handled, nPushed>>

-----------------------------------------------------------------------------
Wake(c) == SpuriousWake(c) /\ UNCHANGED loopVars

\* The steps of a call that is under way.
Step(t) ==
    \/ t = Context /\ FinishPush
    \/ t \in Consumers /\ (Update(t) \/ RunCheck(t) \/ RunJoin(t))
    \/ t \in Stoppers \cup {Detector} /\ (ExitWait(t) \/ StopContext(t) \/ JoinContext(t))
    \/ t = Detector /\ DetectShutdown

\* What the network, the user and the operating system may do, or not.
Environment ==
    \/ AddToIncomingMessageQueue
    \/ \E c \in Consumers : UpdateBegin(c) \/ RunBegin(c) \/ Wake(c)
    \/ \E s \in Stoppers : StopBegin(s)
    \/ Signal

Next == Environment \/ \E t \in Threads : Step(t)

Spec == Init /\ [][Next]_vars

\* A call that has begun is scheduled, and a mutex that is free again and
\* again is eventually granted.
FairSpec == Spec /\ \A t \in Threads : SF_vars(Step(t))

-----------------------------------------------------------------------------
(* Properties.                                                              *)

\* A consumer on its way to the queue with budget left for one more message.
Attending ==
    {c \in Consumers : \/ pc[c] \in {"woken", "wait_empty", "drain", "pop"} /\ nLeft[c] > 0
                       \/ pc[c] = "handle" /\ nLeft[c] > 1}

Pushing == IF pc[Context] \in PushLocs THEN 1 ELSE 0

\* While a consumer sleeps in wait(), every queued message has a consumer of
\* its own that is awake for it, or the notification that will wake one is
\* still to come: push_back's pass through m_mtxBlocking closes the gap
\* between wait()'s predicate and its sleep.
WokenForEveryMessage ==
    Blocked # {} => Len(m_queue) <= Cardinality(Attending) + Pushing

\* A thread that found the queue non-empty finds a message there: with one
\* consumer, nothing is lost by testing and popping under separate locks.
NoPopFromEmpty ==
    Cardinality(Consumers) = 1 =>
        \A c \in Consumers : pc[c] = "pop" => m_queue # <<>>

\* With one consumer the queue, and the message being handled, are the
\* abstract channel: every message pushed is handed to OnMessage once, in
\* the order of the pushes.
Channel == INSTANCE MsgChannel
    WITH Messages <- Items,
         pending <- hand[CHOOSE c \in Consumers : TRUE] \o m_queue,
         delivered <- handled
ImplementsChannel == Channel!Spec

\* push_back holds m_mutex and wants m_mtxBlocking; wait() holds m_mtxBlocking
\* and, in its predicate, wants m_mutex.
LockCycle ==
    /\ pc[Context] = "push_blocking"
    /\ \E c \in Consumers : pc[c] = "wait_empty"

Aborted == pc[Context] = "aborted"

\* Unless the two locks are ever taken crosswise, Run() gets to the end of
\* the queue, again and again.
RunDrains ==
    []~LockCycle =>
        (runner # NoThread /\ m_queue # <<>>
            ~> m_queue = <<>> \/ runner = NoThread \/ Aborted)

\* "whether to block to wait for incoming messages" (TCPServer.h): a message
\* ends the wait.
MessageEndsWait ==
    \A c \in Consumers :
        pc[c] \in WaitLocs \cup SleepLocs /\ m_queue # <<>>
            ~> pc[c] \notin WaitLocs \cup SleepLocs \/ m_queue = <<>>

\* "Will block the current thread. Pending signals to terminate."
\* (TCPServer.h): after the signal, Run() returns.
SignalEndsRun ==
    []~LockCycle => (m_bShuttingDown ~> runner = NoThread \/ Aborted)
=============================================================================
