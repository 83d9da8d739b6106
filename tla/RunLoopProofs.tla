--------------------------- MODULE RunLoopProofs ---------------------------
(***************************************************************************)
(* Theorems about RunLoop, for any number of consumers and stoppers and    *)
(* any bounds.                                                             *)
(***************************************************************************)
EXTENDS RunLoop, FiniteSetTheorems, TLAPS

(***************************************************************************)
(* Typing.  TypeOK alone is not inductive: that OnMessage leaves nLeft a   *)
(* natural number rests on the budget a consumer still has at "handle".    *)
(***************************************************************************)
Budgeted ==
    \A c \in Consumers :
        pc[c] \in {"update_wait", "pop", "handle"} \cup WaitLocs \cup SleepLocs
            => nLeft[c] > 0

LEMMA RolesInThreads ==
    /\ Context \in Threads /\ Detector \in Threads
    /\ Consumers \subseteq Threads /\ Stoppers \subseteq Threads
    /\ NoThread \notin Threads
    /\ Context \notin Consumers /\ Detector \notin Consumers
    /\ Context \notin Stoppers /\ Detector \notin Stoppers
    /\ Consumers \cap Stoppers = {}
    /\ Context # Detector
BY RolesAssumption, ThreadsAssumption

LEMMA TypeInit == Init => TypeOK /\ Budgeted
<1> SUFFICES ASSUME Init PROVE TypeOK /\ Budgeted
    OBVIOUS
<1>1. pc \in [Threads -> Locations]
  BY DEF Init, Locations
<1>2. nLeft \in [Consumers -> 0..SizeMax] /\ nPushed \in 0..MaxItems
  BY BoundsAssumption DEF Init
<1>3. m_queue \in Seq(Items) /\ handled \in Seq(Items)
  BY DEF Init
<1>4. Budgeted
  BY RolesInThreads DEF Init, Budgeted, WaitLocs, SleepLocs
<1> QED
  BY <1>1, <1>2, <1>3, <1>4 DEF Init, TypeOK

LEMMA TypeStep == TypeOK /\ Budgeted /\ [Next]_vars => TypeOK' /\ Budgeted'
<1> SUFFICES ASSUME TypeOK, Budgeted, [Next]_vars
             PROVE  TypeOK' /\ Budgeted'
    OBVIOUS
<1> USE RolesInThreads, BoundsAssumption
        DEF TypeOK, Locations, UpdateLocs, RunLocs, StopLocs, PushLocs,
            WaitLocs, SleepLocs, ExitLocs, queueData, queueVars, loopVars
<1>1. CASE AddToIncomingMessageQueue
  BY <1>1 DEF AddToIncomingMessageQueue, PushInsert, Goto, Budgeted
<1>2. CASE FinishPush
  BY <1>2 DEF FinishPush, PushBlocking, PushNotify, NotifyOne, Blocked, Goto, Budgeted
<1>3. ASSUME NEW c \in Consumers, UpdateBegin(c)
      PROVE  TypeOK' /\ Budgeted'
  BY <1>3 DEF UpdateBegin, Goto, Budgeted
<1>4. ASSUME NEW c \in Consumers, Wait(c)
      PROVE  TypeOK' /\ Budgeted'
  BY <1>4, SMTT(20) DEF Wait, WaitLock, WaitEmpty, WaitExiting, WaitBlock, WaitReturn, Goto, Budgeted
<1>5. ASSUME NEW c \in Consumers, Drain(c)
      PROVE  TypeOK' /\ Budgeted'
  BY <1>5, SMTT(20) DEF Drain, AfterUpdate, Goto, Budgeted
<1>6. ASSUME NEW c \in Consumers, TakeMessage(c)
      PROVE  TypeOK' /\ Budgeted'
  BY <1>6 DEF TakeMessage, PopFront, SeenNonEmpty, Goto, Budgeted
<1>7. ASSUME NEW c \in Consumers, OnMessage(c)
      PROVE  TypeOK' /\ Budgeted'
  <2>1. hand[c] \in Seq(Items)
    <3>1. hand[c] \in {<<>>} \cup {<<m>> : m \in Items}
      OBVIOUS
    <3>2. CASE hand[c] = <<>>
      BY <3>2
    <3>3. ASSUME NEW m \in Items, hand[c] = <<m>>
          PROVE  hand[c] \in Seq(Items)
      BY <3>3
    <3> QED
      BY <3>1, <3>2, <3>3
  <2>2. handled' \in Seq(Items)
    BY <1>7, <2>1 DEF OnMessage
  <2>3. nLeft[c] > 0 /\ nLeft[c] - 1 \in 0..SizeMax
    BY <1>7 DEF OnMessage, Goto, Budgeted
  <2>4. nLeft' \in [Consumers -> 0..SizeMax]
    BY <1>7, <2>3 DEF OnMessage
  <2>5. hand' \in [Consumers -> {<<>>} \cup {<<m>> : m \in Items}]
    BY <1>7 DEF OnMessage
  <2>6. pc' \in [Threads -> Locations]
    BY <1>7 DEF OnMessage, Goto
  <2>7. Budgeted'
    BY <1>7 DEF OnMessage, Goto, Budgeted
  <2> QED
    BY <1>7, <2>2, <2>4, <2>5, <2>6, <2>7 DEF OnMessage
<1>8. ASSUME NEW c \in Consumers, PopFrontEmpty(c)
      PROVE  TypeOK' /\ Budgeted'
  BY <1>8 DEF PopFrontEmpty, Abort, Budgeted
<1>9. ASSUME NEW c \in Consumers, RunBegin(c) \/ RunCheck(c) \/ RunJoin(c)
      PROVE  TypeOK' /\ Budgeted'
  <2>1. CASE RunBegin(c)
    BY <2>1 DEF RunBegin, Budgeted
  <2>2. CASE RunCheck(c)
    <3>1. nLeft' \in [Consumers -> 0..SizeMax]
      <4>1. nLeft' = nLeft \/ nLeft' = [nLeft EXCEPT ![c] = SizeMax]
        BY <2>2, Zenon DEF RunCheck
      <4>2. SizeMax \in 0..SizeMax /\ nLeft \in [Consumers -> 0..SizeMax]
        OBVIOUS
      <4> QED
        BY <4>1, <4>2
    <3>2. Budgeted'
      BY <2>2 DEF RunCheck, Goto, Budgeted
    <3>3. pc' \in [Threads -> Locations]
      BY <2>2 DEF RunCheck, Goto
    <3>4. UNCHANGED <<m_queue, m_mutex, m_mtxBlocking, m_bExiting, m_context,
                      runner, m_bShuttingDown, hand, handled, nPushed>>
      BY <2>2 DEF RunCheck
    <3> HIDE DEF Locations
    <3> QED
      BY <3>1, <3>2, <3>3, <3>4
  <2>3. CASE RunJoin(c)
    BY <2>3 DEF RunJoin, Goto, Budgeted
  <2> QED
    BY <1>9, <2>1, <2>2, <2>3
<1>10. CASE Signal
  BY <1>10 DEF Signal, Abort, Budgeted
<1>11. CASE DetectShutdown
  BY <1>11 DEF DetectShutdown, Goto, Budgeted
<1>12. ASSUME NEW s \in Stoppers, StopBegin(s)
       PROVE  TypeOK' /\ Budgeted'
  BY <1>12 DEF StopBegin, Goto, Budgeted
<1>13. ASSUME NEW s \in Stoppers \cup {Detector}, ExitWait(s)
       PROVE  TypeOK' /\ Budgeted'
  <2>1. CASE ExitLock(s) \/ ExitSet(s)
    BY <1>13, <2>1 DEF ExitWait, ExitLock, ExitSet, Goto, Budgeted
  <2>2. CASE ExitNotify(s, AfterExitWait(s))
    <3>1. AfterExitWait(s) \in {"out", "stop_context"}
      BY DEF AfterExitWait
    <3>2. pc' \in [Threads -> Locations]
      BY <2>2, <3>1 DEF ExitNotify, NotifyOne, Blocked
    <3>3. Budgeted'
      BY <1>13, <2>2, <3>1 DEF ExitWait, ExitNotify, NotifyOne, Blocked, Budgeted
    <3> QED
      BY <1>13, <2>2, <3>2, <3>3 DEF ExitWait, ExitNotify
  <2> QED
    BY <1>13, <2>1, <2>2 DEF ExitWait
<1>14. ASSUME NEW s \in Stoppers \cup {Detector}, StopContext(s) \/ JoinContext(s)
       PROVE  TypeOK' /\ Budgeted'
  BY <1>14 DEF StopContext, JoinContext, Abort, Goto, Budgeted
<1>15. ASSUME NEW c \in Consumers, Wake(c)
       PROVE  TypeOK' /\ Budgeted'
  BY <1>15 DEF Wake, SpuriousWake, Goto, Budgeted
<1>16. CASE UNCHANGED vars
  BY <1>16 DEF vars, Budgeted
<1> QED
  BY <1>1, <1>2, <1>3, <1>4, <1>5, <1>6, <1>7, <1>8, <1>9, <1>10, <1>11,
     <1>12, <1>13, <1>14, <1>15, <1>16
  DEF Next, Environment, Step, Update

(***************************************************************************)
(* Every variable keeps its type, whatever the threads do.                 *)
(***************************************************************************)
THEOREM TypeCorrect == Spec => []TypeOK
<1>1. Init => TypeOK /\ Budgeted
  BY TypeInit
<1>2. (TypeOK /\ Budgeted) /\ [Next]_vars => (TypeOK /\ Budgeted)'
  BY TypeStep
<1>3. QED
  BY <1>1, <1>2, PTL DEF Spec

(***************************************************************************)
(* Control: which thread may be where, who owns the two mutexes there, and *)
(* what the order of the locks gives: when push_back has passed            *)
(* m_mtxBlocking and is about to notify, no consumer is between an         *)
(* unfavourable look at the queue and its sleep.                           *)
(***************************************************************************)
ConsumerLocs == {"out", "aborted"} \cup UpdateLocs \cup RunLocs \cup WaitLocs \cup SleepLocs
StopperLocs == {"out", "polling", "aborted"} \cup StopLocs \cup ExitLocs

Roles ==
    /\ pc[Context] \in {"out", "aborted"} \cup PushLocs
    /\ \A c \in Consumers : pc[c] \in ConsumerLocs
    /\ \A s \in Stoppers \cup {Detector} : pc[s] \in StopperLocs

Owners ==
    /\ pc[Context] \in PushLocs => m_mutex = Context
    /\ \A c \in Consumers : pc[c] \in WaitLocs => m_mtxBlocking = c

NotifySeesSleepers ==
    pc[Context] = "push_notify" =>
        \A c \in Consumers : pc[c] \notin {"wait_exiting", "wait_block"}

Control == Roles /\ Owners /\ NotifySeesSleepers

(***************************************************************************)
(* notify_one moves its caller on, and nobody else but a sleeper.          *)
(***************************************************************************)
LEMMA NotifyMoves ==
    ASSUME TypeOK, NEW t \in Threads, NEW from, NEW to, from # "blocked",
           NotifyOne(t, from, to)
    PROVE  /\ pc[t] = from /\ pc'[t] = to
           /\ \A u \in Threads \ {t} :
                 pc'[u] = pc[u] \/ (pc[u] = "blocked" /\ pc'[u] = "woken")
BY DEF TypeOK, NotifyOne, Blocked

LEMMA ControlInit == Init => Control
BY RolesInThreads
   DEF Init, Control, Roles, Owners, NotifySeesSleepers, PushLocs, WaitLocs,
       ConsumerLocs, StopperLocs

(***************************************************************************)
(* A consumer's step keeps Control if it keeps the owners right and does   *)
(* not commit to sleep under a notification.                               *)
(***************************************************************************)
LEMMA ConsumerMoves ==
    ASSUME TypeOK, Control, NEW c \in Consumers, NEW to \in ConsumerLocs,
           pc' = [pc EXCEPT ![c] = to],
           m_mutex' = m_mutex,
           to \in WaitLocs => m_mtxBlocking' = c,
           \A d \in Consumers \ {c} : pc[d] \in WaitLocs => m_mtxBlocking' = d,
           to \in {"wait_exiting", "wait_block"} => pc[Context] # "push_notify"
    PROVE  Control'
<1>1. /\ pc'[c] = to
      /\ \A u \in Threads \ {c} : pc'[u] = pc[u]
      /\ c # Context /\ c \notin Stoppers \cup {Detector}
  BY RolesInThreads DEF TypeOK
<1>2. Roles'
  BY <1>1, RolesInThreads DEF Control, Roles
<1>3. Owners'
  BY <1>1, RolesInThreads DEF Control, Owners
<1>4. NotifySeesSleepers'
  BY <1>1, RolesInThreads DEF Control, NotifySeesSleepers
<1> QED
  BY <1>2, <1>3, <1>4 DEF Control

(***************************************************************************)
(* So does a step of a stopper, or of the watching thread, that takes no   *)
(* mutex, whoever it wakes.                                                *)
(***************************************************************************)
LEMMA StopperMoves ==
    ASSUME TypeOK, Control, NEW s \in Stoppers \cup {Detector}, NEW to \in StopperLocs,
           pc'[s] = to,
           \A u \in Threads \ {s} :
               pc'[u] = pc[u] \/ (pc[u] = "blocked" /\ pc'[u] = "woken"),
           UNCHANGED <<m_mutex, m_mtxBlocking>>
    PROVE  Control'
<1>1. s \in Threads /\ s \notin Consumers /\ s # Context
  BY RolesInThreads
<1>2. pc'[Context] = pc[Context]
  BY <1>1, RolesInThreads DEF Control, Roles, PushLocs
<1>3. \A c \in Consumers : pc'[c] = pc[c] \/ (pc[c] = "blocked" /\ pc'[c] = "woken")
  BY <1>1, RolesInThreads
<1>4. \A u \in (Stoppers \cup {Detector}) \ {s} : pc'[u] = pc[u]
  BY <1>1, RolesInThreads DEF Control, Roles, StopperLocs, StopLocs, ExitLocs
<1>5. Roles'
  BY <1>2, <1>3, <1>4 DEF Control, Roles, ConsumerLocs, SleepLocs
<1>6. Owners'
  BY <1>2, <1>3 DEF Control, Owners, WaitLocs
<1>7. NotifySeesSleepers'
  BY <1>2, <1>3 DEF Control, NotifySeesSleepers
<1> QED
  BY <1>5, <1>6, <1>7 DEF Control

LEMMA ControlAborted ==
    pc' = [t \in Threads |-> "aborted"] => Control'
BY RolesInThreads
   DEF Control, Roles, Owners, NotifySeesSleepers, PushLocs, WaitLocs,
       ConsumerLocs, StopperLocs

LEMMA ControlStep == TypeOK /\ Control /\ [Next]_vars => Control'
<1> SUFFICES ASSUME TypeOK, Control, [Next]_vars
             PROVE  Control'
    OBVIOUS
<1> USE RolesInThreads DEF queueData, Goto
<1>1. CASE AddToIncomingMessageQueue
  <2>1. /\ pc' = [pc EXCEPT ![Context] = "push_blocking"]
        /\ m_mutex' = Context /\ m_mtxBlocking' = m_mtxBlocking
    BY <1>1 DEF AddToIncomingMessageQueue, PushInsert
  <2> QED
    BY <2>1 DEF TypeOK, Control, Roles, Owners, NotifySeesSleepers, PushLocs
<1>2. CASE FinishPush
  <2>1. CASE PushBlocking(Context)
    <3>1. /\ pc[Context] = "push_blocking" /\ pc' = [pc EXCEPT ![Context] = "push_notify"]
          /\ m_mtxBlocking = NoThread /\ UNCHANGED <<m_mutex, m_mtxBlocking>>
      BY <2>1 DEF PushBlocking
    <3> QED
      BY <3>1 DEF TypeOK, Control, Roles, Owners, NotifySeesSleepers, PushLocs, WaitLocs
  <2>2. CASE PushNotify(Context, "out")
    <3>1. /\ pc'[Context] = "out"
          /\ \A u \in Threads \ {Context} :
                pc'[u] = pc[u] \/ (pc[u] = "blocked" /\ pc'[u] = "woken")
          /\ m_mtxBlocking' = m_mtxBlocking
      BY <2>2, NotifyMoves DEF PushNotify
    <3>2. Roles'
      BY <3>1 DEF Control, Roles, ConsumerLocs, SleepLocs, StopperLocs, StopLocs, ExitLocs
    <3>3. Owners'
      BY <3>1 DEF Control, Owners, PushLocs, WaitLocs
    <3> QED
      BY <3>1, <3>2, <3>3 DEF Control, NotifySeesSleepers
  <2> QED
    BY <1>2, <2>1, <2>2 DEF FinishPush
<1>3. ASSUME NEW c \in Consumers, UpdateBegin(c)
      PROVE  Control'
  BY <1>3, ConsumerMoves
     DEF UpdateBegin, Control, Owners, ConsumerLocs, UpdateLocs, WaitLocs
<1>4. ASSUME NEW c \in Consumers, Wait(c)
      PROVE  Control'
  <2>1. CASE WaitLock(c, "update_wait") \/ WaitLock(c, "woken")
    BY <2>1, ConsumerMoves DEF WaitLock, Control, Owners, ConsumerLocs, WaitLocs
  <2>2. CASE WaitEmpty(c, "drain")
    <3>1. pc[c] = "wait_empty" /\ m_mtxBlocking = c
      BY <2>2 DEF WaitEmpty, WaitReturn, Control, Owners, WaitLocs
    <3>2. pc[Context] # "push_notify"
      BY <2>2 DEF WaitEmpty, Control, Owners, PushLocs
    <3>3. \A d \in Consumers \ {c} : pc[d] \notin WaitLocs
      BY <3>1 DEF Control, Owners
    <3>4. CASE pc' = [pc EXCEPT ![c] = "drain"] /\ UNCHANGED m_mutex
      BY <3>3, <3>4, ConsumerMoves DEF ConsumerLocs, UpdateLocs, WaitLocs
    <3>5. CASE pc' = [pc EXCEPT ![c] = "wait_exiting"] /\ UNCHANGED <<m_mutex, m_mtxBlocking>>
      BY <3>1, <3>2, <3>3, <3>5, ConsumerMoves DEF ConsumerLocs, WaitLocs
    <3> QED
      BY <2>2, <3>4, <3>5 DEF WaitEmpty, WaitReturn
  <2>3. CASE WaitExiting(c, "drain")
    <3>1. pc[c] = "wait_exiting" /\ m_mtxBlocking = c
      BY <2>3 DEF WaitExiting, WaitReturn, Control, Owners, WaitLocs
    <3>2. pc[Context] # "push_notify"
      BY <3>1 DEF Control, NotifySeesSleepers
    <3>3. \A d \in Consumers \ {c} : pc[d] \notin WaitLocs
      BY <3>1 DEF Control, Owners
    <3>4. CASE pc' = [pc EXCEPT ![c] = "drain"] /\ UNCHANGED m_mutex
      BY <3>3, <3>4, ConsumerMoves DEF ConsumerLocs, UpdateLocs, WaitLocs
    <3>5. CASE pc' = [pc EXCEPT ![c] = "wait_block"] /\ UNCHANGED <<m_mutex, m_mtxBlocking>>
      BY <3>1, <3>2, <3>3, <3>5, ConsumerMoves DEF ConsumerLocs, WaitLocs
    <3> QED
      BY <2>3, <3>4, <3>5 DEF WaitExiting, WaitReturn
  <2>4. CASE WaitBlock(c)
    <3>1. /\ pc[c] = "wait_block" /\ m_mtxBlocking = c
          /\ pc' = [pc EXCEPT ![c] = "blocked"] /\ m_mutex' = m_mutex
      BY <2>4 DEF WaitBlock, WaitReturn, Control, Owners, WaitLocs
    <3>2. \A d \in Consumers \ {c} : pc[d] \notin WaitLocs
      BY <3>1 DEF Control, Owners
    <3> QED
      BY <3>1, <3>2, ConsumerMoves DEF ConsumerLocs, SleepLocs, WaitLocs
  <2> QED
    BY <1>4, <2>1, <2>2, <2>3, <2>4 DEF Wait
<1>5. ASSUME NEW c \in Consumers, Drain(c)
      PROVE  Control'
  BY <1>5, ConsumerMoves
     DEF Drain, AfterUpdate, Control, Owners, ConsumerLocs, UpdateLocs, RunLocs, WaitLocs
<1>6. ASSUME NEW c \in Consumers, TakeMessage(c)
      PROVE  Control'
  BY <1>6, ConsumerMoves
     DEF TakeMessage, PopFront, Control, Owners, ConsumerLocs, UpdateLocs, WaitLocs
<1>7. ASSUME NEW c \in Consumers, OnMessage(c)
      PROVE  Control'
  BY <1>7, ConsumerMoves
     DEF OnMessage, Control, Owners, ConsumerLocs, UpdateLocs, WaitLocs
<1>8. ASSUME NEW c \in Consumers, PopFrontEmpty(c)
      PROVE  Control'
  BY <1>8, ControlAborted DEF PopFrontEmpty, Abort
<1>9. ASSUME NEW c \in Consumers, RunBegin(c) \/ RunCheck(c) \/ RunJoin(c)
      PROVE  Control'
  <2>1. CASE RunBegin(c)
    <3>1. /\ pc' = [pc EXCEPT ![c] = "run_check", ![Detector] = "polling"]
          /\ UNCHANGED <<m_mutex, m_mtxBlocking>>
      BY <2>1 DEF RunBegin
    <3>2. /\ pc'[c] = "run_check" /\ pc'[Detector] = "polling"
          /\ \A u \in Threads \ {c, Detector} : pc'[u] = pc[u]
      BY <3>1 DEF TypeOK
    <3>3. Roles'
      BY <3>2 DEF Control, Roles, ConsumerLocs, StopperLocs, RunLocs
    <3>4. Owners'
      BY <3>1, <3>2 DEF Control, Owners, WaitLocs
    <3> QED
      BY <3>2, <3>3, <3>4 DEF Control, NotifySeesSleepers
  <2>2. CASE RunCheck(c)
    BY <2>2, ConsumerMoves
       DEF RunCheck, Control, Owners, ConsumerLocs, UpdateLocs, RunLocs, WaitLocs
  <2>3. CASE RunJoin(c)
    BY <2>3, ConsumerMoves
       DEF RunJoin, Control, Owners, ConsumerLocs, WaitLocs
  <2> QED
    BY <1>9, <2>1, <2>2, <2>3
<1>10. CASE Signal
  <2>1. CASE UNCHANGED queueVars
    BY <2>1 DEF queueVars, Control, Roles, Owners, NotifySeesSleepers
  <2>2. CASE Abort
    BY <2>2, ControlAborted DEF Abort
  <2> QED
    BY <1>10, <2>1, <2>2 DEF Signal
<1>11. CASE DetectShutdown
  <2>1. /\ pc' = [pc EXCEPT ![Detector] = "exit_lock"]
        /\ UNCHANGED <<m_mutex, m_mtxBlocking>>
    BY <1>11 DEF DetectShutdown
  <2> QED
    BY <2>1, StopperMoves DEF TypeOK, StopperLocs, ExitLocs
<1>12. ASSUME NEW s \in Stoppers, StopBegin(s)
       PROVE  Control'
  <2>1. /\ pc' = [pc EXCEPT ![s] = "exit_lock"]
        /\ UNCHANGED <<m_mutex, m_mtxBlocking>>
    BY <1>12 DEF StopBegin
  <2> QED
    BY <2>1, StopperMoves DEF TypeOK, StopperLocs, ExitLocs
<1>13. ASSUME NEW s \in Stoppers \cup {Detector}, ExitWait(s)
       PROVE  Control'
  <2>1. CASE ExitLock(s) \/ ExitSet(s)
    <3>1. \/ pc' = [pc EXCEPT ![s] = "exit_set"]
          \/ pc' = [pc EXCEPT ![s] = "exit_notify"]
      BY <2>1 DEF ExitLock, ExitSet
    <3>2. UNCHANGED <<m_mutex, m_mtxBlocking>>
      BY <2>1 DEF ExitLock, ExitSet
    <3> QED
      BY <3>1, <3>2, StopperMoves DEF TypeOK, StopperLocs, ExitLocs
  <2>2. CASE ExitNotify(s, AfterExitWait(s))
    <3>1. AfterExitWait(s) \in StopperLocs
      BY DEF AfterExitWait, StopperLocs, StopLocs
    <3>2. /\ pc'[s] = AfterExitWait(s)
          /\ \A u \in Threads \ {s} :
                pc'[u] = pc[u] \/ (pc[u] = "blocked" /\ pc'[u] = "woken")
      BY <2>2, NotifyMoves DEF ExitNotify
    <3>3. UNCHANGED <<m_mutex, m_mtxBlocking>>
      BY <2>2 DEF ExitNotify
    <3> QED
      BY <3>1, <3>2, <3>3, StopperMoves
  <2> QED
    BY <1>13, <2>1, <2>2 DEF ExitWait
<1>14. ASSUME NEW s \in Stoppers \cup {Detector}, StopContext(s) \/ JoinContext(s)
       PROVE  Control'
  <2>1. UNCHANGED <<m_mutex, m_mtxBlocking>>
    BY <1>14 DEF StopContext, JoinContext, Abort
  <2>2. CASE \/ pc' = [pc EXCEPT ![s] = "stop_join"]
             \/ pc' = [pc EXCEPT ![s] = "out"]
    BY <2>1, <2>2, StopperMoves DEF TypeOK, StopperLocs, StopLocs
  <2> QED
    BY <1>14, <2>2, ControlAborted DEF StopContext, JoinContext, Abort
<1>15. ASSUME NEW c \in Consumers, Wake(c)
       PROVE  Control'
  BY <1>15, ConsumerMoves
     DEF Wake, SpuriousWake, Control, Owners, ConsumerLocs, SleepLocs, WaitLocs
<1>16. CASE UNCHANGED vars
  BY <1>16 DEF vars, queueVars, Control, Roles, Owners, NotifySeesSleepers
<1> QED
  BY <1>1, <1>2, <1>3, <1>4, <1>5, <1>6, <1>7, <1>8, <1>9, <1>10, <1>11,
     <1>12, <1>13, <1>14, <1>15, <1>16
  DEF Next, Environment, Step, Update

(***************************************************************************)
(* Wakeups.  The invariant of the runs counts sleepers only; its inductive *)
(* form also counts the consumers that have looked at the queue in vain    *)
(* and are on their way to sleep.                                          *)
(***************************************************************************)
Committed ==
    {c \in Consumers : pc[c] \in {"wait_exiting", "wait_block", "blocked"}}

EnoughAwake ==
    Committed # {} => Len(m_queue) <= Cardinality(Attending) + Pushing

WakeInv == TypeOK /\ Budgeted /\ Control /\ EnoughAwake

LEMMA AttendingFinite ==
    /\ IsFiniteSet(Attending) /\ Cardinality(Attending) \in Nat
    /\ IsFiniteSet(Attending') /\ Cardinality(Attending') \in Nat
<1>1. IsFiniteSet(Consumers)
  BY RolesInThreads, ThreadsAssumption, FS_Subset
<1>2. Attending \subseteq Consumers /\ Attending' \subseteq Consumers
  BY DEF Attending
<1> QED
  BY <1>1, <1>2, FS_Subset, FS_CardinalityType

(***************************************************************************)
(* A step after which nobody attends less, no more messages wait and the   *)
(* push is where it was cannot leave a message without a consumer.         *)
(***************************************************************************)
LEMMA StillAwake ==
    ASSUME TypeOK, TypeOK', EnoughAwake,
           Committed' \subseteq Committed,
           Attending \subseteq Attending',
           m_queue' = m_queue, Pushing' = Pushing
    PROVE  EnoughAwake'
<1>1. Cardinality(Attending) <= Cardinality(Attending')
  BY AttendingFinite, FS_Subset
<1>2. Len(m_queue) \in Nat /\ Pushing \in Nat
  BY DEF TypeOK, Pushing
<1> QED
  BY <1>1, <1>2, AttendingFinite DEF EnoughAwake

\* An empty queue needs nobody.
LEMMA EmptyAwake ==
    ASSUME m_queue' = <<>> PROVE EnoughAwake'
<1>1. Len(m_queue') = 0 /\ Pushing' \in Nat
  BY DEF Pushing
<1> QED
  BY <1>1, AttendingFinite DEF EnoughAwake

LEMMA AbortedAwake ==
    pc' = [t \in Threads |-> "aborted"] => EnoughAwake'
BY RolesInThreads DEF EnoughAwake, Committed

(***************************************************************************)
(* A notification that finds a sleeper makes one more consumer attend.     *)
(***************************************************************************)
LEMMA NotifyAttends ==
    ASSUME TypeOK, Budgeted, Control, NEW t \in Threads \ Consumers, NEW to,
           NEW from, from # "blocked", to # "blocked", NotifyOne(t, from, to), nLeft' = nLeft
    PROVE  /\ Committed' \subseteq Committed
           /\ Attending \subseteq Attending'
           /\ Blocked # {} => \E w \in Attending' : w \notin Attending
<1>1. ASSUME NEW c \in Consumers
      PROVE  pc'[c] = pc[c] \/ (pc[c] = "blocked" /\ pc'[c] = "woken")
  BY NotifyMoves, RolesInThreads
<1>2. Committed' \subseteq Committed
  BY <1>1 DEF Committed
<1>3. Attending \subseteq Attending'
  BY <1>1 DEF Attending
<1>4. ASSUME Blocked # {}
      PROVE  \E w \in Attending' : w \notin Attending
  <2>1. PICK w \in Blocked : pc' = [pc EXCEPT ![t] = to, ![w] = "woken"]
    BY <1>4 DEF NotifyOne
  <2>2. w \in Threads /\ pc[w] = "blocked" /\ w # t
    BY <2>1 DEF Blocked, NotifyOne
  <2>3. w \in Consumers
    BY <2>2, RolesAssumption
       DEF Control, Roles, PushLocs, StopperLocs, StopLocs, ExitLocs
  <2>4. pc'[w] = "woken" /\ nLeft[w] > 0
    BY <2>1, <2>2, <2>3 DEF TypeOK, Budgeted, SleepLocs
  <2> QED
    BY <2>2, <2>3, <2>4 DEF Attending
<1> QED
  BY <1>2, <1>3, <1>4

LEMMA WakeInit == Init => EnoughAwake
BY RolesInThreads DEF Init, EnoughAwake, Committed

LEMMA WakeStep == WakeInv /\ [Next]_vars => EnoughAwake'
<1> SUFFICES ASSUME WakeInv, [Next]_vars
             PROVE  EnoughAwake'
    OBVIOUS
<1>a. TypeOK /\ Budgeted /\ Control /\ EnoughAwake
  BY DEF WakeInv
<1>b. TypeOK' /\ Budgeted' /\ Control'
  BY <1>a, TypeStep, ControlStep
<1>c. Len(m_queue) \in Nat /\ Pushing \in 0..1
  BY <1>a DEF TypeOK, Pushing
<1> USE RolesInThreads DEF queueData, Goto
<1>1. CASE AddToIncomingMessageQueue
  <2>1. /\ m_mutex = NoThread /\ pc' = [pc EXCEPT ![Context] = "push_blocking"]
        /\ nLeft' = nLeft
    BY <1>1 DEF AddToIncomingMessageQueue, PushInsert
  <2>2. Pushing = 0 /\ Pushing' = 1
    BY <1>a, <2>1 DEF Pushing, PushLocs, TypeOK, Control, Owners
  <2>3. PICK m \in Items : m_queue' = Append(m_queue, m)
    BY <1>1 DEF AddToIncomingMessageQueue, PushInsert
  <2>4. Len(m_queue') = Len(m_queue) + 1
    BY <1>a, <2>3 DEF TypeOK
  <2>5. Committed' = Committed /\ Attending' = Attending
    BY <1>a, <2>1 DEF Committed, Attending, TypeOK
  <2> QED
    BY <1>a, <1>c, <2>2, <2>4, <2>5, AttendingFinite DEF EnoughAwake
<1>2. CASE FinishPush
  <2>1. m_queue' = m_queue /\ nLeft' = nLeft
    BY <1>2 DEF FinishPush, PushBlocking, PushNotify, loopVars
  <2>2. CASE PushBlocking(Context)
    <3>1. Committed' = Committed /\ Attending' = Attending /\ Pushing' = Pushing
      BY <1>a, <2>1, <2>2 DEF PushBlocking, Committed, Attending, Pushing, PushLocs, TypeOK
    <3> QED
      BY <1>a, <1>b, <2>1, <3>1, StillAwake
  <2>3. CASE PushNotify(Context, "out")
    <3>1. /\ Committed' \subseteq Committed /\ Attending \subseteq Attending'
          /\ Blocked # {} => \E w \in Attending' : w \notin Attending
      BY <1>a, <2>1, <2>3, NotifyAttends DEF PushNotify
    <3>2. Blocked = {} => Committed = {}
      BY <1>a, <2>3 DEF PushNotify, NotifyOne, Control, NotifySeesSleepers, Committed, Blocked
    <3>3. Pushing = 1
      BY <2>3 DEF PushNotify, NotifyOne, Pushing, PushLocs
    <3>4. CASE Blocked = {}
      BY <3>1, <3>2, <3>4 DEF EnoughAwake
    <3>5. CASE Blocked # {}
      <4>1. PICK w \in Attending' : w \notin Attending
        BY <3>1, <3>5
      <4>2. Cardinality(Attending \cup {w}) = Cardinality(Attending) + 1
        BY <4>1, AttendingFinite, FS_AddElement
      <4>3. Cardinality(Attending \cup {w}) <= Cardinality(Attending')
        BY <3>1, <4>1, AttendingFinite, FS_Subset
      <4>4. Pushing' \in Nat
        BY DEF Pushing
      <4> QED
        BY <1>a, <1>c, <2>1, <3>1, <3>3, <4>2, <4>3, <4>4, AttendingFinite DEF EnoughAwake
    <3> QED
      BY <3>4, <3>5
  <2> QED
    BY <1>2, <2>2, <2>3 DEF FinishPush
<1>3. ASSUME NEW c \in Consumers, UpdateBegin(c)
      PROVE  EnoughAwake'
  <2>1. pc[c] = "out" /\ pc'[c] \in {"update_wait", "drain"}
    BY <1>a, <1>3 DEF UpdateBegin, TypeOK
  <2>2. \A d \in Consumers \ {c} : pc'[d] = pc[d] /\ nLeft'[d] = nLeft[d]
    BY <1>a, <1>3 DEF UpdateBegin, TypeOK
  <2>3. Committed' \subseteq Committed /\ Attending \subseteq Attending'
    BY <2>1, <2>2 DEF Committed, Attending
  <2>4. m_queue' = m_queue /\ Pushing' = Pushing
    BY <1>a, <1>3 DEF UpdateBegin, TypeOK, Pushing
  <2> QED
    BY <1>a, <1>b, <2>3, <2>4, StillAwake
<1>4. ASSUME NEW c \in Consumers, Wait(c)
      PROVE  EnoughAwake'
  <2>1. m_queue' = m_queue /\ nLeft' = nLeft
    BY <1>4 DEF Wait, WaitLock, WaitEmpty, WaitExiting, WaitBlock, loopVars
  <2>2. PICK to \in {"wait_empty", "drain", "wait_exiting", "wait_block", "blocked"} :
            pc' = [pc EXCEPT ![c] = to]
    BY <1>4 DEF Wait, WaitLock, WaitEmpty, WaitExiting, WaitBlock, WaitReturn
  <2>3. /\ pc'[c] = to /\ \A d \in Consumers \ {c} : pc'[d] = pc[d]
        /\ Pushing' = Pushing
    BY <1>a, <2>2 DEF TypeOK, Pushing
  <2>4. pc[c] \in WaitLocs \cup SleepLocs => nLeft[c] > 0
    BY <1>a DEF Budgeted
  <2>5. CASE to \in {"wait_empty", "drain"}
    <3>1. Committed' \subseteq Committed
      BY <2>3, <2>5 DEF Committed
    <3>2. pc[c] \in {"update_wait", "woken"} \cup WaitLocs
      BY <1>4 DEF Wait, WaitLock, WaitEmpty, WaitExiting, WaitBlock, WaitReturn, WaitLocs
    <3>3. Attending \subseteq Attending'
      BY <2>1, <2>3, <2>4, <2>5, <3>2 DEF Attending, WaitLocs
    <3> QED
      BY <1>a, <1>b, <2>1, <2>3, <3>1, <3>3, StillAwake
  <2>6. CASE to = "wait_exiting"
    <3>1. m_queue = <<>>
      BY <1>a, <1>4, <2>3, <2>6
         DEF Wait, WaitLock, WaitEmpty, WaitExiting, WaitBlock, WaitReturn, TypeOK
    <3> QED
      BY <2>1, <3>1, EmptyAwake
  <2>7. CASE to \in {"wait_block", "blocked"}
    <3>1. pc[c] \in {"wait_exiting", "wait_block"}
      BY <1>a, <1>4, <2>3, <2>7
         DEF Wait, WaitLock, WaitEmpty, WaitExiting, WaitBlock, WaitReturn, TypeOK
    <3>2. Committed' \subseteq Committed /\ Attending \subseteq Attending'
      BY <2>1, <2>3, <2>7, <3>1 DEF Committed, Attending
    <3> QED
      BY <1>a, <1>b, <2>1, <2>3, <3>2, StillAwake
  <2> QED
    BY <2>2, <2>5, <2>6, <2>7
<1>5. ASSUME NEW c \in Consumers, Drain(c)
      PROVE  EnoughAwake'
  <2>1. m_queue' = m_queue /\ nLeft' = nLeft /\ pc[c] = "drain"
    BY <1>5 DEF Drain, loopVars
  <2>2. CASE nLeft[c] > 0 /\ SeenNonEmpty /\ pc' = [pc EXCEPT ![c] = "pop"]
    <3>1. Committed' \subseteq Committed /\ Attending \subseteq Attending' /\ Pushing' = Pushing
      BY <1>a, <2>1, <2>2 DEF TypeOK, Committed, Attending, Pushing
    <3> QED
      BY <1>a, <1>b, <2>1, <3>1, StillAwake
  <2>3. CASE nLeft[c] = 0 /\ pc' = [pc EXCEPT ![c] = AfterUpdate(c)]
    <3>1. pc'[c] \in {"run_check", "out"} /\ \A t \in Threads \ {c} : pc'[t] = pc[t]
      BY <1>a, <2>3 DEF TypeOK, AfterUpdate
    <3>2. Committed' \subseteq Committed /\ Attending \subseteq Attending' /\ Pushing' = Pushing
      BY <1>a, <2>1, <2>3, <3>1 DEF Committed, Attending, Pushing
    <3> QED
      BY <1>a, <1>b, <2>1, <3>2, StillAwake
  <2>4. CASE SeenEmpty
    BY <2>1, <2>4, EmptyAwake DEF SeenEmpty
  <2> QED
    BY <1>5, <2>2, <2>3, <2>4 DEF Drain
<1>6. ASSUME NEW c \in Consumers, TakeMessage(c)
      PROVE  EnoughAwake'
  <2>1. /\ m_queue # <<>> /\ m_queue' = Tail(m_queue) /\ nLeft' = nLeft
        /\ pc[c] = "pop" /\ pc' = [pc EXCEPT ![c] = "handle"]
    BY <1>6 DEF TakeMessage, PopFront, SeenNonEmpty
  <2>2. Len(m_queue') = Len(m_queue) - 1
    BY <1>a, <2>1 DEF TypeOK
  <2>3. Committed' = Committed /\ Attending \ {c} \subseteq Attending' /\ Pushing' = Pushing
    BY <1>a, <2>1 DEF TypeOK, Committed, Attending, Pushing
  <2>4. Cardinality(Attending) - 1 <= Cardinality(Attending \ {c})
    <3>1. Cardinality(Attending \ {c}) =
              IF c \in Attending THEN Cardinality(Attending) - 1 ELSE Cardinality(Attending)
      BY AttendingFinite, FS_RemoveElement
    <3> QED
      BY <3>1, AttendingFinite
  <2>5. Cardinality(Attending \ {c}) <= Cardinality(Attending')
    BY <2>3, AttendingFinite, FS_Subset
  <2>6. Cardinality(Attending \ {c}) \in Nat
    BY AttendingFinite, FS_RemoveElement, FS_CardinalityType
  <2> QED
    BY <1>a, <1>c, <2>2, <2>3, <2>4, <2>5, <2>6, AttendingFinite DEF EnoughAwake
<1>7. ASSUME NEW c \in Consumers, OnMessage(c)
      PROVE  EnoughAwake'
  <2>1. /\ m_queue' = m_queue /\ pc[c] = "handle" /\ pc' = [pc EXCEPT ![c] = "drain"]
        /\ nLeft' = [nLeft EXCEPT ![c] = @ - 1]
    BY <1>7 DEF OnMessage
  <2>2. pc'[c] = "drain" /\ nLeft'[c] = nLeft[c] - 1 /\ nLeft[c] \in Nat
    BY <1>a, <2>1, BoundsAssumption DEF TypeOK
  <2>3. \A d \in Consumers \ {c} : pc'[d] = pc[d] /\ nLeft'[d] = nLeft[d]
    BY <1>a, <2>1 DEF TypeOK
  <2>4. Committed' \subseteq Committed /\ Pushing' = Pushing
    BY <1>a, <2>1 DEF TypeOK, Committed, Pushing
  <2>5. Attending \subseteq Attending'
    BY <2>1, <2>2, <2>3 DEF Attending
  <2> QED
    BY <1>a, <1>b, <2>1, <2>4, <2>5, StillAwake
<1>8. ASSUME NEW c \in Consumers, PopFrontEmpty(c)
      PROVE  EnoughAwake'
  BY <1>8, AbortedAwake DEF PopFrontEmpty, Abort
<1>9. ASSUME NEW c \in Consumers, RunBegin(c) \/ RunCheck(c) \/ RunJoin(c)
      PROVE  EnoughAwake'
  <2>1. m_queue' = m_queue /\ pc[c] \in {"out", "run_check", "run_join"}
    BY <1>9 DEF RunBegin, RunCheck, RunJoin
  <2>2. /\ pc'[c] \in {"run_check", "run_join", "update_wait", "out"}
        /\ \A d \in Consumers \ {c} : pc'[d] = pc[d] /\ nLeft'[d] = nLeft[d]
        /\ pc'[Context] = pc[Context]
    <3>1. CASE RunBegin(c)
      BY <1>a, <3>1 DEF RunBegin, TypeOK
    <3>2. CASE RunCheck(c)
      BY <1>a, <3>2 DEF RunCheck, TypeOK
    <3>3. CASE RunJoin(c)
      BY <1>a, <3>3 DEF RunJoin, TypeOK
    <3> QED
      BY <1>9, <3>1, <3>2, <3>3
  <2>3. Committed' \subseteq Committed /\ Attending \subseteq Attending' /\ Pushing' = Pushing
    BY <2>1, <2>2 DEF Committed, Attending, Pushing
  <2> QED
    BY <1>a, <1>b, <2>1, <2>3, StillAwake
<1>10. CASE Signal
  <2>1. CASE UNCHANGED queueVars
    <3>1. m_queue' = m_queue /\ pc' = pc /\ nLeft' = nLeft
      BY <1>10, <2>1 DEF queueVars, Signal
    <3> QED
      BY <1>a, <1>b, <3>1, StillAwake DEF Committed, Attending, Pushing
  <2>2. CASE Abort
    BY <2>2, AbortedAwake DEF Abort
  <2> QED
    BY <1>10, <2>1, <2>2 DEF Signal
<1>11. ASSUME NEW s \in Stoppers \cup {Detector}, NEW to, m_queue' = m_queue, nLeft' = nLeft,
              pc' = [pc EXCEPT ![s] = to], to \notin PushLocs
       PROVE  EnoughAwake'
  <2>1. Committed' \subseteq Committed /\ Attending \subseteq Attending' /\ Pushing' = Pushing
    BY <1>a, <1>11 DEF TypeOK, Committed, Attending, Pushing
  <2> QED
    BY <1>a, <1>b, <1>11, <2>1, StillAwake
<1>12. CASE DetectShutdown
  BY <1>11, <1>12 DEF DetectShutdown, loopVars, PushLocs
<1>13. ASSUME NEW s \in Stoppers, StopBegin(s)
       PROVE  EnoughAwake'
  BY <1>11, <1>13 DEF StopBegin, loopVars, PushLocs
<1>14. ASSUME NEW s \in Stoppers \cup {Detector}, ExitWait(s)
       PROVE  EnoughAwake'
  <2>1. CASE ExitLock(s) \/ ExitSet(s)
    BY <1>11, <1>14, <2>1 DEF ExitWait, ExitLock, ExitSet, loopVars, PushLocs
  <2>2. CASE ExitNotify(s, AfterExitWait(s))
    <3>1. AfterExitWait(s) \in {"out", "stop_context"}
      BY DEF AfterExitWait
    <3>2. m_queue' = m_queue /\ nLeft' = nLeft
      BY <1>14, <2>2 DEF ExitWait, ExitNotify, loopVars
    <3>3. Committed' \subseteq Committed /\ Attending \subseteq Attending'
      BY <1>a, <2>2, <3>1, <3>2, NotifyAttends DEF ExitNotify
    <3>4. pc'[Context] = pc[Context] \/ (pc[Context] = "blocked" /\ pc'[Context] = "woken")
      BY <1>a, <2>2, NotifyMoves DEF ExitNotify
    <3>5. Pushing' = Pushing
      BY <1>a, <3>4 DEF Pushing, PushLocs
    <3> QED
      BY <1>a, <1>b, <3>2, <3>3, <3>5, StillAwake
  <2> QED
    BY <1>14, <2>1, <2>2 DEF ExitWait
<1>15. ASSUME NEW s \in Stoppers \cup {Detector}, StopContext(s) \/ JoinContext(s)
       PROVE  EnoughAwake'
  <2>1. CASE Abort
    BY <2>1, AbortedAwake DEF Abort
  <2>2. CASE ~Abort
    <3>1. \/ pc' = [pc EXCEPT ![s] = "stop_join"]
          \/ pc' = [pc EXCEPT ![s] = "out"]
      BY <1>15, <2>2 DEF StopContext, JoinContext
    <3>2. m_queue' = m_queue /\ nLeft' = nLeft
      BY <1>15, <2>2 DEF StopContext, JoinContext
    <3> QED
      BY <1>11, <3>1, <3>2 DEF PushLocs
  <2> QED
    BY <2>1, <2>2
<1>16. ASSUME NEW c \in Consumers, Wake(c)
       PROVE  EnoughAwake'
  <2>1. /\ m_queue' = m_queue /\ nLeft' = nLeft /\ pc[c] = "blocked"
        /\ pc' = [pc EXCEPT ![c] = "woken"]
    BY <1>16 DEF Wake, SpuriousWake, loopVars
  <2>2. Committed' \subseteq Committed /\ Attending \subseteq Attending' /\ Pushing' = Pushing
    BY <1>a, <2>1 DEF TypeOK, Committed, Attending, Pushing
  <2> QED
    BY <1>a, <1>b, <2>1, <2>2, StillAwake
<1>17. CASE UNCHANGED vars
  BY <1>17, <1>a, <1>b, StillAwake DEF vars, queueVars, Committed, Attending, Pushing
<1> QED
  BY <1>1, <1>2, <1>3, <1>4, <1>5, <1>6, <1>7, <1>8, <1>9, <1>10, <1>12,
     <1>13, <1>14, <1>15, <1>16, <1>17
  DEF Next, Environment, Step, Update

THEOREM WakeInvariant == Spec => []WakeInv
<1>1. Init => WakeInv
  BY TypeInit, ControlInit, WakeInit DEF WakeInv
<1>2. WakeInv /\ [Next]_vars => WakeInv'
  BY TypeStep, ControlStep, WakeStep DEF WakeInv
<1> QED
  BY <1>1, <1>2, PTL DEF Spec

(***************************************************************************)
(* While a consumer sleeps in wait(), every queued message has a consumer  *)
(* that is awake for it or a notification still to come, however many      *)
(* consumers there are.                                                    *)
(***************************************************************************)
THEOREM NoLostWakeup == Spec => []WokenForEveryMessage
<1>1. WakeInv => WokenForEveryMessage
  <2> SUFFICES ASSUME WakeInv, Blocked # {} PROVE Committed # {}
    BY DEF WakeInv, EnoughAwake, WokenForEveryMessage
  <2>1. PICK w \in Threads : pc[w] = "blocked"
    BY DEF Blocked
  <2>2. w \in Consumers
    BY <2>1, RolesAssumption
       DEF WakeInv, Control, Roles, PushLocs, StopperLocs, StopLocs, ExitLocs
  <2> QED
    BY <2>1, <2>2 DEF Committed
<1> QED
  BY <1>1, WakeInvariant, PTL

-----------------------------------------------------------------------------
(***************************************************************************)
(* What a step does to the messages: one arrives, one is taken, one is     *)
(* handed to OnMessage, or nothing happens to any, and then no consumer    *)
(* comes to "handle", and to "pop" only one that saw a message.            *)
(***************************************************************************)
Arrival ==
    /\ \E m \in Items : m_queue' = Append(m_queue, m)
    /\ UNCHANGED <<hand, handled>>
    /\ \A c \in Consumers : pc'[c] = pc[c]

Quiet ==
    /\ UNCHANGED <<m_queue, hand, handled>>
    /\ \A c \in Consumers :
          \/ pc'[c] = "aborted"
          \/ /\ pc'[c] = "handle" <=> pc[c] = "handle"
             /\ pc[c] # "aborted"
             /\ pc'[c] = "pop" => pc[c] = "pop" \/ m_queue # <<>>

LEMMA DataStep ==
    ASSUME TypeOK, Control, [Next]_vars
    PROVE  \/ Arrival \/ Quiet
           \/ \E c \in Consumers : TakeMessage(c) \/ OnMessage(c)
<1> USE RolesInThreads DEF queueData
<1>1. CASE AddToIncomingMessageQueue
  BY <1>1 DEF AddToIncomingMessageQueue, PushInsert, Goto, Arrival, TypeOK
<1>2. CASE FinishPush
  <2>1. UNCHANGED <<m_queue, hand, handled>>
    BY <1>2 DEF FinishPush, PushBlocking, PushNotify, loopVars
  <2>2. \A c \in Consumers :
            pc'[c] = pc[c] \/ (pc[c] = "blocked" /\ pc'[c] = "woken")
    <3>1. CASE PushBlocking(Context)
      BY <3>1 DEF PushBlocking, Goto, TypeOK
    <3>2. CASE PushNotify(Context, "out")
      BY <3>2, NotifyMoves DEF PushNotify
    <3> QED BY <1>2, <3>1, <3>2 DEF FinishPush
  <2> QED BY <2>1, <2>2 DEF Quiet
<1>3. ASSUME NEW c \in Consumers, UpdateBegin(c) PROVE Quiet
  BY <1>3 DEF UpdateBegin, Goto, Quiet, TypeOK
<1>4. ASSUME NEW c \in Consumers, Wait(c) PROVE Quiet
  BY <1>4 DEF Wait, WaitLock, WaitEmpty, WaitExiting, WaitBlock, WaitReturn, Goto, loopVars,
              Quiet, TypeOK
<1>5. ASSUME NEW c \in Consumers, Drain(c) PROVE Quiet
  BY <1>5 DEF Drain, SeenNonEmpty, AfterUpdate, Goto, loopVars, Quiet, TypeOK
<1>6. ASSUME NEW c \in Consumers, PopFrontEmpty(c) PROVE Quiet
  BY <1>6 DEF PopFrontEmpty, Abort, loopVars, Quiet
<1>7. ASSUME NEW c \in Consumers, RunBegin(c) \/ RunCheck(c) \/ RunJoin(c) PROVE Quiet
  BY <1>7 DEF RunBegin, RunCheck, RunJoin, Goto, Quiet, TypeOK
<1>8. CASE Signal
  BY <1>8 DEF Signal, Abort, queueVars, Quiet, TypeOK
<1>9. CASE DetectShutdown
  BY <1>9 DEF DetectShutdown, Goto, loopVars, Quiet, TypeOK
<1>10. ASSUME NEW s \in Stoppers, StopBegin(s) PROVE Quiet
  BY <1>10 DEF StopBegin, Goto, loopVars, Quiet, TypeOK
<1>11. ASSUME NEW s \in Stoppers \cup {Detector},
              ExitWait(s) \/ StopContext(s) \/ JoinContext(s)
       PROVE  Quiet
  <2>1. s \in Threads /\ \A c \in Consumers : c # s
    OBVIOUS
  <2>2. CASE ExitLock(s) /\ UNCHANGED loopVars
    BY <2>1, <2>2 DEF ExitLock, Goto, loopVars, Quiet, TypeOK
  <2>3. CASE ExitSet(s) /\ UNCHANGED loopVars
    BY <2>1, <2>3 DEF ExitSet, Goto, loopVars, Quiet, TypeOK
  <2>4. CASE ExitNotify(s, AfterExitWait(s)) /\ UNCHANGED loopVars
    <3>1. \A c \in Consumers :
              pc'[c] = pc[c] \/ (pc[c] = "blocked" /\ pc'[c] = "woken")
      BY <2>1, <2>4, NotifyMoves DEF ExitNotify
    <3> QED BY <2>4, <3>1 DEF ExitNotify, loopVars, Quiet
  <2>5. CASE StopContext(s)
    BY <2>1, <2>5 DEF StopContext, Abort, Goto, Quiet, TypeOK
  <2>6. CASE JoinContext(s)
    BY <2>1, <2>6 DEF JoinContext, Goto, Quiet, TypeOK
  <2> QED BY <1>11, <2>2, <2>3, <2>4, <2>5, <2>6 DEF ExitWait
<1>12. ASSUME NEW c \in Consumers, Wake(c) PROVE Quiet
  BY <1>12 DEF Wake, SpuriousWake, Goto, loopVars, Quiet, TypeOK
<1>13. CASE UNCHANGED vars
  BY <1>13 DEF vars, queueVars, Quiet
<1> QED
  BY <1>1, <1>2, <1>3, <1>4, <1>5, <1>6, <1>7, <1>8, <1>9, <1>10, <1>11, <1>12, <1>13
  DEF Next, Environment, Step, Update

\* A message that OnMessage is called with is in the consumer's hand, and
\* nothing is there otherwise, unless the process has ended.
HandHeld == \A c \in Consumers : pc[c] = "handle" => hand[c] # <<>>
HandFree == \A c \in Consumers : pc[c] \notin {"handle", "aborted"} => hand[c] = <<>>

LEMMA HandStep == TypeOK /\ Control /\ HandHeld /\ [Next]_vars => HandHeld'
<1> SUFFICES ASSUME TypeOK, Control, HandHeld, [Next]_vars PROVE HandHeld'
    OBVIOUS
<1>1. CASE Arrival \/ Quiet
  BY <1>1 DEF Arrival, Quiet, HandHeld
<1>2. ASSUME NEW c \in Consumers, TakeMessage(c) \/ OnMessage(c) PROVE HandHeld'
  <2>1. /\ pc' = [pc EXCEPT ![c] = IF TakeMessage(c) THEN "handle" ELSE "drain"]
        /\ hand' = [hand EXCEPT ![c] = IF TakeMessage(c) THEN <<Head(m_queue)>> ELSE <<>>]
    <3>1. CASE TakeMessage(c)
      BY <3>1 DEF TakeMessage, PopFront, Goto
    <3>2. CASE OnMessage(c) /\ ~TakeMessage(c)
      BY <3>2 DEF OnMessage, Goto
    <3> QED BY <1>2, <3>1, <3>2
  <2> QED BY <2>1, RolesInThreads DEF HandHeld, TypeOK
<1> QED BY <1>1, <1>2, DataStep

LEMMA HandOfMessage ==
    ASSUME TypeOK, HandHeld, NEW c \in Consumers, pc[c] = "handle"
    PROVE  \E m \in Items : hand[c] = <<m>>
BY DEF TypeOK, HandHeld

-----------------------------------------------------------------------------
(***************************************************************************)
(* One consumer.  Its hand is empty but at "handle", and at "pop" there is *)
(* a message, since nobody else takes one.  Then every step is one of the  *)
(* channel or leaves the channel as it is.                                 *)
(***************************************************************************)
ChannelInv == WakeInv /\ HandHeld /\ HandFree /\ NoPopFromEmpty

LEMMA OnlyConsumer ==
    ASSUME Cardinality(Consumers) = 1
    PROVE  \E c : Consumers = {c}
<1>1. IsFiniteSet(Consumers)
  BY RolesInThreads, ThreadsAssumption, FS_Subset
<1> QED BY <1>1, FS_Singleton

LEMMA ChannelInit == Init => ChannelInv
<1> SUFFICES ASSUME Init PROVE ChannelInv
    OBVIOUS
<1>1. WakeInv
  BY TypeInit, ControlInit, WakeInit DEF WakeInv
<1>2. HandHeld /\ HandFree /\ NoPopFromEmpty
  BY RolesInThreads DEF Init, HandHeld, HandFree, NoPopFromEmpty
<1> QED BY <1>1, <1>2 DEF ChannelInv

LEMMA ChannelInvStep == ChannelInv /\ [Next]_vars => ChannelInv'
<1> SUFFICES ASSUME ChannelInv, [Next]_vars PROVE ChannelInv'
    OBVIOUS
<1> TypeOK /\ Control
  BY DEF ChannelInv, WakeInv
<1>1. WakeInv' /\ HandHeld'
  BY TypeStep, ControlStep, WakeStep, HandStep DEF ChannelInv, WakeInv
<1>2. CASE Arrival
  <2>1. m_queue' # <<>>
    BY <1>2 DEF Arrival, TypeOK
  <2> QED BY <1>1, <1>2, <2>1 DEF Arrival, ChannelInv, HandFree, NoPopFromEmpty
<1>3. CASE Quiet
  BY <1>1, <1>3 DEF Quiet, ChannelInv, HandFree, NoPopFromEmpty
<1>4. ASSUME NEW c \in Consumers, TakeMessage(c)
      PROVE  ChannelInv'
  <2>1. /\ pc' = [pc EXCEPT ![c] = "handle"]
        /\ hand' = [hand EXCEPT ![c] = <<Head(m_queue)>>]
    BY <1>4 DEF TakeMessage, PopFront, Goto
  <2>2. HandFree'
    BY <2>1, RolesInThreads DEF ChannelInv, HandFree, TypeOK
  <2>3. NoPopFromEmpty'
    <3> SUFFICES ASSUME Cardinality(Consumers) = 1 PROVE \A d \in Consumers : pc'[d] # "pop"
        BY DEF NoPopFromEmpty
    <3> QED BY <2>1, OnlyConsumer, RolesInThreads DEF TypeOK
  <2> QED BY <1>1, <2>2, <2>3 DEF ChannelInv
<1>5. ASSUME NEW c \in Consumers, OnMessage(c)
      PROVE  ChannelInv'
  <2>1. /\ pc' = [pc EXCEPT ![c] = "drain"] /\ m_queue' = m_queue
        /\ hand' = [hand EXCEPT ![c] = <<>>]
    BY <1>5 DEF OnMessage, Goto, queueData
  <2>2. HandFree' /\ NoPopFromEmpty'
    BY <2>1, RolesInThreads DEF ChannelInv, HandFree, NoPopFromEmpty, TypeOK
  <2> QED BY <1>1, <2>2 DEF ChannelInv
<1> QED BY <1>2, <1>3, <1>4, <1>5, DataStep

THEOREM ChannelInvariant == Spec => []ChannelInv
<1> QED BY ChannelInit, ChannelInvStep, PTL DEF Spec

(***************************************************************************)
(* With one consumer, who finds the queue non-empty under one lock finds a *)
(* message there under the next, whatever else goes on.                    *)
(***************************************************************************)
THEOREM NeverPopsEmpty == Spec => []NoPopFromEmpty
<1>1. ChannelInv => NoPopFromEmpty
  BY DEF ChannelInv
<1> QED BY <1>1, ChannelInvariant, PTL

LEMMA ChannelStep ==
    ASSUME Cardinality(Consumers) = 1, ChannelInv, [Next]_vars
    PROVE  [Channel!Next]_(Channel!vars)
<1> DEFINE only == CHOOSE c \in Consumers : TRUE
<1>1. only \in Consumers /\ \A c \in Consumers : c = only
  BY OnlyConsumer
<1> TypeOK /\ Control
  BY DEF ChannelInv, WakeInv
<1> HIDE DEF only
<1> DEFINE pending == hand[only] \o m_queue
<1>2. /\ m_queue \in Seq(Items) /\ handled \in Seq(Items)
      /\ hand[only] \in Seq(Items) /\ pending \in Seq(Items)
  <2>1. m_queue \in Seq(Items) /\ handled \in Seq(Items)
    BY DEF TypeOK
  <2>2. hand[only] = <<>> \/ \E m \in Items : hand[only] = <<m>>
    BY <1>1 DEF TypeOK
  <2>3. \A m \in Items : <<m>> \in Seq(Items)
    OBVIOUS
  <2>4. <<>> \in Seq(Items)
    OBVIOUS
  <2>5. hand[only] \in Seq(Items)
    BY <2>2, <2>3, <2>4, Zenon
  <2> QED BY <2>1, <2>5
<1>3. CASE Arrival
  <2>1. PICK m \in Items : m_queue' = Append(m_queue, m)
    BY <1>3 DEF Arrival
  <2>2. \A h \in Seq(Items) : h \o Append(m_queue, m) = Append(h \o m_queue, m)
    BY <1>2
  <2>3. hand' = hand /\ handled' = handled
    BY <1>3 DEF Arrival
  <2>4. pending' = Append(pending, m) /\ handled' = handled
    BY <1>2, <2>1, <2>2, <2>3
  <2> QED BY <2>4 DEF Channel!Next, Channel!Accept, only
<1>4. CASE Quiet
  BY <1>4 DEF Quiet, Channel!vars
<1>5. ASSUME NEW c \in Consumers, TakeMessage(c)
      PROVE  UNCHANGED <<pending, handled>>
  <2>1. /\ m_queue # <<>> /\ m_queue' = Tail(m_queue) /\ handled' = handled
        /\ hand' = [hand EXCEPT ![c] = <<Head(m_queue)>>] /\ pc[c] = "pop"
    BY <1>5 DEF TakeMessage, PopFront, SeenNonEmpty, Goto
  <2>2. c = only /\ hand[only] = <<>> /\ hand'[only] = <<Head(m_queue)>>
    BY <1>1, <2>1 DEF ChannelInv, HandFree, TypeOK
  <2>3. <<Head(m_queue)>> \o Tail(m_queue) = <<>> \o m_queue
    BY <1>2, <2>1
  <2> QED BY <2>1, <2>2, <2>3
<1>6. ASSUME NEW c \in Consumers, OnMessage(c)
      PROVE  /\ pending # <<>> /\ pending' = Tail(pending)
             /\ handled' = Append(handled, Head(pending))
  <2>1. /\ pc[c] = "handle" /\ m_queue' = m_queue
        /\ handled' = handled \o hand[c] /\ hand' = [hand EXCEPT ![c] = <<>>]
    BY <1>6 DEF OnMessage, Goto, queueData
  <2>2. PICK m \in Items : hand[c] = <<m>>
    BY <2>1, HandOfMessage DEF ChannelInv
  <2>3. c = only /\ hand[only] = <<m>> /\ hand'[only] = <<>>
    BY <1>1, <2>1, <2>2 DEF TypeOK
  <2>4. /\ <<m>> \o m_queue # <<>> /\ Tail(<<m>> \o m_queue) = <<>> \o m_queue
        /\ Head(<<m>> \o m_queue) = m /\ handled \o <<m>> = Append(handled, m)
    BY <1>2
  <2> QED BY <2>1, <2>2, <2>3, <2>4
<1> QED
  BY <1>3, <1>4, <1>5, <1>6, DataStep
  DEF Channel!Next, Channel!Deliver, Channel!vars, only

(***************************************************************************)
(* One consumer, and the queue with the threads around it is the channel:  *)
(* every message pushed is handed to OnMessage once, in the order of the   *)
(* pushes, whoever calls Update(), Run(), Stop() or exit_wait meanwhile.   *)
(***************************************************************************)
THEOREM QueueIsChannel ==
    ASSUME Cardinality(Consumers) = 1
    PROVE  Spec => ImplementsChannel
<1>1. Init => Channel!Init
  <2> SUFFICES ASSUME Init PROVE Channel!Init
      OBVIOUS
  <2>1. hand[CHOOSE c \in Consumers : TRUE] = <<>>
    BY OnlyConsumer DEF Init
  <2> QED BY <2>1 DEF Init, Channel!Init
<1>2. ChannelInv /\ [Next]_vars => [Channel!Next]_(Channel!vars)
  BY ChannelStep
<1> QED BY <1>1, <1>2, ChannelInvariant, PTL DEF Spec, ImplementsChannel, Channel!Spec

=============================================================================
