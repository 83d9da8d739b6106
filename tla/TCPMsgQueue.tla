---------------------------- MODULE TCPMsgQueue ----------------------------
(***************************************************************************)
(* TCPMsgQueue<T> (TCPMsgQueue.h): a deque under m_mutex, and a second     *)
(* mutex m_mtxBlocking with the condition variable m_cvBlocking on which   *)
(* wait() sleeps.  Each operation is cut where another thread can get in   *)
(* between: at every lock that may have to wait, at the read of the atomic *)
(* flag, at the moment the condition variable goes to sleep, and at the    *)
(* notification.  An empty critical section ({ unique_lock ul(...); }) is  *)
(* one step that needs the mutex free.                                     *)
(*                                                                         *)
(* The module holds the operations only.  Who calls them, and from where   *)
(* to where (the `from`, `to` and `ret` parameters), is RunLoop's matter.  *)
(***************************************************************************)
EXTENDS Naturals, Sequences, FiniteSets

CONSTANTS Threads,    \* every thread that touches the queue
          NoThread    \* the owner of a mutex nobody holds

ASSUME ThreadsAssumption == IsFiniteSet(Threads) /\ NoThread \notin Threads

VARIABLES m_queue, m_mutex, m_mtxBlocking, m_bExiting,
          pc          \* where each thread is

queueData == <<m_queue, m_mutex, m_mtxBlocking, m_bExiting>>
queueVars == <<m_queue, m_mutex, m_mtxBlocking, m_bExiting, pc>>

\* Locations inside push_back: both are inside the m_mutex section.
PushLocs == {"push_blocking", "push_notify"}

\* Locations inside wait() where m_mtxBlocking is held.
WaitLocs == {"wait_empty", "wait_exiting", "wait_block"}

\* The wait set of m_cvBlocking, and exit_wait.
SleepLocs == {"blocked", "woken"}
ExitLocs == {"exit_lock", "exit_set", "exit_notify"}

Blocked == {t \in Threads : pc[t] = "blocked"}

Goto(t, from, to) == pc[t] = from /\ pc' = [pc EXCEPT ![t] = to]

\* notify_one: one sleeper, if there is any, leaves the wait set.
NotifyOne(t, from, to) ==
    /\ pc[t] = from
    /\ \/ Blocked = {} /\ pc' = [pc EXCEPT ![t] = to]
       \/ \E w \in Blocked : pc' = [pc EXCEPT ![t] = to, ![w] = "woken"]

-----------------------------------------------------------------------------
(* push_back: lock m_mutex and insert; pass through m_mtxBlocking; notify   *)
(* and, at the end of the scope, unlock m_mutex.                            *)

\* Mutant: the message goes to the front, as in push_front.
PushInsertFront(t, item, from) ==
    /\ m_mutex = NoThread
    /\ Goto(t, from, "push_blocking")
    /\ m_mutex' = t
    /\ m_queue' = <<item>> \o m_queue
    /\ UNCHANGED <<m_mtxBlocking, m_bExiting>>

PushInsert(t, item, from) ==
    /\ m_mutex = NoThread
    /\ Goto(t, from, "push_blocking")
    /\ m_mutex' = t
    /\ m_queue' = Append(m_queue, item)
    /\ UNCHANGED <<m_mtxBlocking, m_bExiting>>

\* Mutant: no pass through m_mtxBlocking.
PushPastBlocking(t) ==
    /\ Goto(t, "push_blocking", "push_notify")
    /\ UNCHANGED queueData

PushBlocking(t) ==
    /\ m_mtxBlocking = NoThread
    /\ Goto(t, "push_blocking", "push_notify")
    /\ UNCHANGED queueData

\* Mutant: no notification.
PushSilently(t, to) ==
    /\ Goto(t, "push_notify", to)
    /\ m_mutex' = NoThread
    /\ UNCHANGED <<m_queue, m_mtxBlocking, m_bExiting>>

\* Mutant: a notification only when the queue was empty.
PushNotifyFirst(t, to) ==
    /\ \/ Len(m_queue) = 1 /\ NotifyOne(t, "push_notify", to)
       \/ Len(m_queue) # 1 /\ Goto(t, "push_notify", to)
    /\ m_mutex' = NoThread
    /\ UNCHANGED <<m_queue, m_mtxBlocking, m_bExiting>>

PushNotify(t, to) ==
    /\ NotifyOne(t, "push_notify", to)
    /\ m_mutex' = NoThread
    /\ UNCHANGED <<m_queue, m_mtxBlocking, m_bExiting>>

-----------------------------------------------------------------------------
(* wait(): lock m_mtxBlocking, then evaluate !empty() || m_bExiting; when   *)
(* it is false, sleep (which releases m_mtxBlocking) and, once awake, lock  *)
(* m_mtxBlocking again and evaluate it again.                               *)

WaitLock(t, from) ==
    /\ m_mtxBlocking = NoThread
    /\ Goto(t, from, "wait_empty")
    /\ m_mtxBlocking' = t
    /\ UNCHANGED <<m_queue, m_mutex, m_bExiting>>

WaitReturn(t, from, ret) ==
    /\ Goto(t, from, ret)
    /\ m_mtxBlocking' = NoThread

\* The left operand of ||: empty() takes m_mutex.
WaitEmpty(t, ret) ==
    /\ m_mutex = NoThread
    /\ \/ m_queue # <<>> /\ WaitReturn(t, "wait_empty", ret)
       \/ /\ m_queue = <<>>
          /\ Goto(t, "wait_empty", "wait_exiting")
          /\ UNCHANGED m_mtxBlocking
    /\ UNCHANGED <<m_queue, m_mutex, m_bExiting>>

\* The right operand: the atomic flag, read under no lock exit_wait takes to set it.
WaitExiting(t, ret) ==
    /\ \/ m_bExiting /\ WaitReturn(t, "wait_exiting", ret)
       \/ /\ ~m_bExiting
          /\ Goto(t, "wait_exiting", "wait_block")
          /\ UNCHANGED m_mtxBlocking
    /\ UNCHANGED <<m_queue, m_mutex, m_bExiting>>

WaitBlock(t) ==
    /\ WaitReturn(t, "wait_block", "blocked")
    /\ UNCHANGED <<m_queue, m_mutex, m_bExiting>>

\* A condition variable may wake a sleeper that nobody notified.
SpuriousWake(t) ==
    /\ Goto(t, "blocked", "woken")
    /\ UNCHANGED queueData

-----------------------------------------------------------------------------
(* exit_wait: the critical section comes before the flag is set, not after. *)

ExitLock(t) ==
    /\ m_mtxBlocking = NoThread
    /\ Goto(t, "exit_lock", "exit_set")
    /\ UNCHANGED queueData

ExitSet(t) ==
    /\ Goto(t, "exit_set", "exit_notify")
    /\ m_bExiting' = TRUE
    /\ UNCHANGED <<m_queue, m_mutex, m_mtxBlocking>>

ExitNotify(t, to) ==
    /\ NotifyOne(t, "exit_notify", to)
    /\ UNCHANGED queueData

-----------------------------------------------------------------------------
(* empty() and pop_front(): each takes and gives back m_mutex, so nothing   *)
(* ties the answer of the first to the state the second finds.              *)

SeenEmpty == m_mutex = NoThread /\ m_queue = <<>>
SeenNonEmpty == m_mutex = NoThread /\ m_queue # <<>>

PopFront(t, from, to) ==
    /\ SeenNonEmpty
    /\ Goto(t, from, to)
    /\ m_queue' = Tail(m_queue)
    /\ UNCHANGED <<m_mutex, m_mtxBlocking, m_bExiting>>
=============================================================================
