------------------------------ MODULE TCPServer ------------------------------
(***************************************************************************)
(* The server's connections: the accept handler on the context thread, the *)
(* deque m_deqConns it fills, and MessageClient and MessageAllClients,     *)
(* which users' threads call, and hooks too, on whatever thread runs them. *)
(* Nothing guards m_deqConns: a loop over it is cut at every element, and  *)
(* at every hook, remove at every element it looks at, and erase comes     *)
(* after it.  The queue, Update(), Run() and Stop() are RunLoop's, what a  *)
(* connection does is TCPConnection's.                                     *)
(*                                                                         *)
(* Whoever is at m_deqConns when another moves or erases its elements goes *)
(* on with the position it had, and finds there what stands there now.  An *)
(* element erased behind it reads as null, or the process is lost, as it   *)
(* may be by a push_back during a loop, by an erase of a range that is no  *)
(* longer there, and by a handler of a connection already destroyed.       *)
(*                                                                         *)
(* Bounds: each client connects once; at most MaxCalls calls, nested at    *)
(* most MaxDepth deep.                                                     *)
(***************************************************************************)
EXTENDS Naturals, Sequences, FiniteSets, SequencesExt

CONSTANTS Clients,
          Context,    \* m_thrContext
          Users,      \* threads that call MessageClient and MessageAllClients
          NoClient,   \* the null pointer
          IdRange,    \* the 100 of m_idCounter++ % 100
          MaxCalls, MaxDepth

Threads == Users \cup {Context}

ASSUME ServerAssumption ==
    /\ IsFiniteSet(Clients) /\ NoClient \notin Clients
    /\ Context \notin Users
    /\ IdRange \in Nat \ {0} /\ MaxCalls \in Nat /\ MaxDepth \in Nat

VARIABLES socket,        \* of each client's connection on the server
          armed,         \* an async_accept is outstanding
          accept,        \* where the accept handler is, and its new_conn
          approved,      \* connections that were pushed to m_deqConns
          m_deqConns,
          m_idCounter, id,
          closing,       \* connections with a posted close
          aborted,       \* closed, and the handlers of what was aborted still to run
          calls,         \* per thread: the calls it is in, the innermost last
          connected,     \* OnClientConnected has been called
          nCalls,
          reported,      \* OnClientDisconnected has been called
          overlapped,    \* elements were moved or erased under somebody else
          lost           \* the process has ended

connVars == <<socket, closing, aborted>>
acceptVars == <<armed, accept, approved, m_idCounter, id, connected>>
rosterVars == <<m_deqConns, calls, nCalls, reported>>
endVars == <<overlapped, lost>>
vars == <<connVars, acceptVars, rosterVars, endVars>>

Pointers == Clients \cup {NoClient}

\* The id of a connection that was given none, uint32_t(-1).
NoId == IdRange + 1

\* A MessageClient or MessageAllClients under way.  next and end are the
\* iterators of the loop, then of remove, with result where it moves the next
\* element to; was, dead and sentTo record what the loop met.
Call == [name : {"one", "all"}, at : {"loop", "hook", "remove"}, ignore : Pointers,
         next : Nat \ {0}, end : Nat, result : Nat \ {0}, bInvalidClientExists : BOOLEAN,
         was : Seq(Pointers), dead : SUBSET Clients, sentTo : Seq(Clients)]

TypeOK ==
    /\ socket \in [Clients -> {"none", "knocking", "open", "closed"}]
    /\ armed \in BOOLEAN
    /\ accept \in [at : {"idle", "request", "pushed", "named", "hook"}, conn : Pointers]
    /\ m_deqConns \in Seq(Pointers) /\ Len(m_deqConns) <= Cardinality(Clients)
    /\ m_idCounter \in Nat
    /\ id \in [Clients -> 0..(IdRange - 1) \cup {NoId}]
    /\ \A S \in {closing, aborted, approved, connected, reported} : S \subseteq Clients
    /\ calls \in [Threads -> Seq(Call)] /\ nCalls \in 0..MaxCalls
    /\ overlapped \in BOOLEAN /\ lost \in BOOLEAN

Idle == [at |-> "idle", conn |-> NoClient]

Init ==
    /\ socket = [c \in Clients |-> "none"]
    /\ armed = TRUE
    /\ accept = Idle
    /\ m_deqConns = <<>>
    /\ m_idCounter = 1 /\ id = [c \in Clients |-> NoId]
    /\ closing = {} /\ aborted = {}
    /\ calls = [t \in Threads |-> <<>>] /\ nCalls = 0
    /\ approved = {} /\ connected = {} /\ reported = {}
    /\ overlapped = FALSE /\ lost = FALSE

InCall(t) == calls[t] # <<>>
Top(t) == Last(calls[t])
Enter(t, call) ==
    /\ calls' = [calls EXCEPT ![t] = Append(@, call)]
    /\ nCalls' = nCalls + 1
Continue(t, call) == calls' = [calls EXCEPT ![t] = Append(Front(@), call)]
Leave(t) == calls' = [calls EXCEPT ![t] = Front(@)]

\* Somebody is at m_deqConns, besides the innermost call of t: in a loop, in
\* remove or before erase, or between push_back and the last use of back().
InUse(t) ==
    \/ \E u \in Threads : \E i \in DOMAIN calls[u] :
           /\ calls[u][i].name = "all" \/ calls[u][i].at # "hook"
           /\ ~(u = t /\ i = Len(calls[u]))
    \/ t # Context /\ accept.at \in {"pushed", "named", "hook"}

\* What happens where the program has undefined behaviour: it ends, or goes on.
Risk(undefined) == lost' \in {FALSE, undefined}

\* m_deqConns.back(), null when there is none.
Back == IF m_deqConns = <<>> THEN NoClient ELSE Last(m_deqConns)

-----------------------------------------------------------------------------
(* The accept handler.                                                      *)

HandlerFree == accept.at = "idle" /\ ~InCall(Context)

\* A client reaches the listening socket.
Knock(c) ==
    /\ socket[c] = "none"
    /\ socket' = [socket EXCEPT ![c] = "knocking"]
    /\ UNCHANGED <<closing, aborted, acceptVars, rosterVars, endVars>>

\* A new connection, and the call of OnClientConnectionRequest.
Accept(c) ==
    /\ armed /\ HandlerFree /\ socket[c] = "knocking"
    /\ armed' = FALSE
    /\ socket' = [socket EXCEPT ![c] = "open"]
    /\ accept' = [at |-> "request", conn |-> c]
    /\ UNCHANGED <<closing, aborted, m_idCounter, approved, id, connected, rosterVars, endVars>>

\* The client is gone again: remote_endpoint() throws out of run().
AcceptThrows(c) ==
    /\ armed /\ HandlerFree /\ socket[c] = "knocking"
    /\ lost' = TRUE
    /\ UNCHANGED <<connVars, acceptVars, rosterVars, overlapped>>

\* Mutant: after an error no further accept.
AcceptFailsSilently(c) ==
    /\ armed /\ HandlerFree /\ socket[c] = "knocking"
    /\ armed' = FALSE
    /\ socket' = [socket EXCEPT ![c] = "closed"]
    /\ UNCHANGED <<closing, aborted, accept, approved, m_idCounter, id, connected,
                   rosterVars, endVars>>

\* The accept fails; WaitForClientConnection comes after either branch.
AcceptFails(c) ==
    /\ armed /\ HandlerFree /\ socket[c] = "knocking"
    /\ socket' = [socket EXCEPT ![c] = "closed"]
    /\ UNCHANGED <<closing, aborted, acceptVars, rosterVars, endVars>>

\* The hook denied: the connection is destroyed, the next one is waited for.
\* The hook may have called Disconnect, whose lambda then has no connection.
Deny ==
    /\ accept.at = "request" /\ ~InCall(Context)
    /\ socket' = [socket EXCEPT ![accept.conn] = "closed"]
    /\ accept' = Idle /\ armed' = TRUE
    /\ Risk(accept.conn \in closing)
    /\ UNCHANGED <<closing, aborted, approved, m_idCounter, id, connected, rosterVars,
                   overlapped>>

\* The hook approved: push_back.
Approve ==
    /\ accept.at = "request" /\ ~InCall(Context)
    /\ m_deqConns' = Append(m_deqConns, accept.conn)
    /\ approved' = approved \cup {accept.conn}
    /\ accept' = [accept EXCEPT !.at = "pushed"]
    /\ overlapped' = (overlapped \/ \E u \in Threads : InCall(u) /\ Top(u).at = "remove")
    /\ Risk(InUse(Context))
    /\ UNCHANGED <<connVars, armed, m_idCounter, id, connected, calls, nCalls, reported>>

\* Mutant: the counter is not reduced.
ConnectToClientCount ==
    /\ accept.at = "pushed" /\ Back # NoClient
    /\ id' = [id EXCEPT ![Back] = m_idCounter]
    /\ m_idCounter' = m_idCounter + 1
    /\ accept' = [accept EXCEPT !.at = "named"]
    /\ UNCHANGED <<connVars, armed, approved, connected, rosterVars, endVars>>

\* m_deqConns.back()->ConnectToClient: it gives the id to an open connection.
ConnectToClient ==
    /\ accept.at = "pushed"
    /\ \/ /\ Back = NoClient /\ lost' = TRUE
          /\ UNCHANGED <<id, m_idCounter, accept>>
       \/ /\ Back # NoClient /\ UNCHANGED lost
          /\ id' = [id EXCEPT ![Back] = IF socket[Back] = "open"
                                        THEN m_idCounter % IdRange ELSE @]
          /\ m_idCounter' = m_idCounter + 1
          /\ accept' = [accept EXCEPT !.at = "named"]
    /\ UNCHANGED <<connVars, armed, approved, connected, rosterVars, overlapped>>

\* OnClientConnected is called with m_deqConns.back().
OnClientConnected ==
    /\ accept.at = "named"
    /\ accept' = [accept EXCEPT !.at = "hook"]
    /\ connected' = connected \cup ({Back} \ {NoClient})
    /\ Risk(m_deqConns = <<>>)
    /\ UNCHANGED <<connVars, armed, approved, m_idCounter, id, rosterVars, overlapped>>

\* OnClientConnected has returned; the log takes the id of m_deqConns.back().
WaitForClientConnection ==
    /\ accept.at = "hook" /\ ~InCall(Context)
    /\ accept' = Idle /\ armed' = TRUE
    /\ Risk(Back = NoClient)
    /\ UNCHANGED <<connVars, approved, m_idCounter, id, connected, rosterVars, overlapped>>

-----------------------------------------------------------------------------
(* The other handlers of the context thread.                                *)

\* The connections whose handlers run.
Served == {c \in connected : socket[c] = "open"}

\* m_socket.close(): the other operations of the socket are aborted, and
\* their handlers run later.
CloseSocket(c) ==
    /\ socket' = [socket EXCEPT ![c] = "closed"]
    /\ aborted' = aborted \cup {c}

\* A read or a write fails.
ConnectionLost(c) ==
    /\ HandlerFree /\ c \in Served
    /\ CloseSocket(c)
    /\ UNCHANGED <<closing, acceptVars, rosterVars, endVars>>

AbortedHandlers(c) ==
    /\ HandlerFree /\ c \in aborted
    /\ aborted' = aborted \ {c}
    /\ UNCHANGED <<socket, closing, acceptVars, rosterVars, endVars>>

\* Mutant: the calling thread closes the socket.
DisconnectNow(c) ==
    /\ socket[c] = "open"
    /\ c \in connected \cup {accept.conn}
    /\ CloseSocket(c)
    /\ UNCHANGED <<closing, acceptVars, rosterVars, endVars>>

\* Disconnect of a connection a hook was given: the close is posted.
Disconnect(c) ==
    /\ socket[c] = "open" /\ c \notin closing
    /\ c \in connected \cup {accept.conn}
    /\ closing' = closing \cup {c}
    /\ UNCHANGED <<socket, aborted, acceptVars, rosterVars, endVars>>

RunClose(c) ==
    /\ HandlerFree /\ c \in closing
    /\ closing' = closing \ {c}
    /\ IF socket[c] = "open" THEN CloseSocket(c) ELSE UNCHANGED <<socket, aborted>>
    /\ UNCHANGED <<acceptVars, rosterVars, endVars>>

-----------------------------------------------------------------------------
(* MessageClient and MessageAllClients.                                     *)

\* A users' thread calls from its own code, and any thread from a hook.
MayCall(t) ==
    /\ nCalls < MaxCalls /\ Len(calls[t]) < MaxDepth
    /\ IF InCall(t) THEN Top(t).at = "hook"
       ELSE t \in Users \/ accept.at \in {"request", "hook"}

BeginAll(t, pIgnoreClient) ==
    /\ MayCall(t)
    /\ Enter(t, [name |-> "all", at |-> "loop", ignore |-> pIgnoreClient,
                 next |-> 1, end |-> Len(m_deqConns), result |-> 1,
                 bInvalidClientExists |-> FALSE,
                 was |-> m_deqConns, sentTo |-> <<>>,
                 dead |-> {c \in Clients : socket[c] = "closed"}])
    /\ UNCHANGED <<connVars, acceptVars, m_deqConns, reported, endVars>>

\* Where t is in m_deqConns, and what it meets there.
At(t, at) == InCall(t) /\ Top(t).at = at
Inside(i) == i <= Len(m_deqConns)
Met(t) == IF Inside(Top(t).next) THEN m_deqConns[Top(t).next] ELSE NoClient
Advance(call) == [call EXCEPT !.next = @ + 1]

\* Mutant: the client to ignore is treated like a disconnected one.
LoopMerged(t) ==
    /\ At(t, "loop") /\ Top(t).next <= Top(t).end
    /\ \/ /\ Met(t) = NoClient
          /\ Continue(t, Advance(Top(t)))
          /\ Risk(~Inside(Top(t).next)) /\ UNCHANGED reported
       \/ /\ Met(t) # NoClient /\ socket[Met(t)] = "open" /\ Met(t) # Top(t).ignore
          /\ Continue(t, [Advance(Top(t)) EXCEPT !.sentTo = Append(@, Met(t))])
          /\ UNCHANGED <<reported, lost>>
       \/ /\ Met(t) # NoClient /\ (socket[Met(t)] # "open" \/ Met(t) = Top(t).ignore)
          /\ Continue(t, [Top(t) EXCEPT !.at = "hook"])
          /\ reported' = reported \cup {Met(t)} /\ UNCHANGED lost
    /\ UNCHANGED <<connVars, acceptVars, m_deqConns, overlapped, nCalls>>

\* One element of the loop: a live client is sent the message, unless it is
\* the one to ignore; for a dead one OnClientDisconnected is called.
Loop(t) ==
    /\ At(t, "loop") /\ Top(t).next <= Top(t).end
    /\ \/ /\ Met(t) = NoClient
          /\ Continue(t, Advance(Top(t)))
          /\ Risk(~Inside(Top(t).next)) /\ UNCHANGED reported
       \/ /\ Met(t) # NoClient /\ socket[Met(t)] = "open"
          /\ Continue(t, IF Met(t) = Top(t).ignore THEN Advance(Top(t))
                         ELSE [Advance(Top(t)) EXCEPT !.sentTo = Append(@, Met(t))])
          /\ UNCHANGED <<reported, lost>>
       \/ /\ Met(t) # NoClient /\ socket[Met(t)] # "open"
          /\ Continue(t, [Top(t) EXCEPT !.at = "hook"])
          /\ reported' = reported \cup {Met(t)} /\ UNCHANGED lost
    /\ UNCHANGED <<connVars, acceptVars, m_deqConns, overlapped, nCalls>>

\* t makes q of m_deqConns.  A connection it no longer holds stays open in the
\* hands of a user, or is destroyed, under any handler still to run.
Becomes(t, q, undefined) ==
    LET dropped == Range(m_deqConns) \ (Range(q) \cup {NoClient})
    IN  /\ m_deqConns' = q
        /\ socket' \in {socket, [c \in Clients |-> IF c \in dropped THEN "closed"
                                                    ELSE socket[c]]}
        /\ Risk(\/ undefined
                \/ q # m_deqConns /\ InUse(t)
                \/ \E c \in dropped : c \in aborted \cup closing \/ socket[c] = "open")

\* Mutants: the loop ends at the first dead client; the element stays.
ResetAndBreak(t) ==
    /\ At(t, "hook") /\ Top(t).name = "all"
    /\ m_deqConns' = [m_deqConns EXCEPT ![Top(t).next] = NoClient]
    /\ Continue(t, [Top(t) EXCEPT !.bInvalidClientExists = TRUE, !.at = "loop",
                                  !.next = Top(t).end + 1])
    /\ UNCHANGED <<connVars, acceptVars, reported, nCalls, endVars>>

NoReset(t) ==
    /\ At(t, "hook") /\ Top(t).name = "all"
    /\ Continue(t, [Advance(Top(t)) EXCEPT !.bInvalidClientExists = TRUE, !.at = "loop"])
    /\ UNCHANGED <<connVars, acceptVars, m_deqConns, reported, endVars, nCalls>>

\* OnClientDisconnected has returned: client.reset(), on whatever stands at
\* the loop's position by now.
Reset(t) ==
    /\ At(t, "hook") /\ Top(t).name = "all"
    /\ Becomes(t, [i \in DOMAIN m_deqConns |-> IF i = Top(t).next THEN NoClient
                                             ELSE m_deqConns[i]],
               ~Inside(Top(t).next))
    /\ Continue(t, [Advance(Top(t)) EXCEPT !.bInvalidClientExists = TRUE, !.at = "loop"])
    /\ UNCHANGED <<closing, aborted, acceptVars, reported, nCalls, overlapped>>

\* The call looks for the null pointers.
BeginRemove(t) ==
    Continue(t, [Top(t) EXCEPT !.at = "remove", !.next = 1, !.result = 1,
                               !.end = Len(m_deqConns)])

\* The loop is over.
EndLoop(t) ==
    /\ At(t, "loop") /\ Top(t).next > Top(t).end
    /\ IF Top(t).bInvalidClientExists THEN BeginRemove(t) ELSE Leave(t)
    /\ UNCHANGED <<connVars, acceptVars, m_deqConns, reported, nCalls, endVars>>

\* Mutant: remove takes everything that is not connected.
RemoveClosed(t) ==
    LET call == Top(t)
        stays == Met(t) # NoClient /\ socket[Met(t)] = "open"
    IN  /\ At(t, "remove") /\ call.next <= call.end
        /\ Continue(t, IF stays THEN [Advance(call) EXCEPT !.result = @ + 1]
                       ELSE Advance(call))
        /\ m_deqConns' = [i \in DOMAIN m_deqConns |->
                              IF stays /\ i = call.result THEN Met(t)
                              ELSE IF i = call.next THEN NoClient ELSE m_deqConns[i]]
        /\ UNCHANGED <<connVars, acceptVars, reported, nCalls, endVars>>

\* One element of remove(nullptr): what is not null moves to the front.
RemoveNull(t) ==
    LET call == Top(t)
    IN  /\ At(t, "remove") /\ call.next <= call.end
        /\ \/ /\ Met(t) = NoClient
              /\ Continue(t, Advance(call))
              /\ Risk(~Inside(call.next)) /\ UNCHANGED <<socket, m_deqConns, overlapped>>
           \/ /\ Met(t) # NoClient
              /\ Continue(t, [Advance(call) EXCEPT !.result = @ + 1])
              /\ Becomes(t, [i \in DOMAIN m_deqConns |->
                              IF i = call.result THEN Met(t)
                              ELSE IF i = call.next THEN NoClient ELSE m_deqConns[i]], FALSE)
              /\ overlapped' = (overlapped \/ (m_deqConns' # m_deqConns /\ InUse(t)))
        /\ UNCHANGED <<closing, aborted, acceptVars, reported, nCalls>>

\* erase(result, end()).  The compiler may have taken end() before remove, so
\* that it misses, or names, what was pushed or erased since.
Erase(t) ==
    LET call == Top(t)
    IN  /\ At(t, "remove") /\ call.next > call.end
        /\ Leave(t)
        /\ \E last \in {call.end, Len(m_deqConns)} :
              IF call.result <= last + 1 /\ Inside(last)
              THEN /\ Becomes(t, SubSeq(m_deqConns, 1, call.result - 1)
                                \o SubSeq(m_deqConns, last + 1, Len(m_deqConns)), FALSE)
                   /\ overlapped' = (overlapped \/ (m_deqConns' # m_deqConns /\ InUse(t)))
              ELSE lost' = TRUE /\ UNCHANGED <<socket, m_deqConns, overlapped>>
        /\ UNCHANGED <<closing, aborted, acceptVars, reported, nCalls>>

\* MessageClient: a live client is sent the message, which changes nothing
\* here; for a dead one OnClientDisconnected is called.
BeginOne(t, client) ==
    /\ MayCall(t)
    /\ socket[client] # "open" /\ client \in connected
    /\ Enter(t, [name |-> "one", at |-> "hook", ignore |-> NoClient,
                 next |-> 1, end |-> 0, result |-> 1,
                 bInvalidClientExists |-> FALSE,
                 was |-> <<>>, sentTo |-> <<>>, dead |-> {}])
    /\ reported' = reported \cup {client}
    /\ UNCHANGED <<connVars, acceptVars, m_deqConns, endVars>>

\* OnClientDisconnected has returned.  The argument is reset before it is
\* looked for in m_deqConns, so that what is removed is the null pointers.
EndOne(t) ==
    /\ At(t, "hook") /\ Top(t).name = "one"
    /\ BeginRemove(t)
    /\ UNCHANGED <<connVars, acceptVars, m_deqConns, reported, nCalls, endVars>>

-----------------------------------------------------------------------------
\* What a thread has begun.  A hook returns.
Step(t) ==
    ~lost /\ \/ Loop(t) \/ Reset(t) \/ EndLoop(t) \/ RemoveNull(t) \/ Erase(t) \/ EndOne(t)
             \/ t = Context /\ (Deny \/ Approve \/ ConnectToClient \/ OnClientConnected
                                     \/ WaitForClientConnection)
             \/ t = Context /\ \E c \in Clients :
                    Accept(c) \/ AcceptThrows(c) \/ AcceptFails(c)
                        \/ RunClose(c) \/ AbortedHandlers(c)

Environment ==
    ~lost /\ \/ \E c \in Clients : Knock(c) \/ ConnectionLost(c) \/ Disconnect(c)
             \/ \E t \in Threads : \/ \E p \in Pointers : BeginAll(t, p)
                                   \/ \E c \in Clients : BeginOne(t, c)

Next == Environment \/ \E t \in Threads : Step(t)

Spec == Init /\ [][Next]_vars

\* Both threads are scheduled, and hooks return.
FairSpec == Spec /\ \A t \in Threads : WF_vars(Step(t))

-----------------------------------------------------------------------------
(* Properties.  Those of the roster are conditioned: nothing in the code    *)
(* keeps users from calling while another thread, the accept handler or a   *)
(* loop further out is at m_deqConns.  They hold as long as no remove and no *)
(* erase has changed it under somebody else (overlapped); AllMessaged says   *)
(* what the header says, without the condition.                              *)

\* A client that is still connected does not fall out of m_deqConns, and is
\* not in it twice, neither by the loops of several threads, nor by a
\* push_back during them, nor by removes and erases that nobody else is
\* beside: every broadcast still reaches it, and once.
RosterKeepsLive ==
    ~overlapped => \A c \in approved : socket[c] = "open" =>
        Cardinality({i \in DOMAIN m_deqConns : m_deqConns[i] = c}) = 1

\* A connection leaves m_deqConns only after OnClientDisconnected was called
\* for it.
NoSilentDrop == ~overlapped => approved \ reported \subseteq Range(m_deqConns)

\* The accept handler, which takes m_deqConns.back() three times after its
\* push_back, finds its own connection there, also after the hook, from which
\* the user may have swept dead connections out.
BackIsNew ==
    ~overlapped /\ accept.at \in {"pushed", "named", "hook"} /\ ~InCall(Context) =>
        Back = accept.conn

\* OnClientDisconnected for a connection comes after its OnClientConnected:
\* nothing closes the connection while the accept handler is on its way.
HooksInOrder == ~overlapped => reported \subseteq connected

\* When the loop of a MessageAllClients is over, each client that was in
\* m_deqConns at its start and is still connected has been sent the message
\* once, the client to ignore not at all.
Reaches(t) ==
    At(t, "loop") /\ Top(t).next > Top(t).end =>
        \A c \in Clients :
            c \in Range(Top(t).was) /\ socket[c] = "open" =>
                Cardinality({i \in DOMAIN Top(t).sentTo : Top(t).sentTo[i] = c})
                    = IF c = Top(t).ignore THEN 0 ELSE 1

BroadcastReaches == ~overlapped => \A t \in Threads : Reaches(t)

\* MessageAllClients leaves no client in m_deqConns that was disconnected
\* before it began.
BroadcastSweeps ==
    [][\A t \in Threads :
          /\ InCall(t) /\ Top(t).name = "all" /\ Len(calls'[t]) < Len(calls[t])
          /\ ~overlapped'
          => Range(m_deqConns') \cap Top(t).dead = {}]_vars

\* "Start the server." (TCPServer.h): every client that reaches the listening
\* socket is taken up, however the connections before it went.
AllAnswered ==
    \A c \in Clients : socket[c] = "knocking" ~> socket[c] # "knocking" \/ lost

\* "Message all clients." (TCPServer.h), whatever the hooks call.  False when
\* an OnClientDisconnected calls MessageAllClients: the erase of the inner call
\* moves a live client to the position that the outer one resets.
AllMessaged == \A t \in Threads : Reaches(t)
=============================================================================
