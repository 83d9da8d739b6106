--------------------------- MODULE TCPConnection ---------------------------
(***************************************************************************)
(* One connection of TCPConnImpl<T>: the object on the server and the      *)
(* object on the client, each driven by the single thread of its           *)
(* io_context, and the TCP stream between them.  One action is one handler *)
(* (or one call of a user thread).  The stream carries words: a word is    *)
(* the 8 bytes of a validation number or of a TCPMsgHeader, or one piece   *)
(* of a body, and sizes are counted in words.  T is TCPMsg (framed) or     *)
(* TCPRawMsg (raw), which has neither a validation nor a header: of a      *)
(* message of its own only the body counts.                                *)
(*                                                                         *)
(* A write is an outstanding operation that hands the stream one word at a *)
(* time; what is left of it queues behind the other operations of the same *)
(* socket, as Asio does after a partial write.  Its completion handler     *)
(* runs later (`done`).  A read has completed once its words are there,    *)
(* and its handler runs later too.                                         *)
(*                                                                         *)
(* m_socket.close() aborts what has not completed, no more: the handler of *)
(* a read or a write that has completed still runs, with no error, on the  *)
(* closed socket.                                                          *)
(*                                                                         *)
(* Bounds: for some b of MaxSends, no end e calls Send more than b[e]      *)
(* times, and the stream holds Capacity words in a direction.              *)
(***************************************************************************)
EXTENDS TCPMsg, FiniteSets, SequencesExt

CONSTANTS Msgs,         \* what Send is called with: [type, size, body]
          RawMsgs,      \* and what it is called with on a raw connection
          Kinds,        \* the T that are looked at
          Parts,        \* the words a body is made of
          EarlySenders, \* ends whose user calls Send before the validation
          MaxSends,
          Capacity

\* EOwner.
Ends == {"server", "client"}
Peer(e) == IF e = "server" THEN "client" ELSE "server"

\* A size is 0 in a default-constructed TCPMsg, and full_size() otherwise.
ASSUME MsgsAssumption ==
    /\ \A m \in Msgs : /\ m = [type |-> m.type, size |-> m.size, body |-> m.body]
                       /\ m.body \in Seq(Parts)
                       /\ m.size = full_size(m) \/ m = NewMsg(m.type)
    /\ \A m \in RawMsgs : m.body \in Seq(Parts) /\ m = RawInput(NewMsg("raw"), m.body)

ASSUME LimitsAssumption ==
    /\ MaxSends \subseteq [Ends -> Nat] /\ Capacity \in Nat \ {0}
    /\ EarlySenders \subseteq Ends
    /\ Kinds \subseteq {"framed", "raw"}

VARIABLES kind,             \* T, the same at both ends
          socket,           \* of m_socket: the server's does not exist before the accept
          wire,             \* words on their way to an end
          reading,          \* the outstanding read, or "none"
          writes,           \* the outstanding writes, [op, words]
          done,             \* finished writes whose handler has not run
          posted,           \* lambdas posted to the io_context
          m_qMessagesOut,
          m_msgTemporaryIn,
          m_nValidationOut, \* the client's answer
          validated,        \* server: NotifyValidation called; client: OnConnected;
                            \* of a raw connection: open
          accepted,         \* every message that entered m_qMessagesOut
          received          \* every message pushed to m_qMessagesIn

vars == <<kind, socket, wire, reading, writes, done, posted, m_qMessagesOut,
          m_msgTemporaryIn, m_nValidationOut, validated, accepted, received>>

\* What a read, a write and a posted lambda may change.
readVars  == <<reading, wire, m_msgTemporaryIn, m_nValidationOut, validated, received>>
writeVars == <<writes, done, m_qMessagesOut>>
userVars  == <<posted, accepted>>

-----------------------------------------------------------------------------
(* Words.                                                                   *)

Nonce   == [word |-> "nonce"]    \* the server's m_nValidationOut
Proof   == [word |-> "proof"]    \* its m_nValidationCheck
Garbage == [word |-> "garbage"]  \* CalculateValidation of anything else
HeaderOf(m) == [word |-> "header", type |-> m.type, size |-> m.size]
BodyOf(m) == [i \in 1..Len(m.body) |-> [word |-> "body", part |-> m.body[i]]]

CalculateValidation(w) == IF w = Nonce THEN Proof ELSE Garbage

BodyWords == [word : {"body"}, part : Parts]
Words == IF kind = "framed"
         THEN {Nonce, Proof, Garbage} \cup {HeaderOf(m) : m \in Msgs} \cup BodyWords
         ELSE BodyWords

\* What Send is called with, and what a read can leave in m_msgTemporaryIn.
Sendable == IF kind = "framed" THEN Msgs ELSE RawMsgs
Frames == IF kind = "framed"
          THEN [type : {m.type : m \in Msgs}, size : {m.size : m \in Msgs}, body : Seq(Parts)]
          ELSE [type : {"raw"}, size : {0}, body : Seq(Parts)]
Fresh == [type |-> "none", size |-> 0, body |-> <<>>]

Lambdas == {[call |-> "close"]} \cup {[call |-> "send", msg |-> m] : m \in Sendable}
OpNames == IF kind = "framed" THEN {"challenge", "response", "notify", "header", "body"}
                              ELSE {"raw"}
Ops == [op : OpNames, words : Seq(Words)]
Reads == {"none"} \cup OpNames

TypeOK ==
    /\ kind \in Kinds
    /\ socket \in [Ends -> {"unborn", "connecting", "open", "closed"}]
    /\ wire \in [Ends -> Seq(Words)]
    /\ reading \in [Ends -> Reads]
    /\ writes \in [Ends -> Seq(Ops)]
    /\ done \in [Ends -> Seq(OpNames)]
    /\ posted \in [Ends -> Seq(Lambdas)]
    /\ m_qMessagesOut \in [Ends -> Seq(Sendable)]
    /\ m_msgTemporaryIn \in [Ends -> Frames \cup {Fresh}]
    /\ m_nValidationOut \in {Nonce, Proof, Garbage}
    /\ validated \in [Ends -> BOOLEAN]
    /\ accepted \in [Ends -> Seq(Sendable)]
    /\ received \in [Ends -> Seq(Frames)]

Init ==
    /\ kind \in Kinds
    /\ socket = [e \in Ends |-> IF e = "client" THEN "connecting" ELSE "unborn"]
    /\ wire = [e \in Ends |-> <<>>]
    /\ reading = [e \in Ends |-> "none"]
    /\ writes = [e \in Ends |-> <<>>]
    /\ done = [e \in Ends |-> <<>>]
    /\ posted = [e \in Ends |-> <<>>]
    /\ m_qMessagesOut = [e \in Ends |-> <<>>]
    /\ m_msgTemporaryIn = [e \in Ends |-> Fresh]
    /\ m_nValidationOut = Garbage
    /\ validated = [e \in Ends |-> FALSE]
    /\ accepted = [e \in Ends |-> <<>>]
    /\ received = [e \in Ends |-> <<>>]

-----------------------------------------------------------------------------
(* Opening and closing.                                                     *)

IsConnected(e) == socket[e] \in {"connecting", "open"}

\* m_socket.close().  The handlers of what is outstanding are still to run,
\* each with the outcome its operation had by then.
CloseSocket(e) ==
    /\ socket' = [socket EXCEPT ![e] = "closed"]
    /\ UNCHANGED <<wire, reading, writes, done, m_qMessagesOut, m_msgTemporaryIn,
                   m_nValidationOut, validated, received>>

\* An async_write begins.
Start(e, name, words) ==
    writes' = [writes EXCEPT ![e] = Append(@, [op |-> name, words |-> words])]

\* An async_read begins.  On a closed socket it fails, and its handler closes
\* that once more; but to read nothing at all succeeds.
ReadOn(e, name, nothing) ==
    reading' = [reading EXCEPT ![e] = IF socket[e] = "open" \/ nothing THEN name ELSE "none"]

\* Mutant: a raw connection reads before it is ready.
RawBeginsUnready(e) ==
    /\ reading' = [reading EXCEPT ![e] = "raw"]
    /\ UNCHANGED validated

\* A raw connection is ready at once: ReadRaw, and OnConnected on the client.
RawBegins(e) ==
    /\ reading' = [reading EXCEPT ![e] = "raw"]
    /\ validated' = [validated EXCEPT ![e] = TRUE]

\* The accept handler: OnClientConnectionRequest, then ConnectToClient or not.
ConnectToClient ==
    /\ socket["server"] = "unborn"
    /\ \/ /\ socket' = [socket EXCEPT !["server"] = "open"]
          /\ IF kind = "framed"
             THEN /\ Start("server", "challenge", <<Nonce>>)
                  /\ reading' = [reading EXCEPT !["server"] = "response"]
                  /\ UNCHANGED validated
             ELSE RawBegins("server") /\ UNCHANGED writes
          /\ UNCHANGED <<wire, done, m_qMessagesOut, m_msgTemporaryIn,
                         m_nValidationOut, received>>
       \/ CloseSocket("server")
    /\ UNCHANGED userVars

\* The outcome of the client's async_connect.
ConnectToServer ==
    /\ socket["client"] = "connecting"
    /\ \/ /\ socket' = [socket EXCEPT !["client"] = "open"]
          /\ IF kind = "framed"
             THEN reading' = [reading EXCEPT !["client"] = "challenge"] /\ UNCHANGED validated
             ELSE RawBegins("client")
          /\ UNCHANGED <<wire, writeVars, m_msgTemporaryIn, m_nValidationOut, received>>
       \/ CloseSocket("client")
    /\ UNCHANGED userVars

Wanted(e) == m_msgTemporaryIn[e].size - 1

\* The handler of a read or of a write that fails closes the socket.  What has
\* all it wanted does not fail.
ReadFails(e) ==
    /\ reading[e] # "none"
    /\ reading[e] = "body" => Len(m_msgTemporaryIn[e].body) < Wanted(e)
    /\ reading' = [reading EXCEPT ![e] = "none"]
    /\ UNCHANGED writes
WriteFails(e) ==
    /\ writes[e] # <<>> /\ Head(writes[e]).words # <<>>
    /\ writes' = [writes EXCEPT ![e] = Tail(@)]
    /\ UNCHANGED reading
Fails(e) ==
    /\ ReadFails(e) \/ WriteFails(e)
    /\ socket' = [socket EXCEPT ![e] = "closed"]
    /\ UNCHANGED <<wire, done, m_qMessagesOut, m_msgTemporaryIn, m_nValidationOut,
                   validated, received, userVars>>

\* It fails because this end has closed; because the other end has, and the
\* words it had sent may have been read before, or not; or although both are there.
Aborted(e)        == socket[e] = "closed" /\ Fails(e)
PeerClosed(e)     == socket[e] = "open" /\ socket[Peer(e)] = "closed" /\ Fails(e)
ConnectionLost(e) == socket[e] = "open" /\ Fails(e)

-----------------------------------------------------------------------------
(* The validation.                                                          *)

\* One word has arrived for the outstanding read; after a close it is one
\* that had arrived before.
Arrives(e, read) == reading[e] = read /\ wire[e] # <<>>
Taken(e) == wire' = [wire EXCEPT ![e] = Tail(@)]

ReadChallenge ==
    /\ Arrives("client", "challenge") /\ Taken("client")
    /\ m_nValidationOut' = CalculateValidation(Head(wire["client"]))
    /\ Start("client", "response", <<m_nValidationOut'>>)
    /\ reading' = [reading EXCEPT !["client"] = "none"]
    /\ UNCHANGED <<socket, done, m_qMessagesOut, m_msgTemporaryIn, validated,
                   received, userVars>>

\* Mutant: a wrong answer neither validates nor closes.
ReadResponseSilent ==
    /\ Arrives("server", "response") /\ Taken("server")
    /\ \/ /\ Head(wire["server"]) = Proof
          /\ Start("server", "notify", <<Proof>>)
          /\ validated' = [validated EXCEPT !["server"] = TRUE]
          /\ ReadOn("server", "header", FALSE)
       \/ /\ Head(wire["server"]) # Proof
          /\ reading' = [reading EXCEPT !["server"] = "none"]
          /\ UNCHANGED <<writes, validated>>
    /\ UNCHANGED <<socket, done, m_qMessagesOut, m_msgTemporaryIn,
                   m_nValidationOut, received, userVars>>

ReadResponse ==
    /\ Arrives("server", "response") /\ Taken("server")
    /\ \/ /\ Head(wire["server"]) = Proof
          /\ Start("server", "notify", <<Proof>>)
          /\ validated' = [validated EXCEPT !["server"] = TRUE]
          /\ ReadOn("server", "header", FALSE)
          /\ UNCHANGED socket
       \/ /\ Head(wire["server"]) # Proof
          /\ socket' = [socket EXCEPT !["server"] = "closed"]
          /\ reading' = [reading EXCEPT !["server"] = "none"]
          /\ UNCHANGED <<writes, validated>>
    /\ UNCHANGED <<done, m_qMessagesOut, m_msgTemporaryIn, m_nValidationOut,
                   received, userVars>>

\* Mutant: any word is taken for the notification.
WaitForAnything ==
    /\ Arrives("client", "notify") /\ Taken("client")
    /\ validated' = [validated EXCEPT !["client"] = TRUE]
    /\ ReadOn("client", "header", FALSE)
    /\ UNCHANGED <<socket, writeVars, m_msgTemporaryIn, m_nValidationOut,
                   received, userVars>>

\* The client's WaitForValidation: a wrong number ends the reading and
\* nothing else.
WaitForValidation ==
    /\ Arrives("client", "notify") /\ Taken("client")
    /\ \/ /\ Head(wire["client"]) = m_nValidationOut
          /\ validated' = [validated EXCEPT !["client"] = TRUE]
          /\ ReadOn("client", "header", FALSE)
       \/ /\ Head(wire["client"]) # m_nValidationOut
          /\ reading' = [reading EXCEPT !["client"] = "none"]
          /\ UNCHANGED validated
    /\ UNCHANGED <<socket, writeVars, m_msgTemporaryIn, m_nValidationOut,
                   received, userVars>>

-----------------------------------------------------------------------------
(* Writing.                                                                 *)

\* The kernel takes one word of the first outstanding write; the rest of it
\* goes behind the others.
HandOver(e) ==
    LET w == Head(writes[e])
        n == IF w.words = <<>> THEN 0 ELSE 1
        rest == [op |-> w.op, words |-> SubSeq(w.words, n + 1, Len(w.words))]
    IN /\ wire' = [wire EXCEPT ![Peer(e)] = @ \o SubSeq(w.words, 1, n)]
       /\ \/ /\ rest.words # <<>>
             /\ writes' = [writes EXCEPT ![e] = Append(Tail(@), rest)]
             /\ UNCHANGED done
          \/ /\ rest.words = <<>>
             /\ writes' = [writes EXCEPT ![e] = Tail(@)]
             /\ done' = [done EXCEPT ![e] = Append(@, w.op)]

\* To write nothing succeeds whatever the socket is.
Transfer(e) ==
    /\ writes[e] # <<>>
    /\ \/ Head(writes[e]).words = <<>>
       \/ /\ socket[e] = "open" /\ socket[Peer(e)] # "closed"
          /\ Len(wire[Peer(e)]) < Capacity
    /\ HandOver(e)
    /\ UNCHANGED <<socket, reading, m_qMessagesOut, m_msgTemporaryIn,
                   m_nValidationOut, validated, received, userVars>>

\* The completion handler of a finished write.
Finished(e, names) ==
    /\ done[e] # <<>> /\ Head(done[e]) \in names
    /\ done' = [done EXCEPT ![e] = Tail(@)]
    /\ UNCHANGED <<socket, wire, m_msgTemporaryIn, m_nValidationOut, validated,
                   received, userVars>>

WriteHeader(e, m) == Start(e, "header", <<HeaderOf(m)>>)
WriteBody(e) == Start(e, "body", BodyOf(Head(m_qMessagesOut[e])))

WriteRaw(e, m) == Start(e, "raw", BodyOf(m))

\* Writing a message begins with its header, when it has one.
WriteMsg(e, m) == IF kind = "framed" THEN WriteHeader(e, m) ELSE WriteRaw(e, m)

\* Mutant: the next message is left where it is.
WriteNoNext(e) ==
    /\ m_qMessagesOut' = [m_qMessagesOut EXCEPT ![e] = Tail(@)]
    /\ UNCHANGED writes

\* The end of a message: pop_front and, when another one waits, its header.
WriteNext(e) ==
    LET rest == Tail(m_qMessagesOut[e])
    IN /\ m_qMessagesOut' = [m_qMessagesOut EXCEPT ![e] = rest]
       /\ IF rest = <<>> THEN UNCHANGED writes ELSE WriteMsg(e, Head(rest))

ValidationWritten(e) ==
    /\ Finished(e, {"challenge", "response", "notify"})
    /\ IF Head(done[e]) = "response" THEN ReadOn(e, "notify", FALSE) ELSE UNCHANGED reading
    /\ UNCHANGED <<writes, m_qMessagesOut>>

\* Mutant: the body is not written.
HeaderOnly(e) ==
    /\ Finished(e, {"header"})
    /\ WriteNext(e)
    /\ UNCHANGED reading

HeaderWritten(e) ==
    /\ Finished(e, {"header"})
    /\ IF Head(m_qMessagesOut[e]).body # <<>>
       THEN WriteBody(e) /\ UNCHANGED m_qMessagesOut
       ELSE WriteNext(e)
    /\ UNCHANGED reading

BodyWritten(e) ==
    /\ Finished(e, {"body"})
    /\ WriteNext(e)
    /\ UNCHANGED reading

\* WriteRaw's handler: pop_front and, when another one waits, that.
RawWritten(e) ==
    /\ Finished(e, {"raw"})
    /\ WriteNext(e)
    /\ UNCHANGED reading

-----------------------------------------------------------------------------
(* Reading.                                                                 *)

AddToIncomingMessageQueue(e, m) ==
    /\ received' = [received EXCEPT ![e] = Append(@, m)]
    /\ ReadOn(e, IF kind = "framed" THEN "header" ELSE "raw", FALSE)

\* Mutant: a message without a body is delivered before its header is in place.
ReadHeaderLate(e) ==
    /\ Arrives(e, "header") /\ Head(wire[e]).word = "header"
    /\ Taken(e)
    /\ LET h == Head(wire[e])
           in == [type |-> h.type, size |-> h.size, body |-> <<>>]
       IN /\ m_msgTemporaryIn' = [m_msgTemporaryIn EXCEPT ![e] = in]
          /\ IF h.size > 1
             THEN ReadOn(e, "body", FALSE) /\ UNCHANGED received
             ELSE AddToIncomingMessageQueue(e, m_msgTemporaryIn[e])
    /\ UNCHANGED <<socket, writeVars, m_nValidationOut, validated, userVars>>

\* A size of 0 delivers m_msgTemporaryIn as it is, with the body that was in it.
ReadHeader(e) ==
    /\ Arrives(e, "header") /\ Head(wire[e]).word = "header"
    /\ Taken(e)
    /\ LET h == Head(wire[e])
           in == [type |-> h.type, size |-> h.size,
                  body |-> IF h.size > 0 THEN <<>> ELSE m_msgTemporaryIn[e].body]
       IN /\ m_msgTemporaryIn' = [m_msgTemporaryIn EXCEPT ![e] = in]
          /\ IF h.size > 0
             THEN ReadOn(e, "body", h.size = 1) /\ UNCHANGED received
             ELSE AddToIncomingMessageQueue(e, in)
    /\ UNCHANGED <<socket, writeVars, m_nValidationOut, validated, userVars>>

ReadBody(e) ==
    /\ socket[e] = "open"
    /\ Arrives(e, "body") /\ Head(wire[e]).word = "body"
    /\ Len(m_msgTemporaryIn[e].body) < Wanted(e)
    /\ Taken(e)
    /\ m_msgTemporaryIn' = [m_msgTemporaryIn EXCEPT
                                ![e].body = Append(@, Head(wire[e]).part)]
    /\ UNCHANGED <<socket, reading, writeVars, m_nValidationOut, validated,
                   received, userVars>>

BodyRead(e) ==
    /\ reading[e] = "body"
    /\ Len(m_msgTemporaryIn[e].body) = Wanted(e)
    /\ AddToIncomingMessageQueue(e, m_msgTemporaryIn[e])
    /\ UNCHANGED <<socket, wire, writeVars, m_msgTemporaryIn, m_nValidationOut,
                   validated, userVars>>

\* async_receive returns with any part of what has arrived: the buffer of
\* RAW_RECEIVE_BUFFER_SIZE is larger than Capacity.
ReadRaw(e) ==
    /\ Arrives(e, "raw")
    /\ \E n \in 1..Len(wire[e]) :
          LET in == [NewMsg("raw") EXCEPT !.body = [i \in 1..n |-> wire[e][i].part]]
          IN /\ wire' = [wire EXCEPT ![e] = SubSeq(@, n + 1, Len(@))]
             /\ m_msgTemporaryIn' = [m_msgTemporaryIn EXCEPT ![e] = in]
             /\ AddToIncomingMessageQueue(e, in)
    /\ UNCHANGED <<socket, writeVars, m_nValidationOut, validated, userVars>>

-----------------------------------------------------------------------------
(* The calls of the users' threads, and the lambdas they post.              *)

Calls(e) == Len(SelectSeq(posted[e], LAMBDA l : l.call = "send")) + Len(accepted[e])

Send(e) ==
    /\ IsConnected(e)
    /\ validated[e] \/ e \in EarlySenders
    /\ \E b \in MaxSends : Calls(e) < b[e] /\ Calls(Peer(e)) <= b[Peer(e)]
    /\ \E m \in Sendable :
          posted' = [posted EXCEPT ![e] = Append(@, [call |-> "send", msg |-> m])]
    /\ UNCHANGED <<socket, readVars, writeVars, accepted>>

\* Bound: a close is not posted behind a close.
Disconnect(e) ==
    /\ IsConnected(e)
    /\ \A i \in 1..Len(posted[e]) : posted[e][i].call # "close"
    /\ posted' = [posted EXCEPT ![e] = Append(@, [call |-> "close"])]
    /\ UNCHANGED <<socket, readVars, writeVars, accepted>>

\* Mutants: a message is pushed to the front; a write of a framed message
\* starts although one is under way.
RunPostedFront(e) ==
    /\ posted[e] # <<>>
    /\ posted' = [posted EXCEPT ![e] = Tail(@)]
    /\ LET l == Head(posted[e])
       IN \/ l.call = "close" /\ CloseSocket(e) /\ UNCHANGED accepted
          \/ /\ l.call = "send"
             /\ m_qMessagesOut' = [m_qMessagesOut EXCEPT ![e] = <<l.msg>> \o @]
             /\ accepted' = [accepted EXCEPT ![e] = Append(@, l.msg)]
             /\ IF m_qMessagesOut[e] = <<>>
                THEN WriteMsg(e, l.msg) ELSE UNCHANGED writes
             /\ UNCHANGED <<socket, done, readVars>>

RunPostedAlways(e) ==
    /\ posted[e] # <<>>
    /\ posted' = [posted EXCEPT ![e] = Tail(@)]
    /\ LET l == Head(posted[e])
       IN \/ l.call = "close" /\ CloseSocket(e) /\ UNCHANGED accepted
          \/ /\ l.call = "send"
             /\ m_qMessagesOut' = [m_qMessagesOut EXCEPT ![e] = Append(@, l.msg)]
             /\ accepted' = [accepted EXCEPT ![e] = Append(@, l.msg)]
             /\ IF kind = "framed" \/ m_qMessagesOut[e] = <<>>
                THEN WriteMsg(e, Head(m_qMessagesOut'[e])) ELSE UNCHANGED writes
             /\ UNCHANGED <<socket, done, readVars>>

RunPosted(e) ==
    /\ posted[e] # <<>>
    /\ posted' = [posted EXCEPT ![e] = Tail(@)]
    /\ LET l == Head(posted[e])
       IN \/ /\ l.call = "close"
             /\ CloseSocket(e)
             /\ UNCHANGED accepted
          \/ /\ l.call = "send"
             /\ m_qMessagesOut' = [m_qMessagesOut EXCEPT ![e] = Append(@, l.msg)]
             /\ accepted' = [accepted EXCEPT ![e] = Append(@, l.msg)]
             /\ IF m_qMessagesOut[e] = <<>>
                THEN WriteMsg(e, l.msg) ELSE UNCHANGED writes
             /\ UNCHANGED <<socket, done, readVars>>

\* TCPClientImpl::Disconnect goes on to stop the io_context and to destroy
\* the connection: the socket closes, and no handler and nothing posted runs
\* any more.
DestroyConnection ==
    /\ socket' = [socket EXCEPT !["client"] = "closed"]
    /\ reading' = [reading EXCEPT !["client"] = "none"]
    /\ writes' = [writes EXCEPT !["client"] = <<>>]
    /\ done' = [done EXCEPT !["client"] = <<>>]
    /\ posted' = [posted EXCEPT !["client"] = <<>>]
    /\ UNCHANGED <<wire, m_qMessagesOut, m_msgTemporaryIn, m_nValidationOut, validated,
                   received, accepted>>

-----------------------------------------------------------------------------
Handler(e) ==
    /\ UNCHANGED kind
    /\ \/ Aborted(e) \/ PeerClosed(e) \/ Transfer(e)
       \/ ValidationWritten(e) \/ HeaderWritten(e) \/ BodyWritten(e) \/ RawWritten(e)
       \/ ReadHeader(e) \/ ReadBody(e) \/ BodyRead(e) \/ ReadRaw(e)
       \/ RunPosted(e)
       \/ e = "server" /\ (ConnectToClient \/ ReadResponse)
       \/ e = "client" /\ (ConnectToServer \/ ReadChallenge \/ WaitForValidation)

User(e) == Send(e) \/ Disconnect(e)

Next ==
    \/ \E e \in Ends : Handler(e)
    \/ \E e \in Ends : (User(e) \/ ConnectionLost(e)) /\ UNCHANGED kind
    \/ DestroyConnection /\ UNCHANGED kind

Spec == Init /\ [][Next]_vars

\* The two io_contexts run, and TCP delivers while both ends are there.
FairSpec == Spec /\ \A e \in Ends : WF_vars(Handler(e))

-----------------------------------------------------------------------------
(* Properties.                                                              *)

\* OnConnected is called on a client only if the server has validated it,
\* and the server has validated only a client that answered its challenge.
Agreement ==
    kind = "framed" =>
    /\ validated["client"] => validated["server"]
    /\ validated["server"] => m_nValidationOut = Proof
    /\ \A e \in Ends : received[e] # <<>> => validated["server"]

\* The part of a queue that is in a set.
Picked(s, S) == FlattenSeq([i \in DOMAIN s |-> IF s[i] \in S THEN <<s[i]>> ELSE <<>>])

MessageOps == {"header", "body", "raw"}
MessageWrites == [op : MessageOps, words : Seq(Words)]

\* While a connection is open, one write of a message is under way if there
\* is a message to write, and never two: Send starts one only when it finds
\* m_qMessagesOut empty, and the handlers keep it going.  After a close there
\* may be none, and a handler that still runs finds the message it was for.
SingleWriter ==
    \A e \in Ends :
        LET n == Len(Picked(writes[e], MessageWrites)) + Len(Picked(done[e], MessageOps))
            one == IF m_qMessagesOut[e] = <<>> THEN 0 ELSE 1
        IN n <= one /\ (IsConnected(e) => n = one)

\* Messages, or on a raw connection their words whatever the messages.
Contents(s) ==
    IF kind = "framed" THEN s ELSE FlattenSeq([i \in DOMAIN s |-> BodyOf(s[i])])

\* The receiver's queue gets what entered the sender's, unchanged, each
\* message once, in order, whatever is lost at the end; on a raw connection
\* each byte, however the messages are cut.
DeliveredInOrder ==
    \A e \in Ends : IsPrefix(Contents(received[Peer(e)]), Contents(accepted[e]))

\* The sockets, handlers and queues of both ends are a duplex stream: an end
\* is ready once it is validated, says what its m_qMessagesOut accepts and
\* hears what is pushed to its m_qMessagesIn, and every step of a handler or
\* of a user is one of the stream, or none.
Stream == INSTANCE DuplexStream
    WITH Server <- "server", Client <- "client",
         Batches <- {<<m>> : m \in Msgs} \cup {BodyOf(m) : m \in RawMsgs},
         validating <- kind = "framed",
         ready <- validated,
         closed <- [e \in Ends |-> socket[e] = "closed"],
         due <- [e \in Ends |-> socket[e] = "closed" /\ reading[e] # "none"],
         sent <- [e \in Ends |-> Contents(accepted[e])],
         heard <- [e \in Ends |-> Contents(received[e])]
ImplementsStream == Stream!Spec

\* Two values put into a message with << come out of the message delivered
\* with >>, the second one first, and leave it empty with the size of its
\* header: wherever the body is cut in two.
UnpackedAsPacked ==
    \A e \in Ends : \A i \in DOMAIN received[e] :
        LET in == received[e][i]
            b == accepted[Peer(e)][i].body
        IN kind = "framed" => \A k \in 0..Len(b) :
            LET second == Output(in, Len(b) - k)
                first == Output(second.msg, k)
            IN /\ second.data = SubSeq(b, k + 1, Len(b))
               /\ first.data = SubSeq(b, 1, k)
               /\ first.msg = Input(NewMsg(in.type), <<>>)

\* Header and body stay in step: a read meets the kind of word it is for.
InStep ==
    \A e \in Ends : wire[e] # <<>> =>
        /\ reading[e] = "header" => Head(wire[e]).word = "header"
        /\ reading[e] = "body" /\ Len(m_msgTemporaryIn[e].body) < Wanted(e)
               => Head(wire[e]).word = "body"

SomeClosed == \E e \in Ends : socket[e] = "closed"

\* "Send a message to the other end." (TCPConn.h): what was accepted
\* arrives, unless the connection closes.
AllArrive ==
    \A e \in Ends :
        accepted[e] # <<>> ~>
            (Contents(received[Peer(e)]) = Contents(accepted[e]) \/ SomeClosed)

\* The server's users send only to a client that it has validated; the
\* client's may send at any time.
ServerPatient == accepted["server"] # <<>> => validated["server"]

\* The same, for such a server: a broadcast into the handshake is otherwise
\* read as the answer to it.
PatientArrive == []ServerPatient => AllArrive

\* A connection is validated at both ends, or closed, with such a server.
HandshakeResolves ==
    []ServerPatient => <>((\A e \in Ends : validated[e]) \/ SomeClosed)
=============================================================================
