--------------------------- MODULE TCPRawMsgSender --------------------------
(***************************************************************************)
(* TCPRawMsgSenderImpl: a socket towards a foreign server, driven by one   *)
(* io_context and its thread, and the user's thread that connects,         *)
(* disconnects and sends.  What arrives is cut into messages where the     *)
(* length field of a header says, or, without a header, as it comes.       *)
(* Sizes and lengths are counted in bytes.                                 *)
(*                                                                         *)
(* The server sends whole frames of the described protocol.  A write is    *)
(* one step: it is the only one outstanding on its socket, so how TCP      *)
(* cuts it shows nowhere.  Update() and Run() are RunLoop's.               *)
(*                                                                         *)
(* Bounds: MaxFrames frames from the server, MaxSends calls of Send,       *)
(* MaxConnects calls of Connect.                                           *)
(***************************************************************************)
EXTENDS Integers, Sequences, FiniteSets, SequencesExt

CONSTANTS Formats,        \* constructor arguments, and the ERawMsgType
          Bodies,         \* what the server's frames carry
          Messages,       \* what Send is called with
          ReceiveBuffer,  \* RAW_RECEIVE_BUFFER_SIZE
          MaxFrames, MaxSends, MaxConnects

Byte == 0..255

ASSUME FormatsAssumption ==
    Formats \subseteq [msg_type : {"with_header", "no_header"}, header_size : Int,
                       length_offset : Int, length_size : Int,
                       length_include_header : BOOLEAN, endian_flip : BOOLEAN]

ASSUME LimitsAssumption ==
    /\ Bodies \subseteq Seq(Byte)
    /\ ReceiveBuffer \in Nat \ {0}
    /\ MaxFrames \in Nat /\ MaxSends \in Nat /\ MaxConnects \in Nat

VARIABLES format,           \* what the object was constructed with
          socket,           \* of m_socket
          thread,           \* m_thrContext: not joinable, in run(), or out of it
          stopped,          \* the io_context is stopped; nothing restarts it
          user,             \* where the user's thread is in Disconnect
          asked,            \* Connect has returned true, no Disconnect since
          terminated,       \* the process has ended
          inHook,           \* OnConnected runs, and the context thread waits for it
          reading, writing, \* the outstanding read; whether a write is outstanding
          posted,           \* lambdas posted to the io_context
          m_qMessagesOut, m_msgTemporaryIn,
          inbound,          \* bytes on their way from the server
          sent, received,   \* frames the server sent, messages pushed to m_qMessagesIn
          written, called,  \* messages written, messages Send was called with
          nConnects

userVars == <<user, asked, nConnects>>
lifeVars == <<userVars, thread, stopped, inHook>>
readVars == <<reading, m_msgTemporaryIn, inbound, received>>
writeVars == <<writing, m_qMessagesOut, written>>
histVars == <<sent, called>>
\* What no handler changes, and what no step of Connect and Disconnect changes.
outerVars == <<format, lifeVars, histVars>>
dataVars == <<format, readVars, writeVars, histVars>>
vars == <<outerVars, socket, terminated, posted, readVars, writeVars>>

-----------------------------------------------------------------------------
(* The length field.                                                        *)

\* The byte v as the most significant one of a 32-bit int.
Signed(v) == IF v >= 128 THEN v - 256 ELSE v

\* Mutant: the bytes are taken in the order of the wire, flip or not.
BodyLengthUnflipped(header) ==
    LET field == SubSeq(header, format.length_offset + 1,
                        format.length_offset + format.length_size)
    IN IF format.length_size = 1 THEN field[1] ELSE field[1] + 256 * field[2]

\* The bytes of the length field, the least significant one first.
LengthField(header) ==
    LET field == SubSeq(header, format.length_offset + 1,
                        format.length_offset + format.length_size)
    IN IF format.endian_flip THEN Reverse(field) ELSE field

CalculateMsgBodyLength(header) ==
    LET b == LengthField(header)
    IN CASE format.length_size = 1 -> b[1]
         [] format.length_size = 2 -> b[1] + 256 * b[2]
         [] format.length_size = 4 ->
                b[1] + 256 * b[2] + 65536 * b[3] + 16777216 * Signed(b[4])

CalculateMsgFullLength(header) ==
    CalculateMsgBodyLength(header)
        + (IF format.length_include_header THEN 0 ELSE format.header_size)

\* The frame with this body that a server of that protocol sends: the length
\* n in the field where the constructor's arguments say, and filler around it.
Filler == 9
LengthBytes(n) ==
    LET digits == SubSeq(<<n % 256, (n \div 256) % 256, (n \div 65536) % 256,
                           (n \div 16777216) % 256>>, 1, format.length_size)
    IN IF format.endian_flip THEN Reverse(digits) ELSE digits

FrameHeader(n) ==
    [i \in 1..format.header_size |->
        IF i - format.length_offset \in DOMAIN LengthBytes(n)
        THEN LengthBytes(n)[i - format.length_offset] ELSE Filler]

FrameOf(body) ==
    IF format.msg_type = "no_header" THEN body
    ELSE FrameHeader(Len(body) + (IF format.length_include_header
                                  THEN format.header_size ELSE 0)) \o body

-----------------------------------------------------------------------------
\* The arguments that the constructors let through.
Constructible(f) ==
    \/ f.msg_type = "no_header"
    \/ /\ f.length_size \in {1, 2, 4}
       /\ f.header_size > 0 /\ f.length_offset > 0
       /\ f.length_offset + f.length_size <= f.header_size

Lambdas == {[call |-> "close"]} \cup {[call |-> "send", msg |-> m] : m \in Messages}

TypeOK ==
    /\ format \in Formats
    /\ socket \in {"closed", "connecting", "open"}
    /\ thread \in {"none", "running", "ended"}
    /\ stopped \in BOOLEAN
    /\ user \in {"out", "stop", "join"}
    /\ asked \in BOOLEAN /\ terminated \in BOOLEAN /\ inHook \in BOOLEAN
    /\ reading \in {"none", "raw", "header", "body"}
    /\ writing \in BOOLEAN
    /\ posted \in Seq(Lambdas)
    /\ m_qMessagesOut \in Seq(Messages)
    /\ m_msgTemporaryIn \in Seq(Byte)
    /\ reading = "body" => Len(m_msgTemporaryIn) = format.header_size
    /\ inbound \in Seq(Byte)
    /\ sent \in Seq(Seq(Byte)) /\ received \in Seq(Seq(Byte))
    /\ written \in Seq(Messages) /\ called \in Seq(Messages)
    /\ nConnects \in 0..MaxConnects

Init ==
    /\ format \in {f \in Formats : Constructible(f)}
    /\ socket = "closed"
    /\ thread = "none" /\ stopped = FALSE
    /\ user = "out" /\ asked = FALSE /\ terminated = FALSE
    /\ inHook = FALSE
    /\ reading = "none" /\ writing = FALSE
    /\ posted = <<>> /\ m_qMessagesOut = <<>> /\ m_msgTemporaryIn = <<>>
    /\ inbound = <<>> /\ sent = <<>> /\ received = <<>>
    /\ written = <<>> /\ called = <<>>
    /\ nConnects = 0

IsConnected == socket # "closed"

\* m_socket.close(): what is outstanding is aborted, what has not been read is lost.
CloseSocket ==
    /\ socket' = "closed"
    /\ reading' = "none" /\ inbound' = <<>> /\ writing' = FALSE
    /\ UNCHANGED <<m_msgTemporaryIn, received, m_qMessagesOut, written>>

-----------------------------------------------------------------------------
(* The user's thread: Connect and Disconnect.                               *)

\* Connect on a socket that is not open.  It begins the async_connect; then a
\* new thread is assigned to m_thrContext, which ends the process if the
\* former one is still joinable.
Connect ==
    /\ user = "out" /\ ~IsConnected
    /\ nConnects < MaxConnects
    /\ nConnects' = nConnects + 1
    /\ socket' = "connecting"
    /\ \/ thread = "none" /\ thread' = "running" /\ asked' = TRUE
          /\ UNCHANGED terminated
       \/ thread # "none" /\ terminated' = TRUE
          /\ UNCHANGED <<thread, asked>>
    /\ UNCHANGED <<dataVars, stopped, user, inHook, posted>>

\* Disconnect, cut where the context thread can run: the close is posted,
\* the io_context is stopped, the thread is joined.  Bound: the user calls it
\* once for each Connect that has returned true.
DisconnectBegin ==
    /\ user = "out" /\ asked
    /\ user' = "stop"
    /\ posted' = IF IsConnected THEN Append(posted, [call |-> "close"]) ELSE posted
    /\ UNCHANGED <<dataVars, socket, terminated, thread, stopped,
                   asked, inHook, nConnects>>

DisconnectStop ==
    /\ user = "stop"
    /\ stopped' = TRUE
    /\ user' = "join"
    /\ UNCHANGED <<dataVars, socket, terminated, posted, thread,
                   asked, inHook, nConnects>>

DisconnectJoin ==
    /\ user = "join" /\ thread # "running"
    /\ thread' = "none"
    /\ user' = "out" /\ asked' = FALSE
    /\ UNCHANGED <<dataVars, socket, terminated, posted,
                   stopped, inHook, nConnects>>

\* Any thread, OnConnected's too, and at any time: Send does not look at the socket.
Send ==
    /\ Len(called) < MaxSends
    /\ \E m \in Messages :
          /\ posted' = Append(posted, [call |-> "send", msg |-> m])
          /\ called' = Append(called, m)
    /\ UNCHANGED <<format, socket, terminated, sent, lifeVars, readVars, writeVars>>

-----------------------------------------------------------------------------
(* The context thread: one handler after the other, until the io_context is *)
(* stopped or has nothing left to do.                                       *)

Runs == thread = "running" /\ ~stopped /\ ~inHook

HasWork == socket = "connecting" \/ reading # "none" \/ writing \/ posted # <<>>

RunReturns ==
    /\ thread = "running" /\ ~inHook
    /\ stopped \/ ~HasWork
    /\ thread' = "ended" /\ stopped' = TRUE
    /\ UNCHANGED <<dataVars, userVars, socket, terminated, posted, inHook>>

FirstRead == IF format.msg_type = "no_header" THEN "raw" ELSE "header"

\* The handler of async_connect.  The future of std::async holds it until
\* OnConnected has returned.
Connected ==
    /\ Runs /\ socket = "connecting"
    /\ socket' = "open"
    /\ reading' = FirstRead
    /\ inHook' = TRUE
    /\ UNCHANGED <<userVars, format, terminated, posted, thread, stopped,
                   m_msgTemporaryIn, inbound, received, writeVars, histVars>>

OnConnectedReturns ==
    /\ inHook
    /\ inHook' = FALSE
    /\ UNCHANGED <<dataVars, userVars, socket, terminated, posted, thread, stopped>>

ConnectFails ==
    /\ Runs /\ socket = "connecting"
    /\ CloseSocket
    /\ UNCHANGED <<outerVars, terminated, posted>>

\* A read or a write fails: the server is gone, or the socket closed already.
OperationFails ==
    /\ Runs /\ socket # "connecting"
    /\ reading # "none" \/ writing
    /\ CloseSocket
    /\ UNCHANGED <<outerVars, terminated, posted>>

-----------------------------------------------------------------------------
(* Reading.                                                                 *)

\* Mutant: no further read.
AddAndStop(msg) ==
    /\ received' = Append(received, msg)
    /\ reading' = "none"

\* AddToIncomingMessageQueue, and the read it begins.
AddToIncomingMessageQueue(msg) ==
    /\ received' = Append(received, msg)
    /\ reading' = FirstRead

From(n) == SubSeq(inbound, n + 1, Len(inbound))

\* Mutant: what the buffer does not hold is dropped.
ReadRawDropping ==
    /\ Runs /\ reading = "raw"
    /\ \E n \in 1..Len(inbound) :
          /\ n <= ReceiveBuffer
          /\ m_msgTemporaryIn' = SubSeq(inbound, 1, n)
          /\ AddToIncomingMessageQueue(SubSeq(inbound, 1, n))
    /\ inbound' = <<>>
    /\ UNCHANGED <<outerVars, socket, terminated, posted, writeVars>>

ReadRaw ==
    /\ Runs /\ reading = "raw"
    /\ \E n \in 1..Len(inbound) :
          /\ n <= ReceiveBuffer
          /\ m_msgTemporaryIn' = SubSeq(inbound, 1, n)
          /\ inbound' = From(n)
          /\ AddToIncomingMessageQueue(SubSeq(inbound, 1, n))
    /\ UNCHANGED <<outerVars, socket, terminated, posted, writeVars>>

\* Mutant: async_receive in place of async_read takes what is there.
ReadHeaderSome ==
    /\ Runs /\ reading = "header" /\ inbound # <<>>
    /\ \E n \in 1..Len(inbound) :
          /\ n <= format.header_size
          /\ m_msgTemporaryIn' = SubSeq(inbound, 1, n)
          /\ inbound' = From(n)
    /\ reading' = "body"
    /\ UNCHANGED <<outerVars, received, socket, terminated, posted, writeVars>>

ReadHeader ==
    /\ Runs /\ reading = "header"
    /\ Len(inbound) >= format.header_size
    /\ LET header == SubSeq(inbound, 1, format.header_size)
       IN /\ m_msgTemporaryIn' = header
          /\ inbound' = From(format.header_size)
          /\ IF CalculateMsgFullLength(header) > format.header_size
             THEN reading' = "body" /\ UNCHANGED received
             ELSE AddToIncomingMessageQueue(header)
    /\ UNCHANGED <<outerVars, socket, terminated, posted, writeVars>>

\* The body is read behind the header, as many bytes as the length field
\* says, into a buffer of the full length.  When those are more than the
\* buffer has left, they are written past its end: the message keeps what
\* fits, or the process is lost.
ReadBody ==
    /\ Runs /\ reading = "body"
    /\ LET n == CalculateMsgBodyLength(m_msgTemporaryIn)
           room == CalculateMsgFullLength(m_msgTemporaryIn) - format.header_size
           kept == SubSeq(inbound, 1, IF n <= room THEN n ELSE room)
       IN /\ Len(inbound) >= n
          /\ inbound' = From(n)
          /\ AddToIncomingMessageQueue(m_msgTemporaryIn \o kept)
          /\ m_msgTemporaryIn' = m_msgTemporaryIn \o kept
          /\ \/ UNCHANGED terminated
             \/ n > room /\ terminated' = TRUE
    /\ UNCHANGED <<outerVars, socket, posted, writeVars>>

-----------------------------------------------------------------------------
(* Writing.                                                                 *)

\* Mutant: the message is popped, and the next one is left where it is.
WriteRawLast ==
    /\ Runs /\ socket = "open" /\ writing
    /\ written' = Append(written, Head(m_qMessagesOut))
    /\ m_qMessagesOut' = Tail(m_qMessagesOut)
    /\ writing' = FALSE
    /\ UNCHANGED <<outerVars, socket, terminated, posted, readVars>>

\* The handler of WriteRaw: pop_front and, when another message waits, the
\* next write.
WriteRaw ==
    /\ Runs /\ socket = "open" /\ writing
    /\ written' = Append(written, Head(m_qMessagesOut))
    /\ m_qMessagesOut' = Tail(m_qMessagesOut)
    /\ writing' = (Tail(m_qMessagesOut) # <<>>)
    /\ UNCHANGED <<outerVars, socket, terminated, posted, readVars>>

\* Mutant: the message goes to the front.
RunPostedFront ==
    /\ Runs /\ posted # <<>>
    /\ posted' = Tail(posted)
    /\ \/ Head(posted).call = "close" /\ CloseSocket
       \/ /\ Head(posted).call = "send"
          /\ m_qMessagesOut' = <<Head(posted).msg>> \o m_qMessagesOut
          /\ writing' = (writing \/ m_qMessagesOut = <<>>)
          /\ UNCHANGED <<socket, readVars, written>>
    /\ UNCHANGED <<outerVars, terminated>>

\* The posted lambdas, in their order.
RunPosted ==
    /\ Runs /\ posted # <<>>
    /\ posted' = Tail(posted)
    /\ \/ Head(posted).call = "close" /\ CloseSocket
       \/ /\ Head(posted).call = "send"
          /\ m_qMessagesOut' = Append(m_qMessagesOut, Head(posted).msg)
          /\ writing' = (writing \/ m_qMessagesOut = <<>>)
          /\ UNCHANGED <<socket, readVars, written>>
    /\ UNCHANGED <<outerVars, terminated>>

-----------------------------------------------------------------------------
\* The foreign server sends a frame of its protocol.
ServerSends ==
    /\ socket = "open"
    /\ Len(sent) < MaxFrames
    /\ \E b \in Bodies :
          LET frame == FrameOf(b)
          IN sent' = Append(sent, frame) /\ inbound' = inbound \o frame
    /\ UNCHANGED <<format, socket, terminated, posted, called, lifeVars, writeVars,
                   reading, m_msgTemporaryIn, received>>

\* What the context thread does by itself, and what Disconnect has left to do.
Handler == Connected \/ OnConnectedReturns \/ ReadRaw \/ ReadHeader \/ ReadBody
               \/ WriteRaw \/ RunPosted \/ RunReturns
Disconnecting == DisconnectStop \/ DisconnectJoin

Next ==
    /\ ~terminated
    /\ \/ Handler \/ Disconnecting
       \/ ConnectFails \/ OperationFails
       \/ Connect \/ DisconnectBegin \/ Send
       \/ ServerSends

Spec == Init /\ [][Next]_vars

\* The two threads are scheduled, a connection attempt ends, what the server
\* sends arrives, OnConnected returns.
FairSpec ==
    /\ Spec
    /\ WF_vars(~terminated /\ Handler) /\ WF_vars(~terminated /\ Disconnecting)

-----------------------------------------------------------------------------
(* Properties.                                                              *)

\* The stream is cut where the server's frames end, whatever the place, width
\* and byte order of the length field ("length_size", "length_include_header",
\* "endian_flip" in TCPRawMsgSender.h), and whatever is lost at the end.
CutAtFrames ==
    format.msg_type = "with_header" => IsPrefix(received, sent)

\* Without a header too, every byte is handed over once and in order.
BytesInOrder == IsPrefix(FlattenSeq(received), FlattenSeq(sent))

\* The messages of the lambdas still to run.
MessagesOf(lambdas) ==
    FlattenSeq([i \in DOMAIN lambdas |-> IF lambdas[i].call = "send"
                                         THEN <<lambdas[i].msg>> ELSE <<>>])

\* A message Send was called with is written, or waits in m_qMessagesOut, or
\* in the io_context, in the order of the calls: failed writes and closed
\* sockets lose, double or overtake none.
NothingOvertaken == written \o m_qMessagesOut \o MessagesOf(posted) = called

\* While the io_context runs and the socket is not closed, one write is
\* outstanding exactly when there is a message to write: Send begins it only
\* if it finds m_qMessagesOut empty, and the handler keeps it going.
OneWrite ==
    ~terminated /\ ~stopped /\ IsConnected => (writing <=> m_qMessagesOut # <<>>)

\* No connection stands, or the user is disconnecting or has disconnected.
Over == terminated \/ socket # "open" \/ user # "out" \/ ~asked

\* "On message received" (TCPRawMsgSender.h): a frame the server has sent is
\* handed over without any further frame, unless the connection is over.
FramesArrive ==
    FlattenSeq(received) # FlattenSeq(sent) /\ ~Over
        ~> FlattenSeq(received) = FlattenSeq(sent) \/ Over

\* "Send a message to the server." (TCPRawMsgSender.h): what Send was called
\* with, before the connection stands or after, is written once it stands,
\* unless the connection is over.
SendsLeave == written # called /\ ~Over ~> written = called \/ Over
=============================================================================
