----------------------- MODULE TCPRawMsgSenderProofs -----------------------
(***************************************************************************)
(* Theorems about TCPRawMsgSender, for every set of formats, bodies and    *)
(* messages and any bounds.                                                *)
(***************************************************************************)
EXTENDS TCPRawMsgSender, SequenceLemmas

(***************************************************************************)
(* OneWrite is not inductive: a second Connect would bring a socket to     *)
(* life beside the messages that a broken connection has left in           *)
(* m_qMessagesOut, with no write to take them.  What excludes it is the    *)
(* life cycle.  A thread that has left run() leaves the io_context stopped *)
(* and is joinable, so that Connect ends the process; only a Disconnect    *)
(* joins it, after it has stopped the io_context.  Without a thread, and   *)
(* with the io_context not stopped, nothing has been posted to run yet.    *)
(***************************************************************************)
LifeCycle ==
    /\ user = "join" => stopped
    /\ thread = "ended" => stopped
    /\ thread = "none" /\ ~stopped => ~writing /\ m_qMessagesOut = <<>>

WriteTyped == m_qMessagesOut \in Seq(Messages) /\ posted \in Seq(Lambdas)

WriteInv == WriteTyped /\ LifeCycle /\ OneWrite

LEMMA WriteInit == Init => WriteInv
BY DEF Init, WriteInv, WriteTyped, LifeCycle, OneWrite, IsConnected, Lambdas

\* A step that leaves the writing side alone, on a socket that is not opened.
LEMMA WriteUntouched ==
    ASSUME WriteInv, UNCHANGED writeVars, posted' \in Seq(Lambdas),
           UNCHANGED <<user, thread, stopped>>,
           terminated => terminated',
           socket' # "closed" => socket # "closed"
    PROVE  WriteInv'
BY DEF WriteInv, WriteTyped, LifeCycle, OneWrite, IsConnected, writeVars

\* m_socket.close() by a handler.
LEMMA WriteClosed ==
    ASSUME WriteInv, Runs, CloseSocket, posted' \in Seq(Lambdas),
           UNCHANGED lifeVars
    PROVE  WriteInv'
BY DEF WriteInv, WriteTyped, LifeCycle, OneWrite, IsConnected, CloseSocket, Runs,
       lifeVars, userVars

LEMMA WriteStep == WriteInv /\ [Next]_vars => WriteInv'
<1> SUFFICES ASSUME WriteInv, [Next]_vars
             PROVE  WriteInv'
    OBVIOUS
<1> USE DEF lifeVars, userVars, outerVars, dataVars, readVars, histVars
<1>1. CASE Connected
  BY <1>1, WriteUntouched DEF Connected, WriteInv, WriteTyped
<1>2. CASE OnConnectedReturns
  BY <1>2, WriteUntouched DEF OnConnectedReturns, WriteInv, WriteTyped
<1>3. CASE ReadRaw
  BY <1>3, WriteUntouched DEF ReadRaw, WriteInv, WriteTyped
<1>4. CASE ReadHeader
  BY <1>4, WriteUntouched DEF ReadHeader, WriteInv, WriteTyped
<1>5. CASE ReadBody
  <2>1. UNCHANGED <<writeVars, posted, socket, user, thread, stopped>>
    BY <1>5 DEF ReadBody
  <2>2. terminated => terminated'
    BY <1>5 DEF ReadBody
  <2> QED
    BY <2>1, <2>2, WriteUntouched DEF WriteInv, WriteTyped
<1>6. ASSUME WriteRaw, ~terminated
      PROVE  WriteInv'
  <2>1. m_qMessagesOut # <<>>
    BY <1>6 DEF WriteRaw, Runs, WriteInv, OneWrite, IsConnected
  <2>2. m_qMessagesOut' \in Seq(Messages)
    BY <1>6, <2>1 DEF WriteRaw, WriteInv, WriteTyped
  <2> QED
    BY <1>6, <2>2 DEF WriteRaw, Runs, WriteInv, WriteTyped, LifeCycle, OneWrite, IsConnected
<1>7. CASE RunPosted
  <2>1. posted' \in Seq(Lambdas) /\ Head(posted) \in Lambdas /\ Runs
    BY <1>7 DEF RunPosted, WriteInv, WriteTyped
  <2>2. CASE Head(posted).call = "close"
    BY <1>7, <2>1, <2>2, WriteClosed DEF RunPosted
  <2>3. CASE Head(posted).call = "send"
    <3>1. Head(posted).msg \in Messages
      BY <2>1, <2>3 DEF Lambdas
    <3>2. /\ m_qMessagesOut' = Append(m_qMessagesOut, Head(posted).msg)
          /\ writing' = (writing \/ m_qMessagesOut = <<>>)
          /\ UNCHANGED <<socket, terminated, user, thread, stopped>>
      BY <1>7, <2>3 DEF RunPosted
    <3>3. m_qMessagesOut' \in Seq(Messages) /\ m_qMessagesOut' # <<>>
      BY <3>1, <3>2 DEF WriteInv, WriteTyped
    <3> QED
      BY <2>1, <3>2, <3>3 DEF Runs, WriteInv, WriteTyped, LifeCycle, OneWrite, IsConnected
  <2> QED
    BY <1>7, <2>2, <2>3 DEF RunPosted
<1>8. CASE RunReturns
  BY <1>8 DEF RunReturns, WriteInv, WriteTyped, LifeCycle, OneWrite, IsConnected, writeVars
<1>9. CASE DisconnectStop
  BY <1>9 DEF DisconnectStop, WriteInv, WriteTyped, LifeCycle, OneWrite, writeVars
<1>10. CASE DisconnectJoin
  BY <1>10 DEF DisconnectJoin, WriteInv, WriteTyped, LifeCycle, OneWrite, writeVars
<1>11. CASE ConnectFails
  BY <1>11, WriteClosed DEF ConnectFails, WriteInv, WriteTyped
<1>12. CASE OperationFails
  BY <1>12, WriteClosed DEF OperationFails, WriteInv, WriteTyped
<1>13. CASE Connect
  \* The thread is new and the io_context has never run, or the process ends.
  BY <1>13 DEF Connect, WriteInv, WriteTyped, LifeCycle, OneWrite, writeVars
<1>14. CASE DisconnectBegin
  <2>1. [call |-> "close"] \in Lambdas
    BY DEF Lambdas
  <2>2. posted' \in Seq(Lambdas)
    BY <1>14, <2>1 DEF DisconnectBegin, WriteInv, WriteTyped
  <2> QED
    BY <1>14, <2>2 DEF DisconnectBegin, WriteInv, WriteTyped, LifeCycle, OneWrite,
                      IsConnected, writeVars
<1>15. CASE Send
  <2>1. posted' \in Seq(Lambdas)
    BY <1>15 DEF Send, Lambdas, WriteInv, WriteTyped
  <2> QED
    BY <1>15, <2>1, WriteUntouched DEF Send
<1>16. CASE ServerSends
  BY <1>16, WriteUntouched DEF ServerSends, WriteInv, WriteTyped
<1>17. CASE UNCHANGED vars
  BY <1>17, WriteUntouched DEF vars, WriteInv, WriteTyped
<1> QED
  BY <1>1, <1>2, <1>3, <1>4, <1>5, <1>6, <1>7, <1>8, <1>9, <1>10, <1>11, <1>12,
     <1>13, <1>14, <1>15, <1>16, <1>17 DEF Next, Handler, Disconnecting

(***************************************************************************)
(* WriteRaw keeps one write outstanding for as long as m_qMessagesOut has  *)
(* a message and the connection stands: the posted lambda of Send and the  *)
(* completion handler never begin two, and never leave none.               *)
(***************************************************************************)
THEOREM OneWriteHolds == Spec => []OneWrite
<1>1. Spec => []WriteInv
  BY WriteInit, WriteStep, PTL DEF Spec
<1>2. WriteInv => OneWrite
  BY DEF WriteInv
<1> QED
  BY <1>1, <1>2, PTL

-----------------------------------------------------------------------------
(***************************************************************************)
(* Typing.  That a header is cut off inbound where there is one, and that  *)
(* a body has a positive length, rests on what the constructors let        *)
(* through and on the header that led to ReadBody; that WriteRaw finds a   *)
(* message, on WriteInv.                                                   *)
(***************************************************************************)
Framing ==
    /\ Constructible(format)
    /\ reading \in {"header", "body"} => format.msg_type = "with_header"
    /\ reading = "body" => CalculateMsgFullLength(m_msgTemporaryIn) > format.header_size

TypeInv == TypeOK /\ Framing

LEMMA HeaderFormat ==
    ASSUME format \in Formats, Constructible(format), format.msg_type = "with_header"
    PROVE  /\ format.length_size \in {1, 2, 4}
           /\ format.length_offset \in Nat \ {0}
           /\ format.header_size \in Nat \ {0}
           /\ format.length_offset + format.length_size <= format.header_size
           /\ format.length_include_header \in BOOLEAN
           /\ format.endian_flip \in BOOLEAN
BY FormatsAssumption DEF Constructible

\* Reverse of SequencesExt, at a type.
LEMMA ReverseType ==
    ASSUME NEW S, NEW s \in Seq(S)
    PROVE  Reverse(s) \in Seq(S) /\ Len(Reverse(s)) = Len(s)
BY DEF Reverse

\* A part of a sequence.
LEMMA PartType ==
    ASSUME NEW S, NEW s \in Seq(S), NEW m \in Nat \ {0}, NEW n \in Nat, n <= Len(s), m <= n + 1
    PROVE  SubSeq(s, m, n) \in Seq(S) /\ Len(SubSeq(s, m, n)) = n - m + 1
<1>1. \A i \in m..n : s[i] \in S
  <2>1. \A i \in m..n : i \in 1..Len(s)
    OBVIOUS
  <2> QED
    BY <2>1, ElementOfSeq
<1> QED
  BY <1>1, SubSeqProperties

LEMMA LengthFieldType ==
    ASSUME format \in Formats, Constructible(format), format.msg_type = "with_header",
           NEW header \in Seq(Byte), Len(header) >= format.header_size
    PROVE  /\ LengthField(header) \in Seq(Byte)
           /\ Len(LengthField(header)) = format.length_size
<1> DEFINE o == format.length_offset
           w == format.length_size
           field == SubSeq(header, o + 1, o + w)
<1>1. LengthField(header) = IF format.endian_flip THEN Reverse(field) ELSE field
  BY DEF LengthField
<1>2. o \in Nat \ {0} /\ w \in {1, 2, 4} /\ o + w <= Len(header)
  <2>1. \A h, l \in Nat : o \in Nat /\ w \in Nat /\ o + w <= h /\ l >= h => o + w <= l
    OBVIOUS
  <2>2. Len(header) \in Nat
    OBVIOUS
  <2> QED
    BY <2>1, <2>2, HeaderFormat
<1> HIDE DEF o, w
<1>3. field \in Seq(Byte) /\ Len(field) = w
  <2>1. o + 1 \in Nat \ {0} /\ o + w \in Nat /\ o + 1 <= o + w + 1 /\ o + w - (o + 1) + 1 = w
    BY <1>2
  <2> QED
    BY <1>2, <2>1, PartType
<1> HIDE DEF field
<1> QED
  BY <1>1, <1>3, ReverseType DEF w

\* The length of a header's body is an integer, and negative only where four
\* bytes are put together in an int.
LEMMA BodyLengthType ==
    ASSUME format \in Formats, Constructible(format), format.msg_type = "with_header",
           NEW header \in Seq(Byte), Len(header) >= format.header_size
    PROVE  CalculateMsgBodyLength(header) \in Int
<1> DEFINE b == LengthField(header)
           w == format.length_size
<1>1. /\ w = 1 => CalculateMsgBodyLength(header) = b[1]
      /\ w = 2 => CalculateMsgBodyLength(header) = b[1] + 256 * b[2]
      /\ w = 4 => CalculateMsgBodyLength(header) =
                     b[1] + 256 * b[2] + 65536 * b[3] + 16777216 * Signed(b[4])
  BY DEF CalculateMsgBodyLength
<1>2. w \in {1, 2, 4}
  BY HeaderFormat
<1>3. b \in Seq(Byte) /\ Len(b) = w
  BY LengthFieldType
<1> HIDE DEF b, w
<1>4. \A i \in 1..w : b[i] \in Int
  <2>1. \A i \in 1..Len(b) : b[i] \in Byte
    BY <1>3, ElementOfSeq
  <2>2. Byte \subseteq Int
    BY DEF Byte
  <2> QED
    BY <1>3, <2>1, <2>2
<1>5. \A v \in Int : Signed(v) \in Int
  BY DEF Signed
<1>6. CASE w = 1
  BY <1>1, <1>4, <1>6
<1>7. CASE w = 2
  BY <1>1, <1>4, <1>7
<1>8. CASE w = 4
  <2>1. b[1] \in Int /\ b[2] \in Int /\ b[3] \in Int /\ b[4] \in Int
    BY <1>4, <1>8
  <2>2. Signed(b[4]) \in Int
    BY <1>5, <2>1
  <2>3. PICK x \in Int, y \in Int, z \in Int, u \in Int :
            x = b[1] /\ y = b[2] /\ z = b[3] /\ u = Signed(b[4])
    BY <2>1, <2>2
  <2>4. CalculateMsgBodyLength(header) = x + 256 * y + 65536 * z + 16777216 * u
    BY <1>1, <1>8, <2>3
  <2> QED
    BY <2>4
<1> QED
  BY <1>2, <1>6, <1>7, <1>8

\* The least significant byte of a number.
LEMMA LowByte == ASSUME NEW n \in Nat PROVE n % 256 \in Byte
BY DEF Byte

LEMMA LengthBytesType ==
    ASSUME format \in Formats, Constructible(format), format.msg_type = "with_header",
           NEW n \in Nat
    PROVE  LengthBytes(n) \in Seq(Byte)
<1> DEFINE all == <<n % 256, (n \div 256) % 256, (n \div 65536) % 256,
                    (n \div 16777216) % 256>>
           w == format.length_size
           digits == SubSeq(all, 1, w)
<1>1. LengthBytes(n) = IF format.endian_flip THEN Reverse(digits) ELSE digits
  BY DEF LengthBytes
<1>2. n \div 256 \in Nat /\ n \div 65536 \in Nat /\ n \div 16777216 \in Nat
  OBVIOUS
<1>3. /\ n % 256 \in Byte /\ (n \div 256) % 256 \in Byte
      /\ (n \div 65536) % 256 \in Byte /\ (n \div 16777216) % 256 \in Byte
  BY <1>2, LowByte
<1>4. all \in Seq(Byte) /\ Len(all) = 4
  BY <1>3
<1>5. w \in {1, 2, 4}
  BY HeaderFormat
<1> HIDE DEF all, w
<1>6. digits \in Seq(Byte)
  <2>1. w \in Nat /\ w <= Len(all) /\ 1 <= w + 1 /\ 1 \in Nat \ {0}
    BY <1>4, <1>5
  <2> QED
    BY <1>4, <2>1, PartType
<1> HIDE DEF digits
<1> QED
  BY <1>1, <1>6, ReverseType

\* What the foreign server sends is a sequence of bytes.
LEMMA FrameType ==
    ASSUME format \in Formats, Constructible(format), NEW body \in Seq(Byte)
    PROVE  FrameOf(body) \in Seq(Byte)
<1>1. CASE format.msg_type = "no_header"
  BY <1>1 DEF FrameOf
<1>2. CASE format.msg_type # "no_header"
  <2>1. format.msg_type = "with_header"
    BY <1>2, FormatsAssumption
  <2>2. format.header_size \in Nat /\ format.length_include_header \in BOOLEAN
    BY <2>1, HeaderFormat
  <2>3. ASSUME NEW n \in Nat
        PROVE  FrameHeader(n) \in Seq(Byte)
    <3>1. \A i \in DOMAIN LengthBytes(n) : LengthBytes(n)[i] \in Byte
      BY <2>1, LengthBytesType, ElementOfSeq, LenProperties
    <3>2. Filler \in Byte
      BY DEF Byte, Filler
    <3>3. FrameHeader(n) \in [1..format.header_size -> Byte]
      BY <3>1, <3>2 DEF FrameHeader
    <3> QED
      BY <2>2, <3>3, SeqDef
  <2> DEFINE n == Len(body) + (IF format.length_include_header THEN format.header_size ELSE 0)
  <2>4. n \in Nat
    BY <2>2
  <2>5. FrameOf(body) = FrameHeader(n) \o body
    BY <1>2 DEF FrameOf
  <2> HIDE DEF n
  <2>6. FrameHeader(n) \o body \in Seq(Byte)
    BY <2>3, <2>4, ConcatProperties
  <2> QED
    BY <2>5, <2>6
<1> QED
  BY <1>1, <1>2

LEMMA TypeInit == Init => TypeInv
<1> SUFFICES ASSUME Init PROVE TypeInv
    OBVIOUS
<1>1. format \in Formats /\ Constructible(format)
  BY DEF Init
<1>2. posted \in Seq(Lambdas) /\ m_qMessagesOut \in Seq(Messages)
  BY DEF Init
<1>3. m_msgTemporaryIn \in Seq(Byte) /\ inbound \in Seq(Byte)
  BY DEF Init
<1>4. sent \in Seq(Seq(Byte)) /\ received \in Seq(Seq(Byte))
  BY DEF Init
<1>5. written \in Seq(Messages) /\ called \in Seq(Messages)
  BY DEF Init
<1>6. nConnects \in 0..MaxConnects
  BY LimitsAssumption DEF Init
<1> QED
  BY <1>1, <1>2, <1>3, <1>4, <1>5, <1>6 DEF Init, TypeInv, TypeOK, Framing

\* The type invariant in three parts: the life cycle, what is read, what is
\* written.
LifeTyped ==
    /\ format \in Formats
    /\ socket \in {"closed", "connecting", "open"}
    /\ thread \in {"none", "running", "ended"}
    /\ stopped \in BOOLEAN
    /\ user \in {"out", "stop", "join"}
    /\ asked \in BOOLEAN /\ terminated \in BOOLEAN /\ inHook \in BOOLEAN
    /\ nConnects \in 0..MaxConnects

ReadTyped ==
    /\ reading \in {"none", "raw", "header", "body"}
    /\ m_msgTemporaryIn \in Seq(Byte)
    /\ reading = "body" => Len(m_msgTemporaryIn) = format.header_size
    /\ inbound \in Seq(Byte)
    /\ received \in Seq(Seq(Byte))
    /\ Framing

SentTyped ==
    /\ writing \in BOOLEAN
    /\ posted \in Seq(Lambdas)
    /\ m_qMessagesOut \in Seq(Messages)
    /\ written \in Seq(Messages) /\ called \in Seq(Messages)
    /\ sent \in Seq(Seq(Byte))

LEMMA TypeParts == TypeInv <=> LifeTyped /\ ReadTyped /\ SentTyped
BY DEF TypeInv, TypeOK, LifeTyped, ReadTyped, SentTyped

LEMMA LifeStep == TypeInv /\ [Next]_vars => LifeTyped'
<1> SUFFICES ASSUME LifeTyped, [Next]_vars
             PROVE  LifeTyped'
    BY TypeParts
<1> USE LimitsAssumption
        DEF LifeTyped, lifeVars, userVars, outerVars, dataVars, readVars, writeVars, histVars
<1>1. CASE Handler
  <2>1. CASE Connected \/ OnConnectedReturns \/ RunReturns
    BY <2>1 DEF Connected, OnConnectedReturns, RunReturns
  <2>2. CASE ReadRaw \/ ReadHeader \/ WriteRaw
    BY <2>2 DEF ReadRaw, ReadHeader, WriteRaw
  <2>3. CASE ReadBody
    BY <2>3 DEF ReadBody
  <2>4. CASE RunPosted
    BY <2>4 DEF RunPosted, CloseSocket
  <2> QED
    BY <1>1, <2>1, <2>2, <2>3, <2>4 DEF Handler
<1>2. CASE Disconnecting
  BY <1>2 DEF Disconnecting, DisconnectStop, DisconnectJoin
<1>3. CASE ConnectFails \/ OperationFails
  BY <1>3 DEF ConnectFails, OperationFails, CloseSocket
<1>4. CASE Connect
  <2>1. nConnects' \in 0..MaxConnects
    BY <1>4 DEF Connect
  <2>2. /\ thread' \in {"none", "running", "ended"}
        /\ asked' \in BOOLEAN /\ terminated' \in BOOLEAN
    BY <1>4 DEF Connect
  <2> QED
    BY <1>4, <2>1, <2>2 DEF Connect
<1>5. CASE DisconnectBegin \/ Send \/ ServerSends
  BY <1>5 DEF DisconnectBegin, Send, ServerSends
<1>6. CASE UNCHANGED vars
  BY <1>6 DEF vars
<1> QED
  BY <1>1, <1>2, <1>3, <1>4, <1>5, <1>6 DEF Next

\* The next read, and the message handed over.
LEMMA AddTyped ==
    ASSUME TypeInv, NEW msg \in Seq(Byte), AddToIncomingMessageQueue(msg),
           format' = format, m_msgTemporaryIn' \in Seq(Byte), inbound' \in Seq(Byte)
    PROVE  ReadTyped'
<1>1. received' \in Seq(Seq(Byte))
  BY TypeParts DEF ReadTyped, AddToIncomingMessageQueue
<1>2. reading' = FirstRead
  BY DEF AddToIncomingMessageQueue
<1>3. format.msg_type \in {"with_header", "no_header"}
  BY FormatsAssumption DEF TypeInv, TypeOK
<1> QED
  BY <1>1, <1>2, <1>3 DEF TypeInv, Framing, ReadTyped, FirstRead, Constructible

\* The length of a header that is being kept, with the format as it is.
LEMMA LengthKept ==
    ASSUME format' = format, NEW header, m_msgTemporaryIn' = header
    PROVE  CalculateMsgFullLength(m_msgTemporaryIn)' = CalculateMsgFullLength(header)
<1>1. LengthField(m_msgTemporaryIn)' = LengthField(header)
  BY DEF LengthField
<1>2. CalculateMsgBodyLength(m_msgTemporaryIn)' = CalculateMsgBodyLength(header)
  BY <1>1 DEF CalculateMsgBodyLength
<1> QED
  BY <1>2 DEF CalculateMsgFullLength

LEMMA ReadUntouched ==
    ASSUME TypeInv, UNCHANGED <<format, reading, m_msgTemporaryIn, received>>,
           inbound' \in Seq(Byte)
    PROVE  ReadTyped'
BY TypeParts, LengthKept DEF ReadTyped, Framing, Constructible

LEMMA ReadClosed ==
    ASSUME TypeInv, CloseSocket, format' = format
    PROVE  ReadTyped'
BY TypeParts DEF ReadTyped, Framing, CloseSocket, Constructible

LEMMA ReadStep == TypeInv /\ [Next]_vars => ReadTyped'
<1> SUFFICES ASSUME TypeInv, [Next]_vars
             PROVE  ReadTyped'
    OBVIOUS
<1> USE DEF lifeVars, userVars, outerVars, dataVars, readVars, writeVars, histVars
<1>0. /\ format \in Formats /\ Constructible(format)
      /\ inbound \in Seq(Byte) /\ m_msgTemporaryIn \in Seq(Byte)
      /\ Len(inbound) \in Nat
  BY DEF TypeInv, TypeOK, Framing
<1>1. CASE Connected
  BY <1>0, <1>1, FormatsAssumption, TypeParts
     DEF Connected, ReadTyped, Framing, FirstRead, Constructible
<1>2. CASE OnConnectedReturns \/ WriteRaw \/ RunReturns \/ Disconnecting
           \/ Connect \/ DisconnectBegin \/ Send
  BY <1>0, <1>2, ReadUntouched
     DEF OnConnectedReturns, WriteRaw, RunReturns, Disconnecting, DisconnectStop,
         DisconnectJoin, Connect, DisconnectBegin, Send
<1>3. CASE ReadRaw
  <2>1. PICK n \in 1..Len(inbound) :
            /\ m_msgTemporaryIn' = SubSeq(inbound, 1, n)
            /\ inbound' = From(n)
            /\ AddToIncomingMessageQueue(SubSeq(inbound, 1, n))
    BY <1>3 DEF ReadRaw
  <2>2. SubSeq(inbound, 1, n) \in Seq(Byte) /\ From(n) \in Seq(Byte)
    BY <1>0, PartType DEF From
  <2>3. format' = format
    BY <1>3 DEF ReadRaw
  <2> QED
    BY <2>1, <2>2, <2>3, AddTyped
<1>4. CASE ReadHeader
  <2> DEFINE h == format.header_size
             header == SubSeq(inbound, 1, h)
  <2>1. /\ Len(inbound) >= h /\ format.msg_type = "with_header" /\ format' = format
        /\ m_msgTemporaryIn' = header /\ inbound' = From(h)
    BY <1>4 DEF ReadHeader, TypeInv, Framing
  <2>2. h \in Nat \ {0}
    BY <1>0, <2>1, HeaderFormat
  <2>3. header \in Seq(Byte) /\ Len(header) = h /\ From(h) \in Seq(Byte)
    <3> HIDE DEF h
    <3> QED
      BY <1>0, <2>1, <2>2, PartType DEF From
  <2>4. CASE CalculateMsgFullLength(header) > h
    <3>1. reading' = "body" /\ UNCHANGED received
      BY <1>4, <2>4 DEF ReadHeader
    <3>2. CalculateMsgFullLength(m_msgTemporaryIn)' > format'.header_size
      BY <2>1, <2>4, LengthKept
    <3> QED
      BY <1>0, <2>1, <2>3, <3>1, <3>2, TypeParts DEF ReadTyped, Framing, Constructible
  <2>5. CASE ~(CalculateMsgFullLength(header) > h)
    <3>1. AddToIncomingMessageQueue(header)
      BY <1>4, <2>5 DEF ReadHeader
    <3> QED
      BY <2>1, <2>3, <3>1, AddTyped
  <2> QED
    BY <2>4, <2>5
<1>5. CASE ReadBody
  <2> DEFINE n == CalculateMsgBodyLength(m_msgTemporaryIn)
             room == CalculateMsgFullLength(m_msgTemporaryIn) - format.header_size
             k == IF n <= room THEN n ELSE room
             kept == SubSeq(inbound, 1, k)
  <2>1. /\ Len(inbound) >= n /\ inbound' = From(n) /\ format' = format
        /\ m_msgTemporaryIn' = m_msgTemporaryIn \o kept
        /\ AddToIncomingMessageQueue(m_msgTemporaryIn \o kept)
    BY <1>5 DEF ReadBody
  <2>2. /\ format.msg_type = "with_header" /\ Len(m_msgTemporaryIn) = format.header_size
        /\ CalculateMsgFullLength(m_msgTemporaryIn) > format.header_size
    BY <1>5 DEF ReadBody, TypeInv, TypeOK, Framing
  <2>3. n \in Int /\ format.header_size \in Nat \ {0}
    BY <1>0, <2>2, HeaderFormat, BodyLengthType
  <2>4. room = n - (IF format.length_include_header THEN format.header_size ELSE 0) /\ room > 0
    BY <2>2, <2>3 DEF CalculateMsgFullLength
  <2> HIDE DEF n, room
  <2>5. n \in Nat \ {0} /\ k \in Nat /\ k <= Len(inbound)
    BY <1>0, <2>1, <2>3, <2>4
  <2> HIDE DEF k
  <2>6. From(n) \in Seq(Byte) /\ kept \in Seq(Byte)
    BY <1>0, <2>1, <2>5, PartType DEF From
  <2> HIDE DEF kept
  <2>7. m_msgTemporaryIn \o kept \in Seq(Byte)
    BY <1>0, <2>6, ConcatProperties
  <2> QED
    BY <2>1, <2>6, <2>7, AddTyped
<1>6. CASE RunPosted
  <2>1. format' = format /\ (CloseSocket \/ UNCHANGED readVars)
    BY <1>6 DEF RunPosted
  <2> QED
    BY <1>0, <2>1, ReadClosed, ReadUntouched
<1>7. CASE ConnectFails \/ OperationFails
  BY <1>7, ReadClosed DEF ConnectFails, OperationFails
<1>8. CASE ServerSends
  <2>1. PICK b \in Bodies : inbound' = inbound \o FrameOf(b)
    BY <1>8 DEF ServerSends
  <2>2. inbound' \in Seq(Byte)
    BY <1>0, <2>1, FrameType, ConcatProperties, LimitsAssumption
  <2> QED
    BY <1>8, <2>2, ReadUntouched DEF ServerSends
<1>9. CASE UNCHANGED vars
  BY <1>0, <1>9, ReadUntouched DEF vars
<1> QED
  BY <1>1, <1>2, <1>3, <1>4, <1>5, <1>6, <1>7, <1>8, <1>9 DEF Next, Handler

LEMMA SentStep == TypeInv /\ WriteInv /\ [Next]_vars => SentTyped'
<1> SUFFICES ASSUME TypeInv, WriteInv, [Next]_vars
             PROVE  SentTyped'
    OBVIOUS
<1> USE DEF lifeVars, userVars, outerVars, dataVars, readVars, writeVars, histVars
<1>0. SentTyped
  BY TypeParts
<1>1. m_qMessagesOut' \in Seq(Messages) /\ posted' \in Seq(Lambdas)
  BY WriteStep DEF WriteInv, WriteTyped
<1>2. CASE Connected \/ OnConnectedReturns \/ ReadRaw \/ ReadHeader \/ ReadBody
           \/ RunReturns \/ Disconnecting \/ Connect \/ DisconnectBegin
  BY <1>0, <1>1, <1>2
     DEF SentTyped, Connected, OnConnectedReturns, ReadRaw, ReadHeader, ReadBody, RunReturns,
         Disconnecting, DisconnectStop, DisconnectJoin, Connect, DisconnectBegin
<1>3. CASE ConnectFails \/ OperationFails \/ RunPosted
  BY <1>0, <1>1, <1>3 DEF SentTyped, ConnectFails, OperationFails, RunPosted, CloseSocket
<1>4. ASSUME WriteRaw, ~terminated
      PROVE  SentTyped'
  <2>1. m_qMessagesOut # <<>>
    BY <1>4 DEF WriteRaw, Runs, WriteInv, OneWrite, IsConnected
  <2>2. Head(m_qMessagesOut) \in Messages
    BY <1>0, <2>1 DEF SentTyped
  <2>3. written' \in Seq(Messages) /\ writing' \in BOOLEAN
    BY <1>0, <1>4, <2>2 DEF SentTyped, WriteRaw
  <2> QED
    BY <1>0, <1>1, <1>4, <2>3 DEF SentTyped, WriteRaw
<1>5. CASE Send
  BY <1>0, <1>1, <1>5 DEF SentTyped, Send
<1>6. CASE ServerSends
  <2>1. PICK b \in Bodies : sent' = Append(sent, FrameOf(b))
    BY <1>6 DEF ServerSends
  <2>2. FrameOf(b) \in Seq(Byte)
    BY FrameType, LimitsAssumption DEF TypeInv, TypeOK, Framing
  <2>3. sent' \in Seq(Seq(Byte))
    BY <1>0, <2>1, <2>2 DEF SentTyped
  <2> QED
    BY <1>0, <1>1, <1>6, <2>3 DEF SentTyped, ServerSends
<1>7. CASE UNCHANGED vars
  BY <1>0, <1>7 DEF SentTyped, vars
<1> QED
  BY <1>2, <1>3, <1>4, <1>5, <1>6, <1>7 DEF Next, Handler

LEMMA TypeStep == TypeInv /\ WriteInv /\ [Next]_vars => TypeInv'
<1> SUFFICES ASSUME TypeInv, WriteInv, [Next]_vars PROVE TypeInv'
    OBVIOUS
<1>1. LifeTyped' /\ ReadTyped' /\ SentTyped'
  BY LifeStep, ReadStep, SentStep
<1> QED
  BY <1>1 DEF TypeInv, TypeOK, LifeTyped, ReadTyped, SentTyped

(***************************************************************************)
(* Every variable of the raw sender keeps its type, for any formats the    *)
(* constructors let through: in particular a body is read only behind a    *)
(* whole header, and what is handed over is cut out of what has arrived.   *)
(***************************************************************************)
THEOREM TypeCorrect == Spec => []TypeOK
<1>1. Init => TypeInv /\ WriteInv
  BY TypeInit, WriteInit
<1>2. TypeInv /\ WriteInv /\ [Next]_vars => TypeInv' /\ WriteInv'
  BY TypeStep, WriteStep
<1>3. TypeInv => TypeOK
  BY DEF TypeInv
<1> QED
  BY <1>1, <1>2, <1>3, PTL DEF Spec

-----------------------------------------------------------------------------
(* The messages Send was called with.                                       *)

SendOf(l) == IF l.call = "send" THEN <<l.msg>> ELSE <<>>

LEMMA SendType == ASSUME NEW l \in Lambdas PROVE SendOf(l) \in Seq(Messages)
BY DEF SendOf, Lambdas

LEMMA SendsType ==
    ASSUME NEW q \in Seq(Lambdas)
    PROVE  /\ [i \in DOMAIN q |-> SendOf(q[i])] \in Seq(Seq(Messages))
           /\ Len([i \in DOMAIN q |-> SendOf(q[i])]) = Len(q)
<1>1. Len(q) \in Nat /\ DOMAIN q = 1..Len(q)
  OBVIOUS
<1>2. \A i \in 1..Len(q) : SendOf(q[i]) \in Seq(Messages)
  BY SendType
<1> QED
  BY <1>1, <1>2

LEMMA MessagesType ==
    ASSUME NEW q \in Seq(Lambdas)
    PROVE  /\ MessagesOf(q) = FlattenSeq([i \in DOMAIN q |-> SendOf(q[i])])
           /\ MessagesOf(q) \in Seq(Messages)
<1>1. MessagesOf(q) = FlattenSeq([i \in DOMAIN q |-> SendOf(q[i])])
  BY DEF MessagesOf, SendOf
<1> QED
  BY <1>1, SendsType, FlattenType

LEMMA MessagesAppend ==
    ASSUME NEW q \in Seq(Lambdas), NEW l \in Lambdas
    PROVE  MessagesOf(Append(q, l)) = MessagesOf(q) \o SendOf(l)
<1>1. PICK f : f = [i \in DOMAIN q |-> SendOf(q[i])]
  OBVIOUS
<1>2. PICK g : g = [i \in DOMAIN Append(q, l) |-> SendOf(Append(q, l)[i])]
  OBVIOUS
<1>3. Append(q, l) \in Seq(Lambdas) /\ SendOf(l) \in Seq(Messages)
  BY SendType
<1>4. f \in Seq(Seq(Messages)) /\ Len(f) = Len(q)
  BY <1>1, SendsType
<1>5. g \in Seq(Seq(Messages)) /\ Len(g) = Len(q) + 1
  <2>1. g \in Seq(Seq(Messages)) /\ Len(g) = Len(Append(q, l))
    BY <1>2, <1>3, SendsType
  <2> QED BY <2>1
<1>6. Append(f, SendOf(l)) \in Seq(Seq(Messages)) /\ Len(Append(f, SendOf(l))) = Len(q) + 1
  BY <1>3, <1>4
<1>7. ASSUME NEW i \in 1..Len(g) PROVE g[i] = Append(f, SendOf(l))[i]
  BY <1>1, <1>2, <1>4, <1>5
<1>8. g = Append(f, SendOf(l))
  BY <1>5, <1>6, <1>7, SeqEqual
<1>9. FlattenSeq(Append(f, SendOf(l))) = FlattenSeq(f) \o SendOf(l)
  BY <1>3, <1>4, FlattenAppend
<1> QED
  BY <1>1, <1>2, <1>3, <1>8, <1>9, MessagesType

LEMMA MessagesTail ==
    ASSUME NEW q \in Seq(Lambdas), q # <<>>
    PROVE  MessagesOf(q) = SendOf(Head(q)) \o MessagesOf(Tail(q))
<1>1. PICK f : f = [i \in DOMAIN q |-> SendOf(q[i])]
  OBVIOUS
<1>2. PICK g : g = [i \in DOMAIN Tail(q) |-> SendOf(Tail(q)[i])]
  OBVIOUS
<1>3. Head(q) \in Lambdas /\ Tail(q) \in Seq(Lambdas) /\ Len(Tail(q)) = Len(q) - 1
      /\ Head(q) = q[1] /\ \A i \in 1..Len(q) - 1 : Tail(q)[i] = q[i + 1]
      /\ Len(q) \in Nat \ {0} /\ DOMAIN q = 1..Len(q) /\ DOMAIN Tail(q) = 1..Len(q) - 1
  OBVIOUS
<1>4. f \in Seq(Seq(Messages)) /\ Len(f) = Len(q) /\ f # <<>>
  <2>1. f \in Seq(Seq(Messages)) /\ Len(f) = Len(q)
    BY <1>1, SendsType
  <2> QED BY <1>3, <2>1
<1>5. g \in Seq(Seq(Messages)) /\ Len(g) = Len(q) - 1
  BY <1>2, <1>3, SendsType
<1>6. Tail(f) \in Seq(Seq(Messages)) /\ Len(Tail(f)) = Len(q) - 1
      /\ \A i \in 1..Len(q) - 1 : Tail(f)[i] = f[i + 1]
  BY <1>4
<1>7. ASSUME NEW i \in 1..Len(g) PROVE g[i] = Tail(f)[i]
  <2>1. i \in 1..Len(q) - 1 /\ i + 1 \in 1..Len(q)
    BY <1>3, <1>5
  <2> QED BY <2>1, <1>1, <1>2, <1>3, <1>6
<1>8. g = Tail(f)
  BY <1>5, <1>6, <1>7, SeqEqual
<1>9. FlattenSeq(f) = Head(f) \o FlattenSeq(Tail(f))
  BY <1>4, FlattenHead
<1>10. Head(f) = SendOf(Head(q))
  BY <1>1, <1>3, <1>4
<1> QED
  BY <1>1, <1>2, <1>3, <1>8, <1>9, <1>10, MessagesType

OrderInv == TypeInv /\ WriteInv /\ NothingOvertaken

LEMMA OrderInit == Init => OrderInv
<1> SUFFICES ASSUME Init PROVE OrderInv
    OBVIOUS
<1>1. posted = <<>> /\ written = <<>> /\ m_qMessagesOut = <<>> /\ called = <<>>
  BY DEF Init
<1>2. MessagesOf(posted) = <<>>
  <2>1. [i \in DOMAIN posted |-> SendOf(posted[i])] = <<>>
    BY <1>1
  <2>2. MessagesOf(posted) = FlattenSeq([i \in DOMAIN posted |-> SendOf(posted[i])])
    BY DEF MessagesOf, SendOf
  <2> QED BY <2>1, <2>2, FlattenEmpty
<1>3. (written \o m_qMessagesOut) \o MessagesOf(posted) = called
  BY <1>1, <1>2
<1> QED BY <1>3, TypeInit, WriteInit DEF OrderInv, NothingOvertaken

LEMMA OrderStep == OrderInv /\ [Next]_vars => NothingOvertaken'
<1> SUFFICES ASSUME OrderInv, [Next]_vars PROVE NothingOvertaken'
    OBVIOUS
<1> USE DEF lifeVars, userVars, outerVars, dataVars, readVars, writeVars, histVars
<1>0. /\ posted \in Seq(Lambdas) /\ m_qMessagesOut \in Seq(Messages)
      /\ written \in Seq(Messages) /\ called \in Seq(Messages)
      /\ MessagesOf(posted) \in Seq(Messages)
      /\ written \o m_qMessagesOut \in Seq(Messages)
      /\ (written \o m_qMessagesOut) \o MessagesOf(posted) = called
  <2>1. /\ posted \in Seq(Lambdas) /\ m_qMessagesOut \in Seq(Messages)
        /\ written \in Seq(Messages) /\ called \in Seq(Messages)
    BY DEF OrderInv, TypeInv, TypeOK
  <2>2. (written \o m_qMessagesOut) \o MessagesOf(posted) = called
    BY DEF OrderInv, NothingOvertaken
  <2>3. written \o m_qMessagesOut \in Seq(Messages)
    BY <2>1
  <2> QED BY <2>1, <2>2, <2>3, MessagesType
\* A step that posts a lambda, and calls Send with what it sends.
<1>1. ASSUME NEW l \in Lambdas, posted' = Append(posted, l), called' = called \o SendOf(l),
             UNCHANGED <<written, m_qMessagesOut>>
      PROVE  NothingOvertaken'
  <2>1. MessagesOf(posted') = MessagesOf(posted) \o SendOf(l) /\ SendOf(l) \in Seq(Messages)
    BY <1>0, <1>1, MessagesAppend, SendType
  <2>2. written \o m_qMessagesOut \in Seq(Messages) /\ MessagesOf(posted) \in Seq(Messages)
        /\ SendOf(l) \in Seq(Messages)
    BY <1>0, <2>1
  <2>3. PICK w \in Seq(Messages), p \in Seq(Messages), s \in Seq(Messages) :
            w = written \o m_qMessagesOut /\ p = MessagesOf(posted) /\ s = SendOf(l)
    BY <2>2
  <2>4. w \o (p \o s) = (w \o p) \o s
    BY ConcatAssociative, SMTT(30)
  <2> QED BY <1>0, <1>1, <2>1, <2>3, <2>4 DEF NothingOvertaken
\* A step that leaves all of them alone.
<1>2. ASSUME UNCHANGED <<posted, called, written, m_qMessagesOut>>
      PROVE  NothingOvertaken'
  BY <1>0, <1>2 DEF NothingOvertaken
<1>3. CASE Connected \/ OnConnectedReturns \/ ReadRaw \/ ReadHeader \/ ReadBody
           \/ RunReturns \/ Disconnecting \/ Connect \/ ServerSends
  BY <1>2, <1>3
     DEF Connected, OnConnectedReturns, ReadRaw, ReadHeader, ReadBody, RunReturns,
         Disconnecting, DisconnectStop, DisconnectJoin, Connect, ServerSends
<1>4. CASE ConnectFails \/ OperationFails
  BY <1>2, <1>4 DEF ConnectFails, OperationFails, CloseSocket
<1>5. CASE DisconnectBegin
  <2>1. CASE IsConnected
    <3>1. PICK l : l = [call |-> "close"]
      OBVIOUS
    <3>2. l \in Lambdas /\ SendOf(l) = <<>> /\ called \o SendOf(l) = called
      BY <1>0, <3>1 DEF Lambdas, SendOf
    <3> QED BY <1>1, <1>5, <2>1, <3>1, <3>2 DEF DisconnectBegin
  <2>2. CASE ~IsConnected
    BY <1>2, <1>5, <2>2 DEF DisconnectBegin
  <2> QED BY <2>1, <2>2
<1>6. CASE Send
  <2>1. PICK m \in Messages : /\ posted' = Append(posted, [call |-> "send", msg |-> m])
                              /\ called' = Append(called, m)
    BY <1>6 DEF Send
  <2>2. PICK l : l = [call |-> "send", msg |-> m]
    OBVIOUS
  <2>3. l \in Lambdas /\ SendOf(l) = <<m>>
    BY <2>2 DEF Lambdas, SendOf
  <2>4. Append(called, m) = called \o <<m>>
    BY <1>0, AppendIsConcat
  <2> QED BY <1>1, <1>6, <2>1, <2>2, <2>3, <2>4 DEF Send
<1>7. CASE RunPosted
  <2>1. /\ posted # <<>> /\ posted' = Tail(posted)
        /\ Head(posted) \in Lambdas /\ Tail(posted) \in Seq(Lambdas)
    BY <1>0, <1>7 DEF RunPosted
  <2>2. /\ MessagesOf(posted) = SendOf(Head(posted)) \o MessagesOf(Tail(posted))
        /\ MessagesOf(Tail(posted)) \in Seq(Messages)
        /\ SendOf(Head(posted)) \in Seq(Messages)
    BY <1>0, <2>1, MessagesTail, MessagesType, SendType
  <2>3. written' = written /\ called' = called
        /\ m_qMessagesOut' = m_qMessagesOut \o SendOf(Head(posted))
    <3>1. CASE Head(posted).call = "close"
      BY <1>0, <1>7, <3>1 DEF RunPosted, CloseSocket, SendOf
    <3>2. CASE Head(posted).call = "send"
      <4>1. Head(posted).msg \in Messages
        BY <2>1, <3>2 DEF Lambdas
      <4>2. m_qMessagesOut' = Append(m_qMessagesOut, Head(posted).msg)
            /\ UNCHANGED <<written, called>>
        BY <1>7, <3>2 DEF RunPosted
      <4>3. SendOf(Head(posted)) = <<Head(posted).msg>>
        BY <3>2 DEF SendOf
      <4> QED BY <1>0, <4>1, <4>2, <4>3, AppendIsConcat
    <3> QED BY <1>7, <3>1, <3>2 DEF RunPosted
  <2>4. PICK s \in Seq(Messages), t \in Seq(Messages) :
            s = SendOf(Head(posted)) /\ t = MessagesOf(Tail(posted))
    BY <2>2
  <2>7. /\ written \in Seq(Messages) /\ m_qMessagesOut \in Seq(Messages)
        /\ written \o m_qMessagesOut \in Seq(Messages)
    BY <1>0
  <2>5. written \o (m_qMessagesOut \o s) = (written \o m_qMessagesOut) \o s
    BY <2>7, ConcatAssociative, SMTT(60)
  <2>6. ((written \o m_qMessagesOut) \o s) \o t = (written \o m_qMessagesOut) \o (s \o t)
    BY <2>7, ConcatAssociative, SMTT(60)
  <2> QED BY <1>0, <2>1, <2>2, <2>3, <2>4, <2>5, <2>6 DEF NothingOvertaken
<1>8. ASSUME WriteRaw, ~terminated PROVE NothingOvertaken'
  <2>1. m_qMessagesOut # <<>>
    BY <1>8 DEF WriteRaw, Runs, OrderInv, WriteInv, OneWrite, IsConnected
  <2>2. PICK m \in Messages, q \in Seq(Messages) : m_qMessagesOut = <<m>> \o q
            /\ Head(m_qMessagesOut) = m /\ Tail(m_qMessagesOut) = q
    <3>1. Head(m_qMessagesOut) \in Messages /\ Tail(m_qMessagesOut) \in Seq(Messages)
          /\ m_qMessagesOut = <<Head(m_qMessagesOut)>> \o Tail(m_qMessagesOut)
      BY <1>0, <2>1
    <3> QED BY <3>1
  <2>3. PICK u \in Seq(Messages) : u = <<m>>
    <3>1. <<m>> \in Seq(Messages)
      BY <2>2
    <3> QED BY <3>1
  <2>4. written' = written \o u /\ m_qMessagesOut' = q /\ UNCHANGED <<posted, called>>
    <3>1. Append(written, m) = written \o <<m>>
      BY <1>0, <2>2, AppendIsConcat
    <3> QED BY <1>8, <2>2, <2>3, <3>1 DEF WriteRaw
  <2>5. written \o (u \o q) = (written \o u) \o q
    <3>1. written \in Seq(Messages)
      BY <1>0
    <3> QED BY <3>1, ConcatAssociative, SMTT(30)
  <2> QED BY <1>0, <2>2, <2>3, <2>4, <2>5 DEF NothingOvertaken
<1>9. CASE UNCHANGED vars
  BY <1>2, <1>9 DEF vars
<1> QED
  BY <1>3, <1>4, <1>5, <1>6, <1>7, <1>8, <1>9 DEF Next, Handler

(***************************************************************************)
(* A message Send was called with is written, or waits in m_qMessagesOut   *)
(* or in the io_context, in the order of the calls, over any number of     *)
(* connections: NothingOvertaken.                                          *)
(***************************************************************************)
THEOREM OrderKept == Spec => []NothingOvertaken
<1>1. OrderInv /\ [Next]_vars => OrderInv'
  BY OrderStep, TypeStep, WriteStep DEF OrderInv
<1>2. OrderInv => NothingOvertaken
  BY DEF OrderInv
<1> QED BY OrderInit, <1>1, <1>2, PTL DEF Spec

-----------------------------------------------------------------------------
(* The length field, written by the server and read by the client.          *)

\* How many bytes a length field of this width counts, where four of them
\* make a signed int.
Capacity(w) == CASE w = 1 -> 256 [] w = 2 -> 65536 [] w = 4 -> 2147483648

LEMMA Quotient ==
    ASSUME NEW n \in Nat
    PROVE  \E q \in Nat, r \in 0..255 : q = n \div 256 /\ n = 256 * q + r
<1>1. n \div 256 \in Nat
  OBVIOUS
<1>2. PICK q \in Nat : q = n \div 256
  BY <1>1
<1>3. n - 256 * q \in 0..255
  BY <1>2
<1>4. PICK r \in 0..255 : r = n - 256 * q
  BY <1>3
<1>5. n = 256 * q + r
  BY <1>4
<1> QED BY <1>2, <1>5

\* A number is made of its bytes.
LEMMA Digits ==
    ASSUME NEW n \in Nat
    PROVE  /\ n < 256 => n % 256 = n
           /\ n < 65536 => (n % 256) + 256 * ((n \div 256) % 256) = n
           /\ n < 2147483648 =>
                /\ (n \div 16777216) % 256 < 128
                /\ (n % 256) + 256 * ((n \div 256) % 256) + 65536 * ((n \div 65536) % 256)
                     + 16777216 * ((n \div 16777216) % 256) = n
<1>1. PICK a \in Nat, x \in 0..255 : a = n \div 256 /\ n = 256 * a + x
  BY Quotient
<1>2. PICK b \in Nat, y \in 0..255 : b = a \div 256 /\ a = 256 * b + y
  BY Quotient
<1>3. PICK c \in Nat, z \in 0..255 : c = b \div 256 /\ b = 256 * c + z
  BY Quotient
<1>4. b = n \div 65536
  <2>1. PICK r \in Nat : r = 256 * y + x /\ r < 65536
    OBVIOUS
  <2>2. n = 65536 * b + r
    BY <1>1, <1>2, <2>1
  <2> QED BY <2>1, <2>2
<1>5. c = n \div 16777216
  <2>1. PICK r \in Nat : r = 65536 * z + 256 * y + x /\ r < 16777216
    OBVIOUS
  <2>2. n = 16777216 * c + r
    BY <1>1, <1>2, <1>3, <2>1
  <2> QED BY <2>1, <2>2
<1>6. n % 256 = x /\ (n \div 256) % 256 = y /\ (n \div 65536) % 256 = z
  BY <1>1, <1>2, <1>3, <1>4
<1>7. n < 256 => n % 256 = n
  OBVIOUS
<1>8. n < 65536 => (n % 256) + 256 * ((n \div 256) % 256) = n
  <2>1. n < 65536 => b = 0
    BY <1>1, <1>2
  <2> QED BY <1>1, <1>2, <1>6, <2>1
<1>9. n < 2147483648 => (n \div 16777216) % 256 = c /\ c < 128
  <2>1. n < 2147483648 => c < 128
    BY <1>1, <1>2, <1>3
  <2> QED BY <1>5, <2>1
<1>10. n = x + 256 * y + 65536 * z + 16777216 * c
  BY <1>1, <1>2, <1>3
<1> QED BY <1>6, <1>7, <1>8, <1>9, <1>10

LEMMA ReverseTwice ==
    ASSUME NEW S, NEW s \in Seq(S)
    PROVE  Reverse(Reverse(s)) = s
<1>1. PICK n \in Nat : n = Len(s) /\ s \in [1..n -> S]
  OBVIOUS
<1>2. Reverse(s) = [i \in 1..n |-> s[(n - i) + 1]]
  BY <1>1 DEF Reverse
<1>3. Len(Reverse(s)) = n
  BY <1>1, ReverseType
<1>4. Reverse(Reverse(s)) = [i \in 1..n |-> Reverse(s)[(n - i) + 1]]
  BY <1>3 DEF Reverse
<1>5. ASSUME NEW i \in 1..n PROVE Reverse(s)[(n - i) + 1] = s[i]
  <2>1. (n - i) + 1 \in 1..n /\ (n - ((n - i) + 1)) + 1 = i
    OBVIOUS
  <2> QED BY <1>2, <2>1
<1>6. Reverse(Reverse(s)) = [i \in 1..n |-> s[i]]
  BY <1>4, <1>5
<1> QED BY <1>1, <1>6

\* What the server writes into a header the client reads out of it.
LEMMA LengthRead ==
    ASSUME format \in Formats, Constructible(format), format.msg_type = "with_header",
           NEW n \in Nat, n < Capacity(format.length_size)
    PROVE  /\ FrameHeader(n) \in Seq(Byte) /\ Len(FrameHeader(n)) = format.header_size
           /\ CalculateMsgBodyLength(FrameHeader(n)) = n
<1>1. PICK o \in Nat \ {0}, w \in {1, 2, 4}, h \in Nat \ {0} :
          /\ o = format.length_offset /\ w = format.length_size /\ h = format.header_size
          /\ o + w <= h
  <2>1. /\ format.length_size \in {1, 2, 4} /\ format.length_offset \in Nat \ {0}
        /\ format.header_size \in Nat \ {0}
        /\ format.length_offset + format.length_size <= format.header_size
    BY HeaderFormat
  <2> QED BY <2>1
<1> DEFINE all == <<n % 256, (n \div 256) % 256, (n \div 65536) % 256,
                    (n \div 16777216) % 256>>
<1>2. /\ all[1] = n % 256 /\ all[2] = (n \div 256) % 256
      /\ all[3] = (n \div 65536) % 256 /\ all[4] = (n \div 16777216) % 256
  OBVIOUS
<1>3. all \in Seq(Byte) /\ Len(all) = 4
  <2>1. n \div 256 \in Nat /\ n \div 65536 \in Nat /\ n \div 16777216 \in Nat
    OBVIOUS
  <2>2. /\ n % 256 \in Byte /\ (n \div 256) % 256 \in Byte
        /\ (n \div 65536) % 256 \in Byte /\ (n \div 16777216) % 256 \in Byte
    BY <2>1, LowByte
  <2> QED BY <2>2
<1>4. LengthBytes(n) = IF format.endian_flip THEN Reverse(SubSeq(all, 1, w))
                       ELSE SubSeq(all, 1, w)
  BY <1>1 DEF LengthBytes
<1> HIDE DEF all
<1> DEFINE digits == SubSeq(all, 1, w)
<1>5. /\ digits \in Seq(Byte) /\ Len(digits) = w
      /\ \A i \in 1..w : digits[i] = all[i]
  <2>1. w \in Nat /\ w <= Len(all) /\ 1 <= w + 1 /\ w - 1 + 1 = w /\ 1 \in Nat \ {0}
    BY <1>3
  <2>2. digits \in Seq(Byte) /\ Len(digits) = w
    <3>1. PICK a \in Seq(Byte), k \in Nat : a = all /\ k = w /\ k <= Len(a) /\ 1 <= k + 1
      BY <1>3, <2>1
    <3>2. SubSeq(a, 1, k) \in Seq(Byte) /\ Len(SubSeq(a, 1, k)) = k - 1 + 1
      BY <3>1, PartType
    <3> QED BY <2>1, <3>1, <3>2
  <2>3. \A i \in 1..w : all[i] \in Byte
    <3>1. \A i \in 1..4 : all[i] \in Byte
      BY <1>3, ElementOfSeq
    <3>2. \A i \in 1..w : i \in 1..4
      BY <1>3, <2>1
    <3> QED BY <3>1, <3>2
  <2>4. \A i \in 1..w - 1 + 1 : digits[i] = all[1 + i - 1]
    BY <2>1, <2>3, SubSeqProperties
  <2> QED BY <2>1, <2>2, <2>4
<1>6. LengthBytes(n) = IF format.endian_flip THEN Reverse(digits) ELSE digits
  BY <1>4
<1> HIDE DEF digits
<1>7. PICK b : b = LengthBytes(n)
  OBVIOUS
<1>8. b \in Seq(Byte) /\ Len(b) = w /\ DOMAIN b = 1..w
  <2>1. b \in Seq(Byte) /\ Len(b) = w
    BY <1>5, <1>6, <1>7, ReverseType
  <2> QED BY <2>1
<1>9. PICK head : head = FrameHeader(n)
  OBVIOUS
<1>10. head = [i \in 1..h |-> IF i - o \in 1..w THEN b[i - o] ELSE Filler]
  BY <1>1, <1>7, <1>8, <1>9 DEF FrameHeader
<1>11. head \in Seq(Byte) /\ Len(head) = h
  <2>1. \A i \in 1..w : b[i] \in Byte
    BY <1>8
  <2>2. Filler \in Byte
    BY DEF Byte, Filler
  <2>3. head \in [1..h -> Byte]
    BY <1>10, <2>1, <2>2
  <2>4. h \in Nat
    BY <1>1
  <2>5. head \in Seq(Byte)
    BY <2>3, <2>4, SeqDef
  <2> QED BY <2>3, <2>4, <2>5
<1>12. SubSeq(head, o + 1, o + w) = b
  <2>1. o + 1 \in Nat \ {0} /\ o + w \in Nat /\ o + w <= Len(head) /\ o + 1 <= o + w + 1
        /\ o + w - (o + 1) + 1 = w /\ w \in Nat
    <3>1. w \in Nat /\ o \in Nat /\ h \in Nat
      OBVIOUS
    <3>2. o + w <= h /\ Len(head) = h
      BY <1>1, <1>11
    <3> QED BY <3>1, <3>2
  <2>2. SubSeq(head, o + 1, o + w) \in Seq(Byte) /\ Len(SubSeq(head, o + 1, o + w)) = w
    BY <1>11, <2>1, PartType
  <2>3. PICK m \in Int, k \in Int : m = o + 1 /\ k = o + w
    BY <2>1
  <2>4. \A i \in m..k : head[i] \in Byte
    <3>1. \A i \in 1..h : head[i] \in Byte
      BY <1>11, ElementOfSeq
    <3>2. \A i \in m..k : i \in 1..h
      BY <1>11, <2>1, <2>3
    <3> QED BY <3>1, <3>2
  <2>5. \A i \in 1..k - m + 1 : SubSeq(head, m, k)[i] = head[m + i - 1]
    BY <2>4, SubSeqProperties
  <2>6. ASSUME NEW i \in 1..w PROVE SubSeq(head, o + 1, o + w)[i] = b[i]
    <3>1. i \in 1..k - m + 1 /\ m + i - 1 = o + i /\ o + i \in 1..h /\ (o + i) - o = i
      <4>1. i \in Nat /\ i >= 1 /\ i <= w
        BY <2>1
      <4> QED BY <1>11, <2>1, <2>3, <4>1
    <3>2. head[o + i] = b[i]
      BY <1>10, <3>1
    <3> QED BY <2>3, <2>5, <3>1, <3>2
  <2> QED BY <1>8, <2>2, <2>6, SeqEqual
<1>13. LengthField(head) = digits
  <2>1. LengthField(head) = IF format.endian_flip THEN Reverse(b) ELSE b
    BY <1>1, <1>12 DEF LengthField
  <2>2. Reverse(Reverse(digits)) = digits
    BY <1>5, ReverseTwice
  <2> QED BY <1>6, <1>7, <2>1, <2>2
<1>14. CalculateMsgBodyLength(head) = n
  <2>1. /\ w = 1 => CalculateMsgBodyLength(head) = digits[1]
        /\ w = 2 => CalculateMsgBodyLength(head) = digits[1] + 256 * digits[2]
        /\ w = 4 => CalculateMsgBodyLength(head) =
                        digits[1] + 256 * digits[2] + 65536 * digits[3]
                            + 16777216 * Signed(digits[4])
    BY <1>1, <1>13 DEF CalculateMsgBodyLength
  <2>2. CASE w = 1
    <3>1. digits[1] = all[1] /\ n < 256
      BY <1>1, <1>5, <2>2 DEF Capacity
    <3> QED BY <2>1, <1>2, <2>2, <3>1, Digits
  <2>3. CASE w = 2
    <3>1. digits[1] = all[1] /\ digits[2] = all[2] /\ n < 65536
      BY <1>1, <1>5, <2>3 DEF Capacity
    <3> QED BY <2>1, <1>2, <2>3, <3>1, Digits
  <2>4. CASE w = 4
    <3>1. digits[1] = all[1] /\ digits[2] = all[2] /\ digits[3] = all[3] /\ digits[4] = all[4]
          /\ n < 2147483648
      BY <1>1, <1>5, <2>4 DEF Capacity
    <3>2. (n \div 16777216) % 256 < 128 /\ (n \div 16777216) % 256 \in Int
      BY <3>1, Digits
    <3>3. Signed(digits[4]) = (n \div 16777216) % 256
      BY <1>2, <3>1, <3>2 DEF Signed
    <3> QED BY <2>1, <1>2, <2>4, <3>1, <3>3, Digits
  <2> QED BY <1>1, <2>2, <2>3, <2>4
<1> QED BY <1>1, <1>9, <1>11, <1>14

-----------------------------------------------------------------------------
(* What the server has sent is handed over, waits behind a header, or is    *)
(* still to be read.                                                        *)

Held == IF reading = "body" THEN m_msgTemporaryIn ELSE <<>>

(***************************************************************************)
(* A connection stands at most once, since Connect after a Disconnect      *)
(* begins an async_connect on an io_context that stays stopped: nothing    *)
(* has been sent before it, and nothing is after.                          *)
(***************************************************************************)
FirstTime ==
    /\ reading # "none" => socket = "open"
    /\ thread = "none" /\ ~stopped => socket = "closed"
    /\ ~terminated /\ ~stopped /\ (socket = "connecting" \/ thread = "none") =>
            sent = <<>> /\ received = <<>> /\ inbound = <<>>

LEMMA FirstInit == Init => FirstTime
BY DEF Init, FirstTime

LEMMA FirstUntouched ==
    ASSUME FirstTime, terminated => terminated', UNCHANGED <<sent, received, inbound>>,
           UNCHANGED <<socket, thread, stopped, reading>>
    PROVE  FirstTime'
BY DEF FirstTime

LEMMA FirstClosed ==
    ASSUME FirstTime, CloseSocket, Runs, UNCHANGED <<thread, stopped, terminated, sent>>
    PROVE  FirstTime'
BY DEF FirstTime, CloseSocket, Runs

\* A read: the socket is open, and a thread runs.
LEMMA FirstReading ==
    ASSUME FirstTime, Runs, reading # "none", terminated => terminated',
           UNCHANGED <<socket, thread, stopped>>
    PROVE  FirstTime'
BY DEF FirstTime, Runs

LEMMA FirstStep == LifeTyped /\ LifeCycle /\ FirstTime /\ [Next]_vars => FirstTime'
<1> SUFFICES ASSUME LifeTyped, LifeCycle, FirstTime, [Next]_vars
             PROVE  FirstTime'
    OBVIOUS
<1> USE DEF lifeVars, userVars, outerVars, dataVars, readVars, writeVars, histVars
<1>1. CASE Connected
  BY <1>1 DEF Connected, FirstTime, Runs
<1>2. CASE OnConnectedReturns \/ WriteRaw \/ DisconnectBegin \/ Send
  BY <1>2, FirstUntouched DEF OnConnectedReturns, WriteRaw, DisconnectBegin, Send
<1>3. CASE ReadRaw \/ ReadHeader
  BY <1>3, FirstReading DEF ReadRaw, ReadHeader
<1>4. CASE ReadBody
  <2>1. Runs /\ reading = "body" /\ UNCHANGED <<socket, thread, stopped>>
    BY <1>4 DEF ReadBody
  <2>2. terminated => terminated'
    BY <1>4 DEF ReadBody
  <2> QED BY <2>1, <2>2, FirstReading
<1>5. CASE ConnectFails \/ OperationFails
  BY <1>5, FirstClosed DEF ConnectFails, OperationFails
<1>6. CASE RunPosted
  <2>1. Runs /\ UNCHANGED <<thread, stopped, terminated, sent>>
    BY <1>6 DEF RunPosted
  <2>2. CloseSocket \/ UNCHANGED <<socket, readVars>>
    BY <1>6 DEF RunPosted
  <2> QED BY <2>1, <2>2, FirstClosed, FirstUntouched
<1>7. CASE Connect
  <2>1. /\ socket = "closed" /\ socket' = "connecting"
        /\ UNCHANGED <<sent, received, inbound, reading, stopped>>
        /\ \/ thread = "none" /\ thread' = "running" /\ terminated' = terminated
           \/ thread # "none" /\ terminated' /\ thread' = thread
    BY <1>7 DEF Connect, IsConnected
  <2> QED BY <2>1 DEF FirstTime
<1>8. CASE ServerSends
  BY <1>8 DEF ServerSends, FirstTime
<1>9. CASE RunReturns \/ DisconnectStop
  BY <1>9 DEF RunReturns, DisconnectStop, FirstTime
<1>10. CASE DisconnectJoin
  BY <1>10 DEF DisconnectJoin, FirstTime, LifeCycle
<1>11. CASE UNCHANGED vars
  BY <1>11, FirstUntouched DEF vars
<1> QED
  BY <1>1, <1>2, <1>3, <1>4, <1>5, <1>6, <1>7, <1>8, <1>9, <1>10, <1>11
  DEF Next, Handler, Disconnecting

-----------------------------------------------------------------------------
(* The bytes.                                                               *)

\* The length field counts the body alone, as the reader takes it to.
BodyOnly == \A f \in Formats : f.msg_type = "with_header" => ~f.length_include_header

BytesKept == socket = "open" => FlattenSeq(received) \o (Held \o inbound) = FlattenSeq(sent)

BytesInv == TypeInv /\ WriteInv /\ FirstTime /\ BytesKept /\ BytesInOrder

LEMMA HeldType == TypeInv => Held \in Seq(Byte)
BY DEF TypeInv, TypeOK, Held

\* The header is kept until its body is there.
KeepsHeader ==
    /\ reading = "header" /\ reading' = "body"
    /\ inbound = m_msgTemporaryIn' \o inbound'
    /\ UNCHANGED <<received, sent, socket>>

\* The front of what has been sent and not handed over is handed over.
HandsOver(front, rest) ==
    /\ Held \o inbound = front \o rest
    /\ received' = Append(received, front) /\ inbound' = rest
    /\ reading' \in {"raw", "header"}
    /\ UNCHANGED <<sent, socket>>

LEMMA FirstReadType == TypeInv => FirstRead \in {"raw", "header"}
BY DEF FirstRead

LEMMA RawReads ==
    ASSUME TypeInv, ReadRaw
    PROVE  \E front \in Seq(Byte), rest \in Seq(Byte) : HandsOver(front, rest)
<1>1. PICK n \in 1..Len(inbound) :
          /\ inbound' = From(n)
          /\ received' = Append(received, SubSeq(inbound, 1, n))
          /\ reading' = FirstRead
  BY DEF ReadRaw, AddToIncomingMessageQueue
<1>2. inbound \in Seq(Byte) /\ reading = "raw" /\ UNCHANGED <<sent, socket>>
  BY DEF TypeInv, TypeOK, ReadRaw, outerVars, histVars
<1>3. /\ SubSeq(inbound, 1, n) \in Seq(Byte) /\ From(n) \in Seq(Byte)
      /\ inbound = SubSeq(inbound, 1, n) \o From(n)
  <2>1. n \in 0..Len(inbound)
    OBVIOUS
  <2> QED BY <1>2, <2>1, Joined DEF From
<1>4. Held \o inbound = inbound
  BY <1>2, ConcatEmptySeq DEF Held
<1> QED BY <1>1, <1>2, <1>3, <1>4, FirstReadType DEF HandsOver

LEMMA HeaderReads ==
    ASSUME TypeInv, ReadHeader
    PROVE  LET header == SubSeq(inbound, 1, format.header_size)
               rest == From(format.header_size)
           IN /\ header \in Seq(Byte) /\ rest \in Seq(Byte)
              /\ Len(header) = format.header_size /\ header # <<>>
              /\ inbound = header \o rest
              /\ IF CalculateMsgFullLength(header) > format.header_size
                 THEN KeepsHeader /\ m_msgTemporaryIn' = header
                 ELSE HandsOver(header, rest)
<1> DEFINE h == format.header_size
           header == SubSeq(inbound, 1, h)
           rest == From(h)
<1>1. /\ inbound \in Seq(Byte) /\ reading = "header" /\ UNCHANGED <<sent, socket>>
      /\ h \in Nat \ {0} /\ h <= Len(inbound)
      /\ m_msgTemporaryIn' = header /\ inbound' = rest
  <2>1. inbound \in Seq(Byte) /\ format \in Formats /\ Constructible(format)
        /\ format.msg_type = "with_header"
    BY DEF TypeInv, TypeOK, Framing, ReadHeader
  <2>2. format.header_size \in Nat \ {0}
    BY <2>1, HeaderFormat
  <2> QED BY <2>1, <2>2 DEF ReadHeader, outerVars, histVars
<1>2. /\ header \in Seq(Byte) /\ rest \in Seq(Byte) /\ Len(header) = h
      /\ inbound = header \o rest
  <2>1. h \in 0..Len(inbound)
    BY <1>1
  <2> QED BY <1>1, <2>1, Joined DEF From
<1>3. header # <<>>
  BY <1>1, <1>2
<1>4. Held \o inbound = inbound
  BY <1>1, ConcatEmptySeq DEF Held
<1>5. CASE CalculateMsgFullLength(header) > h
  <2>1. reading' = "body" /\ received' = received
    BY <1>5 DEF ReadHeader
  <2>2. KeepsHeader
    BY <1>1, <1>2, <2>1 DEF KeepsHeader
  <2> QED BY <1>1, <1>2, <1>3, <1>5, <2>2
<1>6. CASE ~(CalculateMsgFullLength(header) > h)
  <2>1. AddToIncomingMessageQueue(header)
    BY <1>6 DEF ReadHeader
  <2>2. HandsOver(header, rest)
    BY <1>1, <1>2, <1>4, <2>1, FirstReadType DEF HandsOver, AddToIncomingMessageQueue
  <2> QED BY <1>1, <1>2, <1>3, <1>6, <2>2
<1> QED BY <1>5, <1>6

LEMMA BodyReads ==
    ASSUME TypeInv, ReadBody, BodyOnly
    PROVE  LET n == CalculateMsgBodyLength(m_msgTemporaryIn)
               body == SubSeq(inbound, 1, n)
           IN /\ n \in Nat /\ n <= Len(inbound)
              /\ body \in Seq(Byte) /\ From(n) \in Seq(Byte)
              /\ inbound = body \o From(n)
              /\ m_msgTemporaryIn \o body \in Seq(Byte)
              /\ HandsOver(m_msgTemporaryIn \o body, From(n))
<1> DEFINE n == CalculateMsgBodyLength(m_msgTemporaryIn)
           room == CalculateMsgFullLength(m_msgTemporaryIn) - format.header_size
           kept == SubSeq(inbound, 1, IF n <= room THEN n ELSE room)
           body == SubSeq(inbound, 1, n)
<1>1. /\ inbound \in Seq(Byte) /\ m_msgTemporaryIn \in Seq(Byte) /\ format \in Formats
      /\ Constructible(format) /\ format.msg_type = "with_header" /\ reading = "body"
      /\ Len(m_msgTemporaryIn) = format.header_size
      /\ CalculateMsgFullLength(m_msgTemporaryIn) > format.header_size
  BY DEF ReadBody, TypeInv, TypeOK, Framing
<1>2. n \in Int /\ format.header_size \in Nat /\ ~format.length_include_header
  <2>1. format.header_size \in Nat \ {0}
    BY <1>1, HeaderFormat
  <2>2. Len(m_msgTemporaryIn) >= format.header_size
    BY <1>1, <2>1
  <2> QED BY <1>1, <2>1, <2>2, BodyLengthType DEF BodyOnly
<1>3. CalculateMsgFullLength(m_msgTemporaryIn) = n + format.header_size
  BY <1>2 DEF CalculateMsgFullLength
<1>4. room = n /\ n > 0
  <2> HIDE DEF n
  <2> QED BY <1>1, <1>2, <1>3
<1>5. kept = body
  <2> HIDE DEF n, room
  <2> QED BY <1>2, <1>4
<1>6. /\ n <= Len(inbound) /\ inbound' = From(n) /\ UNCHANGED <<sent, socket>>
      /\ AddToIncomingMessageQueue(m_msgTemporaryIn \o kept)
  BY DEF ReadBody, outerVars, histVars
<1> HIDE DEF n, room, kept
<1>7. /\ n \in Nat /\ body \in Seq(Byte) /\ From(n) \in Seq(Byte)
      /\ inbound = body \o From(n)
  <2>1. n \in 0..Len(inbound) /\ n \in Nat
    BY <1>1, <1>2, <1>4, <1>6
  <2> QED BY <1>1, <2>1, Joined DEF From
<1> HIDE DEF body
<1>8. m_msgTemporaryIn \o body \in Seq(Byte)
  BY <1>1, <1>7, ConcatProperties
<1>9. Held \o inbound = (m_msgTemporaryIn \o body) \o From(n)
  <2>1. m_msgTemporaryIn \o (body \o From(n)) = (m_msgTemporaryIn \o body) \o From(n)
    <3>1. PICK m \in Seq(Byte), b \in Seq(Byte), r \in Seq(Byte) :
              m = m_msgTemporaryIn /\ b = body /\ r = From(n)
      BY <1>1, <1>7
    <3>2. m \o (b \o r) = (m \o b) \o r
      BY ConcatAssociative, SMTT(30)
    <3> QED BY <3>1, <3>2
  <2> QED BY <1>1, <1>7, <2>1 DEF Held
<1>10. HandsOver(m_msgTemporaryIn \o body, From(n))
  BY <1>5, <1>6, <1>9, FirstReadType DEF HandsOver, AddToIncomingMessageQueue
<1> QED BY <1>6, <1>7, <1>8, <1>10 DEF n, body

\* What the steps do to the stream.
LEMMA StreamSteps ==
    ASSUME TypeInv, FirstTime, [Next]_vars
    PROVE  \/ UNCHANGED <<sent, received, inbound, Held>> /\ (socket' = "open" => socket = "open")
           \/ CloseSocket /\ sent' = sent
           \/ Connected /\ sent = <<>> /\ received = <<>> /\ inbound = <<>>
           \/ socket = "open" /\ (ReadRaw \/ ReadHeader \/ ReadBody)
           \/ \E b \in Bodies :
                 /\ socket = "open"
                 /\ sent' = Append(sent, FrameOf(b)) /\ inbound' = inbound \o FrameOf(b)
                 /\ UNCHANGED <<received, reading, m_msgTemporaryIn, socket>>
<1> USE DEF lifeVars, userVars, outerVars, dataVars, readVars, writeVars, histVars
<1>1. CASE Connected
  <2>1. ~terminated \/ UNCHANGED vars
    BY DEF Next
  <2> QED BY <1>1, <2>1 DEF Connected, Runs, FirstTime, vars
<1>2. CASE OnConnectedReturns \/ WriteRaw \/ RunReturns \/ Disconnecting
           \/ DisconnectBegin \/ Send
  BY <1>2 DEF OnConnectedReturns, WriteRaw, RunReturns, Disconnecting, DisconnectStop,
              DisconnectJoin, DisconnectBegin, Send, Held
<1>3. CASE Connect
  BY <1>3 DEF Connect, Held
<1>4. CASE ReadRaw
  <2>1. socket = "open"
    BY <1>4 DEF ReadRaw, FirstTime
  <2> QED BY <1>4, <2>1
<1>5. CASE ReadHeader
  <2>1. socket = "open"
    BY <1>5 DEF ReadHeader, FirstTime
  <2> QED BY <1>5, <2>1
<1>6. CASE ReadBody
  <2>1. socket = "open"
    BY <1>6 DEF ReadBody, FirstTime
  <2> QED BY <1>6, <2>1
<1>7. CASE ConnectFails \/ OperationFails
  BY <1>7 DEF ConnectFails, OperationFails
<1>8. CASE RunPosted
  BY <1>8 DEF RunPosted, Held
<1>9. CASE ServerSends
  BY <1>9 DEF ServerSends
<1>10. CASE UNCHANGED vars
  BY <1>10 DEF vars, Held
<1> QED
  BY <1>1, <1>2, <1>3, <1>4, <1>5, <1>6, <1>7, <1>8, <1>9, <1>10 DEF Next, Handler

LEMMA BytesInit == Init => BytesInv
<1> SUFFICES ASSUME Init PROVE BytesInv
    OBVIOUS
<1>1. socket = "closed" /\ received = <<>> /\ sent = <<>>
  BY DEF Init
<1>2. IsPrefix(<<>>, <<>>)
  BY DEF IsPrefix
<1> QED BY <1>1, <1>2, FlattenEmpty, TypeInit, WriteInit, FirstInit
        DEF BytesInv, BytesKept, BytesInOrder

LEMMA BytesStep ==
    ASSUME BodyOnly, BytesInv, [Next]_vars
    PROVE  BytesKept' /\ BytesInOrder'
<1>0. /\ TypeInv /\ TypeInv' /\ FirstTime /\ BytesKept /\ BytesInOrder
      /\ sent \in Seq(Seq(Byte)) /\ received \in Seq(Seq(Byte)) /\ inbound \in Seq(Byte)
      /\ sent' \in Seq(Seq(Byte)) /\ received' \in Seq(Seq(Byte)) /\ inbound' \in Seq(Byte)
  <2>1. TypeInv'
    BY TypeStep DEF BytesInv
  <2> QED BY <2>1 DEF BytesInv, TypeInv, TypeOK
<1>1. PICK r \in Seq(Byte), s \in Seq(Byte), k \in Seq(Byte) :
          r = FlattenSeq(received) /\ s = FlattenSeq(sent) /\ k = Held
  BY <1>0, FlattenType, HeldType
<1>2. IsPrefix(r, s) /\ (socket = "open" => r \o (k \o inbound) = s)
  BY <1>0, <1>1 DEF BytesKept, BytesInOrder
<1>3. CASE UNCHANGED <<sent, received, inbound, Held>> /\ (socket' = "open" => socket = "open")
  BY <1>0, <1>3 DEF BytesKept, BytesInOrder
<1>4. CASE CloseSocket /\ sent' = sent
  BY <1>0, <1>4 DEF CloseSocket, BytesKept, BytesInOrder
<1>5. CASE Connected /\ sent = <<>> /\ received = <<>> /\ inbound = <<>>
  <2>1. /\ sent' = <<>> /\ received' = <<>> /\ inbound' = <<>> /\ reading' = FirstRead
    BY <1>5 DEF Connected, histVars
  <2>2. Held' = <<>>
    BY <1>0, <2>1, FirstReadType DEF Held
  <2>3. IsPrefix(<<>>, <<>>)
    BY DEF IsPrefix
  <2> QED BY <2>1, <2>2, <2>3, FlattenEmpty DEF BytesKept, BytesInOrder
<1>6. CASE KeepsHeader
  <2>1. k = <<>> /\ Held' \o inbound' = inbound /\ UNCHANGED <<received, sent, socket>>
    BY <1>1, <1>6 DEF KeepsHeader, Held
  <2>2. k \o inbound = inbound
    BY <1>0, <2>1, ConcatEmptySeq
  <2> QED BY <1>0, <1>1, <1>2, <2>1, <2>2 DEF BytesKept, BytesInOrder
<1>7. ASSUME NEW front \in Seq(Byte), NEW rest \in Seq(Byte), HandsOver(front, rest), socket = "open"
      PROVE  BytesKept' /\ BytesInOrder'
  <2>1. Held' = <<>> /\ inbound' = rest /\ sent' = sent
    BY <1>7 DEF HandsOver, Held
  <2>2. FlattenSeq(received') = r \o front
    BY <1>0, <1>1, <1>7, FlattenAppend DEF HandsOver
  <2>3. r \o (front \o rest) = s
    BY <1>1, <1>2, <1>7 DEF HandsOver
  <2>4. (r \o front) \o rest = r \o (front \o rest) /\ r \o front \in Seq(Byte)
    BY ConcatAssociative, SMTT(30)
  <2>5. <<>> \o rest = rest
    BY ConcatEmptySeq
  <2>6. IsPrefix(r \o front, (r \o front) \o rest)
    BY <2>4, PrefixOfConcat
  <2> QED BY <1>1, <2>1, <2>2, <2>3, <2>4, <2>5, <2>6 DEF BytesKept, BytesInOrder
<1>8. ASSUME NEW b \in Bodies, socket = "open",
             sent' = Append(sent, FrameOf(b)), inbound' = inbound \o FrameOf(b),
             UNCHANGED <<received, reading, m_msgTemporaryIn, socket>>
      PROVE  BytesKept' /\ BytesInOrder'
  <2>1. PICK f \in Seq(Byte) : f = FrameOf(b)
    BY <1>0, FrameType, LimitsAssumption DEF TypeInv, TypeOK, Framing
  <2>2. FlattenSeq(sent') = s \o f
    BY <1>0, <1>1, <1>8, <2>1, FlattenAppend
  <2>3. Held' = k
    BY <1>1, <1>8 DEF Held
  <2>4. PICK i \in Seq(Byte) : i = inbound
    BY <1>0
  <2>5. r \o (k \o (i \o f)) = (r \o (k \o i)) \o f
    BY Regroup, SMTT(90)
  <2>6. IsPrefix(r, s \o f)
    BY <1>2, PrefixGrows
  <2> QED BY <1>1, <1>2, <1>8, <2>1, <2>2, <2>3, <2>4, <2>5, <2>6
         DEF BytesKept, BytesInOrder
<1>9. CASE socket = "open" /\ (ReadRaw \/ ReadHeader \/ ReadBody)
  <2>1. KeepsHeader \/ \E front \in Seq(Byte), rest \in Seq(Byte) : HandsOver(front, rest)
    BY <1>0, <1>9, RawReads, HeaderReads, BodyReads
  <2> QED BY <1>6, <1>7, <1>9, <2>1
<1> QED BY <1>0, <1>3, <1>4, <1>5, <1>8, <1>9, StreamSteps

(***************************************************************************)
(* Every byte the server sends is handed over once and in order, whatever  *)
(* a closed socket loses at the end, and also where the length does not    *)
(* fit its field: BytesInOrder.  The length field must not count the       *)
(* header; the reader then runs past the body.                             *)
(***************************************************************************)
THEOREM BytesOrdered ==
    ASSUME BodyOnly
    PROVE  Spec => []BytesInOrder
<1>1. Init => BytesInv
  BY BytesInit
<1>2. BytesInv /\ [Next]_vars => BytesInv'
  <2> SUFFICES ASSUME BytesInv, [Next]_vars PROVE BytesInv'
    OBVIOUS
  <2>1. TypeInv' /\ WriteInv'
    BY TypeStep, WriteStep DEF BytesInv
  <2>2. FirstTime'
    BY FirstStep, TypeParts DEF BytesInv, WriteInv
  <2> QED BY <2>1, <2>2, BytesStep DEF BytesInv
<1>3. BytesInv => BytesInOrder
  BY DEF BytesInv
<1> QED BY <1>1, <1>2, <1>3, PTL DEF Spec

-----------------------------------------------------------------------------
(* The frames.                                                              *)

\* The server's bodies are short enough for the length field.
Fits == \A f \in Formats, b \in Bodies :
            f.msg_type = "with_header" /\ Constructible(f) => Len(b) < Capacity(f.length_size)

Frames == {FrameOf(b) : b \in Bodies}

\* The frames that have not been handed over are what is held and inbound.
FramesKept ==
    format.msg_type = "with_header" /\ socket = "open" =>
        \E rest \in Seq(Frames) :
            sent = received \o rest /\ Held \o inbound = FlattenSeq(rest)

RawIsBare == reading = "raw" => format.msg_type = "no_header"

FramesInv == TypeInv /\ WriteInv /\ FirstTime /\ RawIsBare /\ FramesKept /\ CutAtFrames

LEMMA FramesType ==
    ASSUME TypeInv
    PROVE  /\ \A f \in Frames : f \in Seq(Byte)
           /\ \A q \in Seq(Frames) : q \in Seq(Seq(Byte)) /\ FlattenSeq(q) \in Seq(Byte)
<1>1. \A f \in Frames : f \in Seq(Byte)
  BY FrameType, LimitsAssumption DEF TypeInv, TypeOK, Framing, Frames
<1>2. ASSUME NEW q \in Seq(Frames)
      PROVE  q \in Seq(Seq(Byte)) /\ FlattenSeq(q) \in Seq(Byte)
  <2>1. Frames \subseteq Seq(Byte)
    BY <1>1
  <2>2. q \in Seq(Seq(Byte))
    BY <2>1, SeqMonotonic
  <2> QED BY <2>2, FlattenType
<1> QED BY <1>1, <1>2

\* A header cut off the bytes of frames that follow each other is the header
\* of the first, and has the length of its body.
\* The first of the frames has this body, and is what header and tail begin with.
FirstIs(b, header, tail, frames) ==
    /\ b \in Seq(Byte)
    /\ frames # <<>> /\ Head(frames) = header \o b
    /\ tail = b \o FlattenSeq(Tail(frames))
    /\ CalculateMsgBodyLength(header) = Len(b)
    /\ CalculateMsgFullLength(header) = Len(b) + format.header_size

LEMMA FirstFrame ==
    ASSUME TypeInv, BodyOnly, Fits, format.msg_type = "with_header",
           NEW rest \in Seq(Frames), NEW header \in Seq(Byte), NEW tail \in Seq(Byte),
           Len(header) = format.header_size, header # <<>>,
           header \o tail = FlattenSeq(rest)
    PROVE  \E b \in Bodies : FirstIs(b, header, tail, rest)
<1>1. rest # <<>>
  <2>1. header \o tail # <<>>
    BY ConcatEqualIffEmpty
  <2> QED BY <2>1, FlattenEmpty
<1>2. rest \in Seq(Seq(Byte)) /\ Head(rest) \in Frames /\ Tail(rest) \in Seq(Frames)
  BY <1>1, FramesType
<1>3. PICK b \in Bodies : Head(rest) = FrameOf(b)
  BY <1>2 DEF Frames
<1>4. b \in Seq(Byte) /\ Len(b) \in Nat /\ Len(b) < Capacity(format.length_size)
      /\ ~format.length_include_header /\ format \in Formats /\ Constructible(format)
  <2>1. format \in Formats /\ Constructible(format) /\ b \in Seq(Byte)
    BY LimitsAssumption DEF TypeInv, TypeOK, Framing
  <2> QED BY <2>1 DEF BodyOnly, Fits
<1>5. PICK f : f = FrameHeader(Len(b))
  OBVIOUS
<1>6. f \in Seq(Byte) /\ Len(f) = format.header_size /\ CalculateMsgBodyLength(f) = Len(b)
  BY <1>4, <1>5, LengthRead
<1>7. Head(rest) = f \o b
  <2>1. Len(b) + 0 = Len(b)
    BY <1>4
  <2> QED BY <1>3, <1>4, <1>5, <2>1 DEF FrameOf
<1>8. PICK g \in Seq(Byte) : g = FlattenSeq(Tail(rest))
  BY <1>2, FramesType
<1>9. header \o tail = f \o (b \o g) /\ b \o g \in Seq(Byte)
  <2>1. FlattenSeq(rest) = Head(rest) \o g
    BY <1>1, <1>2, <1>8, FlattenHead
  <2>2. (f \o b) \o g = f \o (b \o g)
    BY <1>4, <1>6, ConcatAssociative, SMTT(30)
  <2>3. b \o g \in Seq(Byte)
    BY <1>4, ConcatProperties
  <2> QED BY <1>7, <2>1, <2>2, <2>3
<1>10. header = f /\ tail = b \o g
  BY <1>6, <1>9, SameCut
<1>11. CalculateMsgFullLength(header) = Len(b) + format.header_size
  BY <1>4, <1>6, <1>10 DEF CalculateMsgFullLength
<1>12. FirstIs(b, header, tail, rest)
  BY <1>1, <1>4, <1>6, <1>7, <1>8, <1>10, <1>11 DEF FirstIs
<1> QED BY <1>3, <1>12

LEMMA FramesInit == Init => FramesInv
<1> SUFFICES ASSUME Init PROVE FramesInv
    OBVIOUS
<1>1. socket = "closed" /\ reading = "none" /\ received = <<>> /\ sent = <<>>
  BY DEF Init
<1>2. IsPrefix(<<>>, <<>>)
  BY DEF IsPrefix
<1> QED BY <1>1, <1>2, TypeInit, WriteInit, FirstInit
        DEF FramesInv, FramesKept, RawIsBare, CutAtFrames

LEMMA FormatKept == [Next]_vars => UNCHANGED <<format, Frames>>
<1> SUFFICES ASSUME [Next]_vars PROVE UNCHANGED <<format, Frames>>
    OBVIOUS
<1>1. format' = format
  <2> USE DEF lifeVars, userVars, outerVars, dataVars, readVars, writeVars, histVars
  <2>1. CASE Handler
    <3>1. CASE Connected \/ OnConnectedReturns \/ RunReturns \/ WriteRaw
      BY <3>1 DEF Connected, OnConnectedReturns, RunReturns, WriteRaw
    <3>2. CASE ReadRaw \/ ReadHeader \/ ReadBody \/ RunPosted
      BY <3>2 DEF ReadRaw, ReadHeader, ReadBody, RunPosted
    <3> QED BY <2>1, <3>1, <3>2 DEF Handler
  <2>2. CASE ~Handler
    BY <2>2 DEF Next, Disconnecting, DisconnectStop, DisconnectJoin, ConnectFails,
                OperationFails, Connect, DisconnectBegin, Send, ServerSends, vars
  <2> QED BY <2>1, <2>2
<1>2. \A b : FrameOf(b)' = FrameOf(b)
  BY <1>1 DEF FrameOf, FrameHeader, LengthBytes
<1> QED BY <1>1, <1>2 DEF Frames

LEMMA RawIsBareStep ==
    ASSUME TypeInv, FirstTime, RawIsBare, [Next]_vars
    PROVE  RawIsBare'
<1>1. format' = format
  BY FormatKept
<1>2. reading' \in {reading, "none", "body", FirstRead}
  <2> USE DEF lifeVars, userVars, outerVars, dataVars, readVars, writeVars, histVars
  <2>1. CASE Connected \/ ReadRaw \/ ReadHeader
    BY <2>1 DEF Connected, ReadRaw, ReadHeader, AddToIncomingMessageQueue
  <2>2. CASE ReadBody
    BY <2>2 DEF ReadBody, AddToIncomingMessageQueue
  <2>3. CASE CloseSocket \/ reading' = reading
    BY <2>3 DEF CloseSocket
  <2>4. CASE UNCHANGED <<sent, received, inbound, Held>> /\ (socket' = "open" => socket = "open")
    <3>1. CASE RunPosted
      BY <3>1, <2>3 DEF RunPosted
    <3> QED BY <2>1, <2>2, <2>3, <3>1
            DEF Next, Handler, OnConnectedReturns, WriteRaw, RunReturns, Disconnecting,
                DisconnectStop, DisconnectJoin, DisconnectBegin, Send, Connect,
                ConnectFails, OperationFails, ServerSends, vars
  <2> QED BY <2>1, <2>2, <2>3, <2>4, StreamSteps
<1> QED BY <1>1, <1>2 DEF RawIsBare, FirstRead

LEMMA FramesStep ==
    ASSUME BodyOnly, Fits, FramesInv, [Next]_vars
    PROVE  FramesKept' /\ CutAtFrames'
<1>0. /\ TypeInv /\ FirstTime /\ RawIsBare /\ FramesKept /\ CutAtFrames
      /\ sent \in Seq(Seq(Byte)) /\ received \in Seq(Seq(Byte)) /\ inbound \in Seq(Byte)
      /\ m_msgTemporaryIn \in Seq(Byte)
      /\ UNCHANGED <<format, Frames>>
  BY FormatKept DEF FramesInv, TypeInv, TypeOK
<1> SUFFICES ASSUME format.msg_type = "with_header"
             PROVE  /\ IsPrefix(received', sent')
                    /\ socket' = "open" => \E rest \in Seq(Frames) :
                           sent' = received' \o rest /\ Held' \o inbound' = FlattenSeq(rest)
  BY <1>0 DEF FramesKept, CutAtFrames
<1>1. IsPrefix(received, sent)
  BY <1>0 DEF CutAtFrames
\* While the socket is open, the frames left show that what has been handed
\* over is a prefix.
<1>2. ASSUME NEW q \in Seq(Seq(Byte)), NEW rest \in Seq(Frames)
      PROVE  IsPrefix(q, q \o rest)
  <2>1. rest \in Seq(Seq(Byte))
    BY <1>0, FramesType
  <2> QED BY <2>1, PrefixOfConcat
<1>3. CASE UNCHANGED <<sent, received, inbound, Held>> /\ (socket' = "open" => socket = "open")
  BY <1>0, <1>1, <1>3 DEF FramesKept
<1>4. CASE CloseSocket /\ sent' = sent
  BY <1>1, <1>4 DEF CloseSocket
<1>5. CASE Connected /\ sent = <<>> /\ received = <<>> /\ inbound = <<>>
  <2>1. /\ sent' = <<>> /\ received' = <<>> /\ inbound' = <<>> /\ reading' = FirstRead
    BY <1>5 DEF Connected, histVars
  <2>2. Held' = <<>>
    BY <1>0, <2>1, FirstReadType DEF Held
  <2>3. <<>> \in Seq(Frames) /\ <<>> \o <<>> = <<>>
    OBVIOUS
  <2> QED BY <1>1, <1>5, <2>1, <2>2, <2>3, FlattenEmpty
<1>6. CASE socket = "open" /\ ReadHeader
  <2>1. PICK rest \in Seq(Frames) : sent = received \o rest /\ Held \o inbound = FlattenSeq(rest)
    BY <1>0, <1>6 DEF FramesKept
  <2>2. PICK h \in Seq(Byte), tail \in Seq(Byte) :
            /\ h = SubSeq(inbound, 1, format.header_size) /\ tail = From(format.header_size)
            /\ Len(h) = format.header_size /\ h # <<>> /\ inbound = h \o tail
            /\ IF CalculateMsgFullLength(h) > format.header_size
               THEN KeepsHeader /\ m_msgTemporaryIn' = h
               ELSE HandsOver(h, tail)
    BY <1>0, <1>6, HeaderReads
  <2>3. Held \o inbound = inbound /\ Held = <<>>
    BY <1>0, <1>6, ConcatEmptySeq DEF Held, ReadHeader
  <2>4. PICK b \in Bodies :
            /\ b \in Seq(Byte) /\ rest # <<>> /\ Head(rest) = h \o b
            /\ tail = b \o FlattenSeq(Tail(rest))
            /\ CalculateMsgBodyLength(h) = Len(b)
            /\ CalculateMsgFullLength(h) = Len(b) + format.header_size
    <3>1. h \o tail = FlattenSeq(rest)
      BY <2>1, <2>2, <2>3
    <3>2. Len(h) = format.header_size /\ h # <<>> /\ TypeInv
          /\ h \in Seq(Byte) /\ tail \in Seq(Byte)
      BY <1>0, <2>2
    <3>3. \E b \in Bodies : FirstIs(b, h, tail, rest)
      BY <3>1, <3>2, FirstFrame
    <3> QED BY <3>3 DEF FirstIs
  <2>5. CASE CalculateMsgFullLength(h) > format.header_size
    <3>1. /\ UNCHANGED <<received, sent, socket>> /\ Held' \o inbound' = inbound
      <4>1. KeepsHeader /\ m_msgTemporaryIn' = h
        BY <2>2, <2>5
      <4> QED BY <2>2, <4>1 DEF KeepsHeader, Held
    <3> QED BY <1>1, <2>1, <2>3, <3>1
  <2>6. CASE ~(CalculateMsgFullLength(h) > format.header_size)
    <3>1. /\ received' = Append(received, h) /\ sent' = sent /\ inbound' = tail
          /\ Held' = <<>>
      BY <2>2, <2>6 DEF HandsOver, Held
    <3>2. b = <<>>
      <4>1. format.header_size \in Int /\ Len(b) \in Nat
        <5>1. Len(h) \in Nat /\ format.header_size = Len(h)
          BY <2>2
        <5>2. PICK c \in Seq(Byte) : c = b /\ Len(c) \in Nat
          BY <2>4
        <5> QED BY <5>1, <5>2
      <4>2. Len(b) = 0
        BY <4>1, <2>4, <2>6
      <4> QED BY <4>2, <2>4
    <3>3. Head(rest) = h
      BY <2>4, <3>2, ConcatEmptySeq
    <3>4. Tail(rest) \in Seq(Frames) /\ FlattenSeq(Tail(rest)) \in Seq(Byte)
          /\ rest \in Seq(Seq(Byte))
      BY <1>0, <2>4, FramesType
    <3>5. sent' = received' \o Tail(rest)
      BY <1>0, <2>1, <2>4, <3>1, <3>3, <3>4, HeadMoves
    <3>6. Held' \o inbound' = FlattenSeq(Tail(rest))
      BY <2>4, <3>1, <3>2, <3>4, ConcatEmptySeq
    <3>7. received' \in Seq(Seq(Byte))
      BY <1>0, <3>1
    <3> QED BY <1>2, <3>4, <3>5, <3>6, <3>7
  <2> QED BY <2>5, <2>6
<1>7. CASE socket = "open" /\ ReadBody
  <2>1. PICK rest \in Seq(Frames) : sent = received \o rest /\ Held \o inbound = FlattenSeq(rest)
    BY <1>0, <1>7 DEF FramesKept
  <2>2. /\ Held = m_msgTemporaryIn /\ Len(m_msgTemporaryIn) = format.header_size
        /\ m_msgTemporaryIn # <<>>
    <3>1. reading = "body"
      BY <1>7 DEF ReadBody
    <3>2. format.header_size \in Nat \ {0}
      BY <1>0, HeaderFormat DEF TypeInv, TypeOK, Framing
    <3>3. Len(m_msgTemporaryIn) = format.header_size
      BY <1>0, <3>1 DEF TypeInv, TypeOK
    <3> QED BY <1>0, <3>1, <3>2, <3>3 DEF Held
  <2>3. PICK b \in Bodies :
            /\ b \in Seq(Byte) /\ rest # <<>> /\ Head(rest) = m_msgTemporaryIn \o b
            /\ inbound = b \o FlattenSeq(Tail(rest))
            /\ CalculateMsgBodyLength(m_msgTemporaryIn) = Len(b)
    <3>1. m_msgTemporaryIn \o inbound = FlattenSeq(rest)
      BY <2>1, <2>2
    <3>2. m_msgTemporaryIn \in Seq(Byte) /\ inbound \in Seq(Byte) /\ TypeInv
      BY <1>0
    <3>3. PICK h \in Seq(Byte), i \in Seq(Byte) : h = m_msgTemporaryIn /\ i = inbound
      BY <3>2
    <3>4. h \o i = FlattenSeq(rest) /\ Len(h) = format.header_size /\ h # <<>>
      BY <2>2, <3>1, <3>3
    <3>6. TypeInv
      BY <1>0
    <3>5. \E b \in Bodies : FirstIs(b, h, i, rest)
      BY <3>4, <3>6, FirstFrame
    <3> QED BY <3>3, <3>5 DEF FirstIs
  <2>4. PICK body \in Seq(Byte), tail \in Seq(Byte) :
            /\ Len(b) <= Len(inbound) /\ body = SubSeq(inbound, 1, Len(b))
            /\ inbound = body \o tail
            /\ m_msgTemporaryIn \o body \in Seq(Byte)
            /\ HandsOver(m_msgTemporaryIn \o body, tail)
    BY <1>0, <1>7, <2>3, BodyReads
  <2>5. Tail(rest) \in Seq(Frames) /\ FlattenSeq(Tail(rest)) \in Seq(Byte)
        /\ rest \in Seq(Seq(Byte))
    BY <1>0, <2>3, FramesType
  <2>6. body = b /\ tail = FlattenSeq(Tail(rest))
    <3>1. Len(b) \in Nat
      BY <2>3
    <3>2. Len(body) = Len(b)
      <4>1. Len(b) \in 0..Len(inbound)
        BY <1>0, <2>4, <3>1
      <4> QED BY <1>0, <2>4, <4>1, Joined
    <3>3. PICK g \in Seq(Byte) : g = FlattenSeq(Tail(rest))
      BY <2>5
    <3>4. body \o tail = b \o g
      BY <2>3, <2>4, <3>3
    <3>5. b \in Seq(Byte)
      BY <2>3
    <3>6. body = b /\ tail = g
      BY <3>2, <3>4, <3>5, SameCut
    <3> QED BY <3>3, <3>6
  <2>7. /\ received' = Append(received, Head(rest)) /\ sent' = sent
        /\ Held' = <<>> /\ inbound' = FlattenSeq(Tail(rest))
    BY <2>3, <2>4, <2>6 DEF HandsOver, Held
  <2>8. sent' = received' \o Tail(rest)
    BY <1>0, <2>1, <2>3, <2>5, <2>7, HeadMoves
  <2>9. Held' \o inbound' = FlattenSeq(Tail(rest)) /\ received' \in Seq(Seq(Byte))
    <3>1. Head(rest) \in Seq(Byte)
      BY <2>3, <2>5
    <3> QED BY <1>0, <2>5, <2>7, <3>1, ConcatEmptySeq
  <2> QED BY <1>2, <2>5, <2>8, <2>9
<1>8. ASSUME NEW b \in Bodies, socket = "open",
             sent' = Append(sent, FrameOf(b)), inbound' = inbound \o FrameOf(b),
             UNCHANGED <<received, reading, m_msgTemporaryIn, socket>>
      PROVE  /\ IsPrefix(received', sent')
             /\ \E rest \in Seq(Frames) :
                   sent' = received' \o rest /\ Held' \o inbound' = FlattenSeq(rest)
  <2>1. PICK rest \in Seq(Frames) : sent = received \o rest /\ Held \o inbound = FlattenSeq(rest)
    BY <1>0, <1>8 DEF FramesKept
  <2>2. PICK f \in Frames : f = FrameOf(b)
    BY DEF Frames
  <2>3. f \in Seq(Byte) /\ rest \in Seq(Seq(Byte)) /\ Append(rest, f) \in Seq(Frames)
    BY <1>0, <2>2, FramesType
  <2>4. received \o Append(rest, f) = Append(received \o rest, f)
    BY <1>0, <2>3, ConcatAppend, SMTT(30)
  <2>5. FlattenSeq(Append(rest, f)) = FlattenSeq(rest) \o f
    BY <2>3, FlattenAppend
  <2>6. Held' = Held /\ Held \in Seq(Byte)
    BY <1>0, <1>8, HeldType DEF Held
  <2>7. Held \o (inbound \o f) = (Held \o inbound) \o f
    <3>1. PICK k \in Seq(Byte), i \in Seq(Byte) : k = Held /\ i = inbound
      BY <1>0, <2>6
    <3>2. k \o (i \o f) = (k \o i) \o f
      BY <2>3, ConcatAssociative, SMTT(30)
    <3> QED BY <3>1, <3>2
  <2>8. sent' = received' \o Append(rest, f)
    BY <1>8, <2>1, <2>2, <2>4
  <2>9. IsPrefix(received', sent')
    BY <1>0, <1>2, <1>8, <2>3, <2>8
  <2> QED BY <1>8, <2>1, <2>2, <2>3, <2>5, <2>6, <2>7, <2>8, <2>9
<1>9. ~ReadRaw
  BY <1>0 DEF ReadRaw, RawIsBare
<1> QED BY <1>0, <1>3, <1>4, <1>5, <1>6, <1>7, <1>8, <1>9, StreamSteps

(***************************************************************************)
(* The stream is cut where the server's frames end, for any place, width   *)
(* and byte order of the length field: CutAtFrames.  The field counts the  *)
(* body alone, and the bodies are short enough for it.                     *)
(***************************************************************************)
THEOREM CutRight ==
    ASSUME BodyOnly, Fits
    PROVE  Spec => []CutAtFrames
<1>1. Init => FramesInv
  BY FramesInit
<1>2. FramesInv /\ [Next]_vars => FramesInv'
  <2> SUFFICES ASSUME FramesInv, [Next]_vars PROVE FramesInv'
    OBVIOUS
  <2>1. TypeInv' /\ WriteInv'
    BY TypeStep, WriteStep DEF FramesInv
  <2>2. FirstTime'
    BY FirstStep, TypeParts DEF FramesInv, WriteInv
  <2>3. RawIsBare'
    BY RawIsBareStep DEF FramesInv
  <2> QED BY <2>1, <2>2, <2>3, FramesStep DEF FramesInv
<1>3. FramesInv => CutAtFrames
  BY DEF FramesInv
<1> QED BY <1>1, <1>2, <1>3, PTL DEF Spec
============================================================================
