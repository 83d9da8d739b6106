------------------------ MODULE TCPConnectionProofs ------------------------
(***************************************************************************)
(* Theorems about TCPConnection, for any messages, parts and bounds, and   *)
(* for users that send before the validation or after it.                  *)
(***************************************************************************)
EXTENDS TCPConnection, SequenceLemmas

-----------------------------------------------------------------------------
(* The part of a queue that is in a set.                                    *)

Picks(F, A, S) ==
    /\ Maps(F, A, A \cap S)
    /\ \A x \in A : F[x] = IF x \in S THEN <<x>> ELSE <<>>
    /\ \A s \in Seq(A) : Picked(s, S) = Mapped(F, s)

LEMMA PickedMapped == ASSUME NEW A, NEW S PROVE \E F : Picks(F, A, S)
<1> DEFINE F == [x \in A |-> IF x \in S THEN <<x>> ELSE <<>>]
           B == A \cap S
<1>1. Maps(F, A, B)
  <2>1. ASSUME NEW x \in A PROVE (IF x \in S THEN <<x>> ELSE <<>>) \in Seq(B)
    <3>1. CASE x \in S
      <4>1. x \in B
        BY <3>1
      <4>2. <<x>> \in Seq(B)
        BY <4>1
      <4> QED BY <3>1, <4>2
    <3>2. CASE x \notin S
      BY <3>2
    <3> QED BY <3>1, <3>2
  <2> QED BY <2>1 DEF Maps
<1>2. \A x \in A : F[x] = IF x \in S THEN <<x>> ELSE <<>>
  OBVIOUS
<1> HIDE DEF F
<1>3. ASSUME NEW s \in Seq(A) PROVE Picked(s, S) = Mapped(F, s)
  <2>1. \A i \in DOMAIN s : F[s[i]] = IF s[i] \in S THEN <<s[i]>> ELSE <<>>
    BY <1>2
  <2>2. [i \in DOMAIN s |-> IF s[i] \in S THEN <<s[i]>> ELSE <<>>] = Each(F, s)
    BY <2>1 DEF Each
  <2> QED BY <2>2 DEF Picked, Mapped
<1> QED BY <1>1, <1>2, <1>3 DEF Picks

LEMMA PickedType ==
    ASSUME NEW A, NEW S, NEW s \in Seq(A)
    PROVE  Picked(s, S) \in Seq(A \cap S)
<1>1. PICK F, B : Picks(F, A, S) /\ B = A \cap S
  BY PickedMapped
<1>2. Mapped(F, s) \in Seq(B)
  <2>1. Maps(F, A, B)
    BY <1>1 DEF Picks
  <2> QED BY <2>1, MappedType
<1> QED BY <1>1, <1>2 DEF Picks

LEMMA PickedEmpty == ASSUME NEW S PROVE Picked(<<>>, S) = <<>>
<1>1. [i \in DOMAIN <<>> |-> IF <<>>[i] \in S THEN <<<<>>[i]>> ELSE <<>>] = <<>>
  OBVIOUS
<1> QED BY <1>1, FlattenEmpty DEF Picked

LEMMA PickedAppend ==
    ASSUME NEW A, NEW S, NEW s \in Seq(A), NEW x \in A
    PROVE  Picked(Append(s, x), S) = IF x \in S THEN Append(Picked(s, S), x) ELSE Picked(s, S)
<1>0. PICK F, B : Picks(F, A, S) /\ B = A \cap S
  BY PickedMapped
<1>1. Picked(Append(s, x), S) = Picked(s, S) \o F[x]
  <2>1. Append(s, x) \in Seq(A)
    OBVIOUS
  <2>2. Mapped(F, Append(s, x)) = Mapped(F, s) \o F[x]
    <3>1. Maps(F, A, B)
      BY <1>0 DEF Picks
    <3> QED BY <3>1, MappedAppend
  <2> QED BY <1>0, <2>1, <2>2 DEF Picks
<1>2. PICK p \in Seq(A) : p = Picked(s, S)
  <2>1. Picked(s, S) \in Seq(A \cap S)
    BY PickedType
  <2> QED BY <2>1
<1>3. F[x] = IF x \in S THEN <<x>> ELSE <<>>
  BY <1>0 DEF Picks
<1>4. p \o <<x>> = Append(p, x) /\ p \o <<>> = p
  BY AppendIsConcat, ConcatEmptySeq
<1> QED BY <1>1, <1>2, <1>3, <1>4

LEMMA PickedHead ==
    ASSUME NEW A, NEW S, NEW s \in Seq(A), s # <<>>
    PROVE  /\ Head(s) \notin S => Picked(s, S) = Picked(Tail(s), S)
           /\ Head(s) \in S => /\ Picked(s, S) # <<>> /\ Head(Picked(s, S)) = Head(s)
                               /\ Tail(Picked(s, S)) = Picked(Tail(s), S)
<1>0. PICK F, B : Picks(F, A, S) /\ B = A \cap S
  BY PickedMapped
<1>1. PICK x \in A, r \in Seq(A) : x = Head(s) /\ r = Tail(s)
  <2>1. Head(s) \in A /\ Tail(s) \in Seq(A)
    OBVIOUS
  <2> QED BY <2>1
<1>2. Picked(s, S) = F[x] \o Picked(r, S)
  <2>1. Mapped(F, s) = F[x] \o Mapped(F, r)
    <3>1. Maps(F, A, B)
      BY <1>0 DEF Picks
    <3> QED BY <1>1, <3>1, MappedHead
  <2> QED BY <1>0, <1>1, <2>1 DEF Picks
<1>3. PICK p \in Seq(A) : p = Picked(r, S)
  <2>1. Picked(r, S) \in Seq(A \cap S)
    BY PickedType
  <2> QED BY <2>1
<1>4. F[x] = IF x \in S THEN <<x>> ELSE <<>>
  BY <1>0 DEF Picks
<1>5. <<>> \o p = p
  BY ConcatEmptySeq
<1>6. <<x>> \o p # <<>> /\ Head(<<x>> \o p) = x /\ Tail(<<x>> \o p) = p
  OBVIOUS
<1> QED BY <1>1, <1>2, <1>3, <1>4, <1>5, <1>6

LEMMA OnlyOne ==
    ASSUME NEW S, NEW s \in Seq(S), Len(s) = 1
    PROVE  s # <<>> /\ Head(s) \in S /\ Tail(s) = <<>> /\ s = <<Head(s)>>
<1>1. s # <<>> /\ Head(s) \in S /\ Head(s) = s[1]
  OBVIOUS
<1>2. Tail(s) \in Seq(S) /\ Len(Tail(s)) = 0
  BY <1>1
<1>3. Tail(s) = <<>>
  BY <1>2, EmptySeq
<1>4. s = <<s[1]>>
  OBVIOUS
<1> QED BY <1>1, <1>3, <1>4

-----------------------------------------------------------------------------
(* The invariants.                                                          *)

(***************************************************************************)
(* A connection that the server has not accepted has no message yet and    *)
(* nothing under way; before it is open a socket does not read; and behind *)
(* the header at ReadBody there is what the header announced.              *)
(***************************************************************************)
Born ==
    /\ socket["client"] # "unborn" /\ socket["server"] # "connecting"
    /\ socket["server"] = "unborn" =>
          /\ posted["server"] = <<>> /\ m_qMessagesOut["server"] = <<>>
          /\ writes["server"] = <<>> /\ done["server"] = <<>> /\ accepted["server"] = <<>>
          /\ wire["client"] = <<>> /\ ~validated["server"]
    /\ \A e \in Ends : socket[e] \in {"unborn", "connecting"} => reading[e] = "none"
    /\ \A e \in Ends : reading[e] = "body" => m_msgTemporaryIn[e] \in Frames

\* The writes of messages, outstanding and finished.
MessagesWriting(e) == Picked(writes[e], MessageWrites)
MessagesDone(e) == Picked(done[e], MessageOps)

\* A header is written whole; of a body something is left.
WritesMessage(w, m) ==
    \/ kind = "framed" /\ w.op = "header" /\ w.words = <<HeaderOf(m)>>
    \/ kind = "framed" /\ w.op = "body" /\ w.words \in Seq(BodyWords) \ {<<>>}
    \/ kind = "raw" /\ w.op = "raw"

(***************************************************************************)
(* One write of a message belongs to the front of m_qMessagesOut, and is   *)
(* outstanding or finished.  A closed connection may have none, although   *)
(* there are messages left.                                                *)
(***************************************************************************)
OneWrite(connected, q, outstanding, finished) ==
    \/ outstanding = <<>> /\ finished = <<>> /\ (connected => q = <<>>)
    \/ /\ q # <<>> /\ finished = <<>> /\ Len(outstanding) = 1
       /\ WritesMessage(Head(outstanding), Head(q))
    \/ q # <<>> /\ outstanding = <<>> /\ Len(finished) = 1

WriterOK(e) == OneWrite(IsConnected(e), m_qMessagesOut[e], MessagesWriting(e), MessagesDone(e))
WritersOK == \A e \in Ends : WriterOK(e)

(***************************************************************************)
(* A close, a failure and the end of the client are alike: the socket      *)
(* closes, and of what is outstanding and finished something may go.       *)
(***************************************************************************)
Shuts(e) ==
    /\ socket' = [socket EXCEPT ![e] = "closed"]
    /\ \/ reading' = reading /\ wire' = wire
       \/ /\ reading' = [reading EXCEPT ![e] = "none"]
          /\ wire' = wire \/ (wire[e] # <<>> /\ Taken(e))
    /\ \/ writes' = writes
       \/ writes[e] # <<>> /\ writes' = [writes EXCEPT ![e] = Tail(@)]
       \/ writes' = [writes EXCEPT ![e] = <<>>]
    /\ done' = done \/ done' = [done EXCEPT ![e] = <<>>]
    /\ UNCHANGED <<m_qMessagesOut, m_msgTemporaryIn, m_nValidationOut, validated, received>>

LEMMA CloseShuts == ASSUME NEW e \in Ends, CloseSocket(e) PROVE Shuts(e)
BY DEF CloseSocket, Shuts

LEMMA FailureShuts ==
    ASSUME NEW e \in Ends, Aborted(e) \/ PeerClosed(e) \/ ConnectionLost(e)
    PROVE  Shuts(e) /\ UNCHANGED userVars
<1>1. Fails(e)
  BY DEF Aborted, PeerClosed, ConnectionLost
<1> QED BY <1>1 DEF Fails, ReadFails, WriteFails, Shuts

LEMMA EndShuts == ASSUME DestroyConnection PROVE Shuts("client") /\ UNCHANGED accepted
BY DEF DestroyConnection, Shuts

\* A right answer validates the client; a wrong one shuts the connection.
Validates ==
    /\ Arrives("server", "response") /\ Taken("server") /\ Head(wire["server"]) = Proof
    /\ Start("server", "notify", <<Proof>>)
    /\ validated' = [validated EXCEPT !["server"] = TRUE]
    /\ ReadOn("server", "header", FALSE)
    /\ UNCHANGED <<socket, done, m_qMessagesOut, m_msgTemporaryIn, m_nValidationOut,
                   received, userVars>>

LEMMA Response ==
    ASSUME ReadResponse PROVE Validates \/ (Shuts("server") /\ UNCHANGED userVars)
BY DEF ReadResponse, Validates, Shuts, Arrives

\* A read of a socket that has closed is none.
LEMMA ReadingOn ==
    ASSUME TypeOK, NEW e \in Ends, NEW name, NEW nothing, ReadOn(e, name, nothing)
    PROVE  /\ reading'[e] \in {name, "none"} /\ (socket[e] = "open" => reading'[e] = name)
           /\ \A d \in Ends : d # e => reading'[d] = reading[d]
           /\ name \in Reads => reading' \in [Ends -> Reads]
<1>1. PICK to : to = IF socket[e] = "open" \/ nothing THEN name ELSE "none"
  OBVIOUS
<1>2. reading' = [reading EXCEPT ![e] = to]
  BY <1>1 DEF ReadOn
<1>3. name \in Reads => to \in Reads
  BY <1>1 DEF Reads
<1> QED BY <1>1, <1>2, <1>3 DEF TypeOK

\* After a message the next one is read, if the socket is there.
LEMMA ReadingNext ==
    ASSUME TypeOK, NEW e \in Ends, NEW m, AddToIncomingMessageQueue(e, m)
    PROVE  \E next \in {"header", "raw"} :
              /\ next = IF kind = "framed" THEN "header" ELSE "raw"
              /\ ReadOn(e, next, FALSE)
              /\ reading'[e] \in {next, "none"} /\ (socket[e] = "open" => reading'[e] = next)
              /\ \A d \in Ends : d # e => reading'[d] = reading[d]
<1>1. PICK next \in {"header", "raw"} : next = IF kind = "framed" THEN "header" ELSE "raw"
  OBVIOUS
<1>2. ReadOn(e, next, FALSE)
  BY <1>1 DEF AddToIncomingMessageQueue
<1> QED BY <1>1, <1>2, ReadingOn

LEMMA KindKept ==
    ASSUME UNCHANGED kind
    PROVE  /\ Words' = Words /\ Sendable' = Sendable /\ Frames' = Frames
           /\ Lambdas' = Lambdas /\ OpNames' = OpNames /\ Ops' = Ops /\ Reads' = Reads
           /\ MessageWrites' = MessageWrites
<1>1. Words' = Words /\ Sendable' = Sendable /\ Frames' = Frames /\ OpNames' = OpNames
  BY DEF Words, Sendable, Frames, OpNames
<1> QED BY <1>1 DEF Lambdas, Ops, Reads, MessageWrites

\* The handlers of an end's writes leave the other end alone.
LEMMA OthersWrite ==
    ASSUME TypeOK, NEW e \in Ends, HeaderWritten(e) \/ BodyWritten(e) \/ RawWritten(e)
    PROVE  \A d \in Ends : d # e => /\ socket'[d] = socket[d] /\ writes'[d] = writes[d]
                                    /\ done'[d] = done[d]
                                    /\ m_qMessagesOut'[d] = m_qMessagesOut[d]
<1>1. UNCHANGED socket /\ done' = [done EXCEPT ![e] = Tail(@)]
  BY DEF HeaderWritten, BodyWritten, RawWritten, Finished
<1>2. m_qMessagesOut' = m_qMessagesOut \/ m_qMessagesOut' = [m_qMessagesOut EXCEPT ![e] = Tail(@)]
  BY DEF HeaderWritten, BodyWritten, RawWritten, WriteNext
<1>3. \A d \in Ends : d # e => m_qMessagesOut'[d] = m_qMessagesOut[d]
  BY <1>2 DEF TypeOK
<1>4. ASSUME NEW name, NEW words, Start(e, name, words)
      PROVE  \A d \in Ends : d # e => writes'[d] = writes[d]
  BY <1>4 DEF Start, TypeOK
<1>5. \/ writes' = writes \/ WriteBody(e)
      \/ \E m : WriteHeader(e, m) \/ WriteRaw(e, m)
  BY DEF HeaderWritten, BodyWritten, RawWritten, WriteNext, WriteMsg
<1>6. \A d \in Ends : d # e => writes'[d] = writes[d]
  BY <1>4, <1>5 DEF WriteBody, WriteHeader, WriteRaw
<1> QED BY <1>1, <1>3, <1>6 DEF TypeOK

\* A queue with a message of which a write has finished is not empty.
LEMMA FinishedFirst ==
    ASSUME TypeOK, WritersOK, NEW e \in Ends, NEW names, names \subseteq MessageOps,
           Finished(e, names)
    PROVE  /\ m_qMessagesOut[e] # <<>> /\ Head(m_qMessagesOut[e]) \in Sendable
           /\ Tail(m_qMessagesOut[e]) \in Seq(Sendable)
           /\ Head(done[e]) \in OpNames /\ Tail(done[e]) \in Seq(OpNames)
           /\ MessagesWriting(e) = <<>> /\ MessagesDone(e) = <<Head(done[e])>>
           /\ Picked(Tail(done[e]), MessageOps) = <<>>
<1>1. /\ done[e] \in Seq(OpNames) /\ done[e] # <<>> /\ Head(done[e]) \in MessageOps
      /\ m_qMessagesOut[e] \in Seq(Sendable)
  BY DEF TypeOK, Finished
<1>2. /\ MessagesDone(e) # <<>> /\ Tail(MessagesDone(e)) = Picked(Tail(done[e]), MessageOps)
      /\ Head(MessagesDone(e)) = Head(done[e])
  BY <1>1, PickedHead DEF MessagesDone
<1>3. MessagesDone(e) \in Seq(OpNames \cap MessageOps)
  BY <1>1, PickedType DEF MessagesDone
<1>4. /\ m_qMessagesOut[e] # <<>> /\ MessagesWriting(e) = <<>> /\ Len(MessagesDone(e)) = 1
  BY <1>1, <1>2 DEF WritersOK, WriterOK, OneWrite
<1>5. Tail(MessagesDone(e)) = <<>> /\ MessagesDone(e) = <<Head(MessagesDone(e))>>
  <2>1. PICK T : T = OpNames \cap MessageOps
    OBVIOUS
  <2>2. PICK d \in Seq(T) : d = MessagesDone(e)
    BY <1>3, <2>1
  <2>3. Len(d) = 1
    BY <1>4, <2>2
  <2>4. Tail(d) = <<>> /\ d = <<Head(d)>>
    BY <2>3, OnlyOne
  <2> QED BY <2>2, <2>4
<1>6. /\ Head(m_qMessagesOut[e]) \in Sendable /\ Tail(m_qMessagesOut[e]) \in Seq(Sendable)
      /\ Head(done[e]) \in OpNames /\ Tail(done[e]) \in Seq(OpNames)
  BY <1>1, <1>4
<1>7. Picked(Tail(done[e]), MessageOps) = <<>>
  BY <1>2, <1>5, Zenon
<1>8. MessagesDone(e) = <<Head(done[e])>>
  BY <1>2, <1>5
<1> QED BY <1>4, <1>6, <1>7, <1>8

LEMMA BodyType ==
    ASSUME NEW body \in Seq(Parts), NEW m, m.body = body
    PROVE  BodyOf(m) \in Seq(BodyWords) /\ Len(BodyOf(m)) = Len(body)
<1>1. \A i \in 1..Len(body) : [word |-> "body", part |-> body[i]] \in BodyWords
  BY DEF BodyWords
<1>2. Len(body) \in Nat
  OBVIOUS
<1> QED BY <1>1, <1>2 DEF BodyOf

LEMMA WordsType ==
    ASSUME NEW m \in Sendable
    PROVE  /\ BodyOf(m) \in Seq(BodyWords) /\ BodyOf(m) \in Seq(Words)
           /\ m.body \in Seq(Parts) /\ Len(BodyOf(m)) = Len(m.body)
           /\ kind = "framed" => HeaderOf(m) \in Words /\ <<HeaderOf(m)>> \in Seq(Words)
<1>1. m.body \in Seq(Parts)
  BY MsgsAssumption DEF Sendable
<1>2. BodyOf(m) \in Seq(BodyWords) /\ Len(BodyOf(m)) = Len(m.body)
  BY <1>1, BodyType
<1>3. BodyWords \subseteq Words
  BY DEF Words
<1>4. kind = "framed" => HeaderOf(m) \in Words
  BY DEF Words, Sendable
<1>5. BodyOf(m) \in Seq(Words)
  <2>1. \A i \in 1..Len(BodyOf(m)) : BodyOf(m)[i] \in Words
    BY <1>2, <1>3
  <2>2. Len(BodyOf(m)) \in Nat /\ BodyOf(m) = [i \in 1..Len(BodyOf(m)) |-> BodyOf(m)[i]]
    BY <1>2
  <2> QED BY <2>1, <2>2
<1> QED BY <1>1, <1>2, <1>4, <1>5

LEMMA StartType ==
    ASSUME TypeOK, NEW e \in Ends, NEW name \in OpNames, NEW words \in Seq(Words),
           Start(e, name, words)
    PROVE  writes' \in [Ends -> Seq(Ops)]
<1>1. [op |-> name, words |-> words] \in Ops
  BY DEF Ops
<1>2. writes[e] \in Seq(Ops)
  BY DEF TypeOK
<1>3. Append(writes[e], [op |-> name, words |-> words]) \in Seq(Ops)
  BY <1>1, <1>2
<1> QED BY <1>3 DEF TypeOK, Start

LEMMA WriteMsgType ==
    ASSUME TypeOK, NEW e \in Ends, NEW m \in Sendable, WriteMsg(e, m)
    PROVE  writes' \in [Ends -> Seq(Ops)]
<1>0. kind \in {"framed", "raw"}
  BY LimitsAssumption DEF TypeOK
<1>1. CASE kind = "framed"
  <2>1. "header" \in OpNames /\ <<HeaderOf(m)>> \in Seq(Words)
    BY <1>1, WordsType DEF OpNames
  <2>2. Start(e, "header", <<HeaderOf(m)>>)
    BY <1>1 DEF WriteMsg, WriteHeader
  <2> QED BY <2>1, <2>2, StartType
<1>2. CASE kind = "raw"
  <2>1. "raw" \in OpNames /\ BodyOf(m) \in Seq(Words)
    BY <1>2, WordsType DEF OpNames
  <2>2. Start(e, "raw", BodyOf(m))
    BY <1>2 DEF WriteMsg, WriteRaw
  <2> QED BY <2>1, <2>2, StartType
<1> QED BY <1>0, <1>1, <1>2

LEMMA WriteNextType ==
    ASSUME TypeOK, NEW e \in Ends, WriteNext(e), Tail(m_qMessagesOut[e]) \in Seq(Sendable)
    PROVE  writes' \in [Ends -> Seq(Ops)] /\ m_qMessagesOut' \in [Ends -> Seq(Sendable)]
<1>1. PICK rest \in Seq(Sendable) : rest = Tail(m_qMessagesOut[e])
  OBVIOUS
<1>2. m_qMessagesOut' \in [Ends -> Seq(Sendable)]
  BY <1>1 DEF TypeOK, WriteNext
<1>3. CASE rest = <<>>
  BY <1>1, <1>2, <1>3 DEF TypeOK, WriteNext
<1>4. CASE rest # <<>>
  <2>1. Head(rest) \in Sendable /\ WriteMsg(e, Head(rest))
    BY <1>1, <1>4 DEF WriteNext
  <2> QED BY <1>2, <2>1, WriteMsgType
<1> QED BY <1>3, <1>4

LEMMA ShutPosted ==
    ASSUME TypeOK, NEW e \in Ends, Shuts(e), UNCHANGED <<kind, accepted>>,
           posted' \in [Ends -> Seq(Lambdas)]
    PROVE  TypeOK'
<1>1. /\ Words' = Words /\ Sendable' = Sendable /\ Frames' = Frames
      /\ Lambdas' = Lambdas /\ OpNames' = OpNames /\ Ops' = Ops /\ Reads' = Reads
  BY KindKept
<1>2. /\ socket' \in [Ends -> {"unborn", "connecting", "open", "closed"}]
      /\ reading' \in [Ends -> Reads']
  BY <1>1 DEF TypeOK, Shuts, Reads
<1>3. wire' \in [Ends -> Seq(Words')]
  <2>1. wire[e] # <<>> => Tail(wire[e]) \in Seq(Words)
    BY DEF TypeOK
  <2>2. wire' = wire \/ (wire[e] # <<>> /\ wire' = [wire EXCEPT ![e] = Tail(wire[e])])
    BY DEF Shuts, Taken
  <2> QED BY <1>1, <2>1, <2>2 DEF TypeOK
<1>4. writes' \in [Ends -> Seq(Ops')] /\ done' \in [Ends -> Seq(OpNames')]
  <2>1. writes[e] # <<>> => Tail(writes[e]) \in Seq(Ops)
    BY DEF TypeOK
  <2>2. \/ writes' = writes \/ writes' = [writes EXCEPT ![e] = <<>>]
        \/ writes[e] # <<>> /\ writes' = [writes EXCEPT ![e] = Tail(writes[e])]
    BY DEF Shuts
  <2>3. writes \in [Ends -> Seq(Ops)] /\ done \in [Ends -> Seq(OpNames)]
    BY DEF TypeOK
  <2>4. <<>> \in Seq(Ops) /\ <<>> \in Seq(OpNames)
    OBVIOUS
  <2>5. writes' \in [Ends -> Seq(Ops)]
    BY <2>1, <2>2, <2>3, <2>4
  <2>6. done' \in [Ends -> Seq(OpNames)]
    BY <2>3, <2>4 DEF Shuts
  <2> QED BY <1>1, <2>5, <2>6
<1>5. /\ posted' \in [Ends -> Seq(Lambdas')]
      /\ m_qMessagesOut' \in [Ends -> Seq(Sendable')]
      /\ accepted' \in [Ends -> Seq(Sendable')]
  BY <1>1 DEF TypeOK, Shuts
<1>6. /\ m_msgTemporaryIn' \in [Ends -> Frames' \cup {Fresh}]
      /\ m_nValidationOut' \in {Nonce, Proof, Garbage}
      /\ validated' \in [Ends -> BOOLEAN]
      /\ received' \in [Ends -> Seq(Frames')] /\ kind' \in Kinds
  BY <1>1 DEF TypeOK, Shuts
<1> QED BY <1>2, <1>3, <1>4, <1>5, <1>6 DEF TypeOK

LEMMA ShutType ==
    ASSUME TypeOK, NEW e \in Ends, Shuts(e), UNCHANGED <<kind, userVars>>
    PROVE  TypeOK'
<1>1. posted' \in [Ends -> Seq(Lambdas)] /\ accepted' = accepted
  BY DEF TypeOK, userVars
<1> QED BY <1>1, ShutPosted

\* What the head of wire[e] is.
LEMMA HeadType ==
    ASSUME TypeOK, NEW e \in Ends, wire[e] # <<>>
    PROVE  Head(wire[e]) \in Words /\ Tail(wire[e]) \in Seq(Words)
BY DEF TypeOK

\* A header read is the one of a message, and what it leaves in m_msgTemporaryIn.
HeaderMakes(e, m, in) ==
    /\ kind = "framed" /\ wire[e] # <<>> /\ Head(wire[e]) = HeaderOf(m)
    /\ in = [type |-> m.type, size |-> m.size,
             body |-> IF m.size > 0 THEN <<>> ELSE m_msgTemporaryIn[e].body]
    /\ m_msgTemporaryIn' = [m_msgTemporaryIn EXCEPT ![e] = in]
    /\ IF m.size > 0 THEN ReadOn(e, "body", m.size = 1) /\ UNCHANGED received
                     ELSE AddToIncomingMessageQueue(e, in)

LEMMA HeaderRead ==
    ASSUME TypeOK, NEW e \in Ends, ReadHeader(e)
    PROVE  \E m \in Msgs, in \in Frames : HeaderMakes(e, m, in)
<1>0. kind \in {"framed", "raw"}
  BY LimitsAssumption DEF TypeOK
<1>1. wire[e] # <<>> /\ Head(wire[e]).word = "header" /\ reading[e] = "header"
  BY DEF ReadHeader, Arrives
<1>2. kind = "framed"
  BY <1>0, <1>1 DEF TypeOK, Reads, OpNames
<1>3. PICK h : h = Head(wire[e])
  OBVIOUS
<1>4. PICK m \in Msgs : h = HeaderOf(m)
  <2>1. h \in Words /\ h.word = "header"
    BY <1>1, <1>3, HeadType
  <2> QED BY <1>2, <2>1 DEF Words, Nonce, Proof, Garbage, BodyWords
<1>5. PICK in : in = [type |-> h.type, size |-> h.size,
                      body |-> IF h.size > 0 THEN <<>> ELSE m_msgTemporaryIn[e].body]
  OBVIOUS
<1>6. h.type = m.type /\ h.size = m.size
  BY <1>4 DEF HeaderOf
<1>7. in \in Frames
  <2>1. m_msgTemporaryIn[e].body \in Seq(Parts)
    <3>1. m_msgTemporaryIn[e] \in Frames \/ m_msgTemporaryIn[e] = Fresh
      BY DEF TypeOK
    <3>2. m_msgTemporaryIn[e] \in Frames => m_msgTemporaryIn[e].body \in Seq(Parts)
      BY <1>2 DEF Frames
    <3>3. Fresh.body \in Seq(Parts)
      BY DEF Fresh
    <3> QED BY <3>1, <3>2, <3>3
  <2> QED BY <1>2, <1>5, <1>6, <2>1 DEF Frames
<1>8. /\ m_msgTemporaryIn' = [m_msgTemporaryIn EXCEPT ![e] = in]
      /\ IF h.size > 0 THEN ReadOn(e, "body", h.size = 1) /\ UNCHANGED received
                       ELSE AddToIncomingMessageQueue(e, in)
  BY <1>3, <1>5 DEF ReadHeader
<1>9. HeaderMakes(e, m, in)
  BY <1>1, <1>2, <1>3, <1>4, <1>5, <1>6, <1>8 DEF HeaderMakes
<1> QED BY <1>7, <1>9

\* The same of a part of a body.
PartMakes(e, part, in) ==
    /\ kind = "framed" /\ wire[e] # <<>> /\ Head(wire[e]) = [word |-> "body", part |-> part]
    /\ in = [m_msgTemporaryIn[e] EXCEPT !.body = Append(@, part)]
    /\ m_msgTemporaryIn[e] \in Frames
    /\ m_msgTemporaryIn' = [m_msgTemporaryIn EXCEPT ![e] = in]

LEMMA PartRead ==
    ASSUME TypeOK, Born, NEW e \in Ends, ReadBody(e)
    PROVE  \E part \in Parts, in \in Frames : PartMakes(e, part, in)
<1>0. kind \in {"framed", "raw"}
  BY LimitsAssumption DEF TypeOK
<1>1. wire[e] # <<>> /\ Head(wire[e]).word = "body" /\ reading[e] = "body"
  BY DEF ReadBody, Arrives
<1>2. kind = "framed" /\ m_msgTemporaryIn[e] \in Frames
  BY <1>0, <1>1 DEF Born, TypeOK, Reads, OpNames
<1>3. PICK part \in Parts : Head(wire[e]) = [word |-> "body", part |-> part]
  <2>1. Head(wire[e]) \in Words
    BY <1>1, HeadType
  <2>2. Head(wire[e]) \in BodyWords
    BY <1>1, <2>1 DEF Words, Nonce, Proof, Garbage, HeaderOf
  <2> QED BY <2>2 DEF BodyWords
<1>4. PICK b \in Seq(Parts) : b = Append(m_msgTemporaryIn[e].body, part)
  <2>1. m_msgTemporaryIn[e].body \in Seq(Parts)
    BY <1>2 DEF Frames
  <2>2. Append(m_msgTemporaryIn[e].body, part) \in Seq(Parts)
    BY <2>1
  <2> QED BY <2>2
<1>5. PICK in : in = [m_msgTemporaryIn[e] EXCEPT !.body = b]
  OBVIOUS
<1>6. in \in Frames
  BY <1>2, <1>4, <1>5 DEF Frames
<1>7. m_msgTemporaryIn' = [m_msgTemporaryIn EXCEPT ![e] = in]
  <2>1. Head(wire[e]).part = part
    BY <1>3
  <2>2. m_msgTemporaryIn' = [m_msgTemporaryIn EXCEPT ![e] = [@ EXCEPT !.body = b]]
    BY <1>4, <2>1 DEF ReadBody
  <2> QED BY <1>5, <2>2
<1>8. PartMakes(e, part, in)
  BY <1>1, <1>2, <1>3, <1>4, <1>5, <1>7 DEF PartMakes
<1> QED BY <1>6, <1>8

LEMMA TransferType ==
    ASSUME TypeOK, NEW e \in Ends, Transfer(e), UNCHANGED kind
    PROVE  TypeOK'
<1>1. PICK w : w = Head(writes[e])
  OBVIOUS
<1>2. w \in Ops /\ w.op \in OpNames /\ w.words \in Seq(Words) /\ Tail(writes[e]) \in Seq(Ops)
  <2>1. writes[e] \in Seq(Ops) /\ writes[e] # <<>>
    BY DEF TypeOK, Transfer
  <2>2. Head(writes[e]) \in Ops /\ Tail(writes[e]) \in Seq(Ops)
    BY <2>1
  <2> QED BY <1>1, <2>2 DEF Ops
<1>3. PICK n \in Nat : n = (IF w.words = <<>> THEN 0 ELSE 1) /\ n <= Len(w.words)
  <2>1. w.words # <<>> => 1 <= Len(w.words)
    BY <1>2
  <2>2. Len(w.words) \in Nat
    BY <1>2
  <2> QED BY <2>1, <2>2
<1>4. PICK x \in Seq(Words), y \in Seq(Words) :
          x = SubSeq(w.words, 1, n) /\ y = SubSeq(w.words, n + 1, Len(w.words))
  <2>1. n \in 0..Len(w.words)
    BY <1>2, <1>3
  <2> QED BY <1>2, <2>1, Joined
<1>5. [op |-> w.op, words |-> y] \in Ops
  BY <1>2, <1>4 DEF Ops
<1>6. /\ wire' = [wire EXCEPT ![Peer(e)] = @ \o x]
      /\ \/ /\ writes' = [writes EXCEPT ![e] = Append(Tail(@), [op |-> w.op, words |-> y])]
            /\ done' = done
         \/ /\ writes' = [writes EXCEPT ![e] = Tail(@)]
            /\ done' = [done EXCEPT ![e] = Append(@, w.op)]
  <2>0. HandOver(e)
    BY DEF Transfer
  <2>1. wire' = [wire EXCEPT ![Peer(e)] = @ \o x]
    BY <1>1, <1>3, <1>4, <2>0 DEF HandOver
  <2>2. \/ writes' = [writes EXCEPT ![e] = Append(Tail(@), [op |-> w.op, words |-> y])]
           /\ done' = done
        \/ writes' = [writes EXCEPT ![e] = Tail(@)]
           /\ done' = [done EXCEPT ![e] = Append(@, w.op)]
    BY <1>1, <1>3, <1>4, <2>0 DEF HandOver
  <2> QED BY <2>1, <2>2
<1>7. wire' \in [Ends -> Seq(Words)]
  <2>1. PICK d \in Ends : d = Peer(e)
    BY DEF Peer, Ends
  <2>2. PICK y2 \in Seq(Words) : y2 = wire[d] \o x
    <3>1. wire[d] \in Seq(Words)
      BY DEF TypeOK
    <3>2. wire[d] \o x \in Seq(Words)
      BY <3>1
    <3> QED BY <3>2
  <2>3. wire' = [wire EXCEPT ![d] = y2]
    BY <1>6, <2>1, <2>2
  <2>4. wire \in [Ends -> Seq(Words)]
    BY DEF TypeOK
  <2> QED BY <2>3, <2>4
<1>8. writes' \in [Ends -> Seq(Ops)] /\ done' \in [Ends -> Seq(OpNames)]
  <2>1. writes \in [Ends -> Seq(Ops)] /\ done \in [Ends -> Seq(OpNames)]
    BY DEF TypeOK
  <2>2. /\ Append(Tail(writes[e]), [op |-> w.op, words |-> y]) \in Seq(Ops)
        /\ Append(done[e], w.op) \in Seq(OpNames)
    BY <1>2, <1>5, <2>1
  <2> QED BY <1>2, <1>6, <2>1, <2>2
<1>9. UNCHANGED <<socket, reading, m_qMessagesOut, m_msgTemporaryIn,
                  m_nValidationOut, validated, received, posted, accepted>>
  BY DEF Transfer, userVars
<1> QED BY <1>7, <1>8, <1>9, KindKept DEF TypeOK

LEMMA TypeStep == TypeOK /\ Born /\ WritersOK /\ [Next]_vars => TypeOK'
<1> SUFFICES ASSUME TypeOK, Born, WritersOK, [Next]_vars PROVE TypeOK'
  OBVIOUS
<1> USE DEF userVars, writeVars, readVars
<1>0. kind \in {"framed", "raw"}
  BY LimitsAssumption DEF TypeOK
<1>1. CASE UNCHANGED vars
  BY <1>1, KindKept DEF TypeOK, vars
<1>2. ASSUME NEW e \in Ends, Aborted(e) \/ PeerClosed(e) \/ ConnectionLost(e), UNCHANGED kind
      PROVE  TypeOK'
  BY <1>2, FailureShuts, ShutType
<1>3. ASSUME NEW e \in Ends, Transfer(e), UNCHANGED kind PROVE TypeOK'
  BY <1>3, TransferType
<1>4. ASSUME NEW e \in Ends, ValidationWritten(e), UNCHANGED kind PROVE TypeOK'
  <2>1. done[e] # <<>> /\ Tail(done[e]) \in Seq(OpNames) /\ Head(done[e]) \in OpNames
    BY <1>4 DEF TypeOK, ValidationWritten, Finished
  <2>2. done' \in [Ends -> Seq(OpNames)]
    BY <1>4, <2>1 DEF TypeOK, ValidationWritten, Finished
  <2>3. reading' \in [Ends -> Reads]
    <3>1. Head(done[e]) = "response" => "notify" \in Reads
      BY <2>1 DEF OpNames, Reads
    <3>2. reading' = reading \/ (Head(done[e]) = "response" /\ ReadOn(e, "notify", FALSE))
      BY <1>4 DEF ValidationWritten
    <3> QED BY <3>1, <3>2, ReadingOn DEF TypeOK
  <2> QED BY <1>4, <2>2, <2>3, KindKept DEF TypeOK, ValidationWritten, Finished
<1>5. ASSUME NEW e \in Ends, NEW names, names \subseteq MessageOps, Finished(e, names),
             writes' \in [Ends -> Seq(Ops)], m_qMessagesOut' \in [Ends -> Seq(Sendable)],
             UNCHANGED <<kind, reading>>
      PROVE  TypeOK'
  <2>1. done' \in [Ends -> Seq(OpNames)]
    BY <1>5, FinishedFirst DEF TypeOK, Finished
  <2> QED BY <1>5, <2>1, KindKept DEF TypeOK, Finished
<1>6. ASSUME NEW e \in Ends, HeaderWritten(e), UNCHANGED kind PROVE TypeOK'
  <2>1. Finished(e, {"header"}) /\ {"header"} \subseteq MessageOps /\ reading' = reading
    BY <1>6 DEF HeaderWritten, MessageOps
  <2>2. /\ Head(m_qMessagesOut[e]) \in Sendable /\ "header" \in OpNames
        /\ Tail(m_qMessagesOut[e]) \in Seq(Sendable)
    BY <2>1, FinishedFirst DEF Finished
  <2>3. CASE WriteNext(e)
    BY <1>5, <1>6, <2>1, <2>2, <2>3, WriteNextType
  <2>4. CASE WriteBody(e) /\ UNCHANGED m_qMessagesOut
    <3>1. "body" \in OpNames /\ BodyOf(Head(m_qMessagesOut[e])) \in Seq(Words)
      BY <1>0, <2>2, WordsType DEF OpNames
    <3>2. writes' \in [Ends -> Seq(Ops)]
      BY <2>4, <3>1, StartType DEF WriteBody
    <3>3. m_qMessagesOut' \in [Ends -> Seq(Sendable)]
      BY <2>4 DEF TypeOK
    <3> QED BY <1>5, <1>6, <2>1, <3>2, <3>3
  <2> QED BY <1>6, <2>3, <2>4 DEF HeaderWritten
<1>7. ASSUME NEW e \in Ends, BodyWritten(e) \/ RawWritten(e), UNCHANGED kind PROVE TypeOK'
  <2>1. PICK names : names \subseteq MessageOps /\ Finished(e, names)
    BY <1>7 DEF BodyWritten, RawWritten, MessageOps
  <2>2. WriteNext(e) /\ reading' = reading
    BY <1>7 DEF BodyWritten, RawWritten
  <2>3. Tail(m_qMessagesOut[e]) \in Seq(Sendable)
    BY <2>1, FinishedFirst
  <2>4. writes' \in [Ends -> Seq(Ops)] /\ m_qMessagesOut' \in [Ends -> Seq(Sendable)]
    BY <2>2, <2>3, WriteNextType
  <2> QED BY <1>5, <1>7, <2>1, <2>2, <2>4
<1>8. ASSUME NEW e \in Ends, ReadHeader(e), UNCHANGED kind PROVE TypeOK'
  <2>1. PICK m \in Msgs, in \in Frames : HeaderMakes(e, m, in)
    BY <1>8, HeaderRead
  <2>2. m_msgTemporaryIn' \in [Ends -> Frames \cup {Fresh}]
    BY <2>1 DEF TypeOK, HeaderMakes
  <2>3. reading' \in [Ends -> Reads] /\ received' \in [Ends -> Seq(Frames)]
    <3>1. {"header", "body"} \subseteq Reads
      BY <2>1 DEF Reads, OpNames, HeaderMakes
    <3>2. CASE ReadOn(e, "body", m.size = 1) /\ UNCHANGED received
      BY <3>1, <3>2, ReadingOn DEF TypeOK
    <3>3. CASE AddToIncomingMessageQueue(e, in)
      <4>1. ReadOn(e, "header", FALSE)
        BY <2>1, <3>3 DEF AddToIncomingMessageQueue, HeaderMakes
      <4>2. Append(received[e], in) \in Seq(Frames)
        BY DEF TypeOK
      <4>3. received' \in [Ends -> Seq(Frames)]
        BY <3>3, <4>2 DEF TypeOK, AddToIncomingMessageQueue
      <4> QED BY <3>1, <4>1, <4>3, ReadingOn
    <3> QED BY <2>1, <3>2, <3>3 DEF HeaderMakes
  <2>4. wire' \in [Ends -> Seq(Words)]
    BY <1>8, HeadType DEF TypeOK, ReadHeader, Arrives, Taken
  <2>5. UNCHANGED <<socket, writeVars, m_nValidationOut, validated, userVars>>
    BY <1>8 DEF ReadHeader
  <2> QED BY <1>8, <2>2, <2>3, <2>4, <2>5, KindKept DEF TypeOK
<1>9. ASSUME NEW e \in Ends, ReadBody(e), UNCHANGED kind PROVE TypeOK'
  <2>1. PICK part \in Parts, in \in Frames : PartMakes(e, part, in)
    BY <1>9, PartRead
  <2>2. m_msgTemporaryIn' \in [Ends -> Frames \cup {Fresh}]
    BY <2>1 DEF TypeOK, PartMakes
  <2>3. wire' \in [Ends -> Seq(Words)]
    BY <1>9, HeadType DEF TypeOK, ReadBody, Arrives, Taken
  <2>4. UNCHANGED <<socket, reading, writeVars, m_nValidationOut, validated, received,
                    userVars>>
    BY <1>9 DEF ReadBody
  <2> QED BY <1>9, <2>2, <2>3, <2>4, KindKept DEF TypeOK
<1>10. ASSUME NEW e \in Ends, BodyRead(e), UNCHANGED kind PROVE TypeOK'
  <2>1. reading[e] = "body" /\ AddToIncomingMessageQueue(e, m_msgTemporaryIn[e])
    BY <1>10 DEF BodyRead
  <2>2. m_msgTemporaryIn[e] \in Frames
    BY <2>1 DEF Born
  <2>3. received' \in [Ends -> Seq(Frames)]
    BY <2>1, <2>2 DEF TypeOK, AddToIncomingMessageQueue
  <2>4. reading' \in [Ends -> Reads]
    <3>1. PICK name \in Reads : ReadOn(e, name, FALSE)
      BY <1>0, <2>1 DEF AddToIncomingMessageQueue, Reads, OpNames
    <3> QED BY <3>1, ReadingOn
  <2>5. UNCHANGED <<socket, wire, writeVars, m_msgTemporaryIn, m_nValidationOut, validated,
                    userVars>>
    BY <1>10 DEF BodyRead
  <2> QED BY <1>10, <2>3, <2>4, <2>5, KindKept DEF TypeOK
<1>11. ASSUME NEW e \in Ends, ReadRaw(e), UNCHANGED kind PROVE TypeOK'
  <2>1. wire[e] # <<>> /\ reading[e] = "raw"
    BY <1>11 DEF ReadRaw, Arrives
  <2>2. kind = "raw"
    BY <1>0, <2>1 DEF TypeOK, Reads, OpNames
  <2>3. wire[e] \in Seq(BodyWords)
    BY <2>2 DEF TypeOK, Words
  <2>4. PICK n \in 1..Len(wire[e]) : \E in :
            /\ in = [NewMsg("raw") EXCEPT !.body = [i \in 1..n |-> wire[e][i].part]]
            /\ wire' = [wire EXCEPT ![e] = SubSeq(@, n + 1, Len(@))]
            /\ m_msgTemporaryIn' = [m_msgTemporaryIn EXCEPT ![e] = in]
            /\ AddToIncomingMessageQueue(e, in)
    BY <1>11 DEF ReadRaw
  <2>5. PICK in :
            /\ in = [NewMsg("raw") EXCEPT !.body = [i \in 1..n |-> wire[e][i].part]]
            /\ wire' = [wire EXCEPT ![e] = SubSeq(@, n + 1, Len(@))]
            /\ m_msgTemporaryIn' = [m_msgTemporaryIn EXCEPT ![e] = in]
            /\ AddToIncomingMessageQueue(e, in)
    BY <2>4
  <2>6. PICK b \in Seq(Parts) : b = [i \in 1..n |-> wire[e][i].part]
    <3>1. \A i \in 1..n : wire[e][i].part \in Parts
      <4>1. \A i \in 1..n : i \in 1..Len(wire[e])
        BY <2>3, <2>4
      <4>2. \A i \in 1..n : wire[e][i] \in BodyWords
        BY <2>3, <4>1
      <4> QED BY <4>2 DEF BodyWords
    <3>2. n \in Nat
      BY <2>3, <2>4
    <3>3. [i \in 1..n |-> wire[e][i].part] \in Seq(Parts)
      BY <3>1, <3>2
    <3> QED BY <3>3
  <2>7. in \in Frames
    BY <2>2, <2>5, <2>6 DEF Frames, NewMsg
  <2>8. SubSeq(wire[e], n + 1, Len(wire[e])) \in Seq(Words)
    <3>1. wire[e] \in Seq(Words) /\ n \in 0..Len(wire[e])
      BY <2>4 DEF TypeOK
    <3> QED BY <3>1, Joined
  <2>9. wire' \in [Ends -> Seq(Words)]
    BY <2>5, <2>8 DEF TypeOK
  <2>10. m_msgTemporaryIn' \in [Ends -> Frames \cup {Fresh}] /\ received' \in [Ends -> Seq(Frames)]
    BY <2>5, <2>7 DEF TypeOK, AddToIncomingMessageQueue
  <2>11. reading' \in [Ends -> Reads]
    <3>1. PICK name \in Reads : ReadOn(e, name, FALSE)
      BY <2>2, <2>5 DEF AddToIncomingMessageQueue, Reads, OpNames
    <3> QED BY <3>1, ReadingOn
  <2>12. UNCHANGED <<socket, writeVars, m_nValidationOut, validated, userVars>>
    BY <1>11 DEF ReadRaw
  <2> QED BY <1>11, <2>9, <2>10, <2>11, <2>12, KindKept DEF TypeOK
<1>12. ASSUME NEW e \in Ends, RunPosted(e), UNCHANGED kind PROVE TypeOK'
  <2>1. PICK l \in Lambdas : l = Head(posted[e]) /\ Tail(posted[e]) \in Seq(Lambdas)
    <3>1. posted[e] \in Seq(Lambdas) /\ posted[e] # <<>>
      BY <1>12 DEF TypeOK, RunPosted
    <3> QED BY <3>1
  <2>2. posted' \in [Ends -> Seq(Lambdas)]
    BY <1>12, <2>1 DEF TypeOK, RunPosted
  <2>3. CASE l.call = "close"
    <3>1. CloseSocket(e) /\ accepted' = accepted
      BY <1>12, <2>1, <2>3 DEF RunPosted
    <3> QED BY <1>12, <2>2, <3>1, CloseShuts, ShutPosted
  <2>4. CASE l.call = "send"
    <3>1. l.msg \in Sendable
      BY <2>1, <2>4 DEF Lambdas
    <3>2. /\ m_qMessagesOut' = [m_qMessagesOut EXCEPT ![e] = Append(@, l.msg)]
          /\ accepted' = [accepted EXCEPT ![e] = Append(@, l.msg)]
          /\ WriteMsg(e, l.msg) \/ UNCHANGED writes
          /\ UNCHANGED <<socket, done, readVars>>
      BY <1>12, <2>1, <2>4 DEF RunPosted
    <3>3. m_qMessagesOut' \in [Ends -> Seq(Sendable)] /\ accepted' \in [Ends -> Seq(Sendable)]
      BY <3>1, <3>2 DEF TypeOK
    <3>4. writes' \in [Ends -> Seq(Ops)]
      BY <3>1, <3>2, WriteMsgType DEF TypeOK
    <3> QED BY <1>12, <2>2, <3>2, <3>3, <3>4, KindKept DEF TypeOK
  <2>5. l.call \in {"close", "send"}
    BY <1>12, <2>1 DEF RunPosted
  <2> QED BY <2>3, <2>4, <2>5
<1>13. ASSUME ConnectToClient, UNCHANGED kind PROVE TypeOK'
  <2>1. CASE CloseSocket("server") /\ UNCHANGED userVars
    BY <1>13, <2>1, CloseShuts, ShutType DEF Ends
  <2>2. CASE ~CloseSocket("server")
    <3>1. /\ socket' = [socket EXCEPT !["server"] = "open"]
          /\ UNCHANGED <<wire, done, m_qMessagesOut, m_msgTemporaryIn, m_nValidationOut,
                         received, userVars>>
      BY <1>13, <2>2 DEF ConnectToClient
    <3>2. CASE kind = "framed"
      <4>1. /\ Start("server", "challenge", <<Nonce>>) /\ validated' = validated
            /\ reading' = [reading EXCEPT !["server"] = "response"]
        BY <1>13, <2>2, <3>2 DEF ConnectToClient
      <4>2. writes' \in [Ends -> Seq(Ops)]
        <5>1. "challenge" \in OpNames /\ <<Nonce>> \in Seq(Words)
          BY <3>2 DEF OpNames, Words
        <5> QED BY <4>1, <5>1, StartType DEF Ends
      <4>3. reading' \in [Ends -> Reads]
        BY <3>2, <4>1 DEF TypeOK, Reads, OpNames
      <4> QED BY <1>13, <3>1, <4>1, <4>2, <4>3, KindKept DEF TypeOK
    <3>3. CASE kind = "raw"
      <4>1. RawBegins("server") /\ writes' = writes
        BY <1>13, <2>2, <3>3 DEF ConnectToClient
      <4>2. reading' \in [Ends -> Reads] /\ validated' \in [Ends -> BOOLEAN]
        BY <3>3, <4>1 DEF TypeOK, Reads, OpNames, RawBegins
      <4> QED BY <1>13, <3>1, <4>1, <4>2, KindKept DEF TypeOK
    <3> QED BY <1>0, <3>2, <3>3
  <2> QED BY <1>13, <2>1, <2>2 DEF ConnectToClient
<1>14. ASSUME ConnectToServer, UNCHANGED kind PROVE TypeOK'
  <2>1. CASE CloseSocket("client") /\ UNCHANGED userVars
    BY <1>14, <2>1, CloseShuts, ShutType DEF Ends
  <2>2. CASE ~CloseSocket("client")
    <3>1. /\ socket' = [socket EXCEPT !["client"] = "open"]
          /\ UNCHANGED <<wire, writeVars, m_msgTemporaryIn, m_nValidationOut,
                         received, userVars>>
      BY <1>14, <2>2 DEF ConnectToServer
    <3>2. CASE kind = "framed"
      <4>1. reading' = [reading EXCEPT !["client"] = "challenge"] /\ validated' = validated
        BY <1>14, <2>2, <3>2 DEF ConnectToServer
      <4>2. reading' \in [Ends -> Reads]
        BY <3>2, <4>1 DEF TypeOK, Reads, OpNames
      <4> QED BY <1>14, <3>1, <4>1, <4>2, KindKept DEF TypeOK
    <3>3. CASE kind = "raw"
      <4>1. RawBegins("client")
        BY <1>14, <2>2, <3>3 DEF ConnectToServer
      <4>2. reading' \in [Ends -> Reads] /\ validated' \in [Ends -> BOOLEAN]
        BY <3>3, <4>1 DEF TypeOK, Reads, OpNames, RawBegins
      <4> QED BY <1>14, <3>1, <4>2, KindKept DEF TypeOK
    <3> QED BY <1>0, <3>2, <3>3
  <2> QED BY <1>14, <2>1, <2>2 DEF ConnectToServer
<1>15. ASSUME ReadChallenge, UNCHANGED kind PROVE TypeOK'
  <2>1. wire["client"] # <<>> /\ reading["client"] = "challenge"
    BY <1>15 DEF ReadChallenge, Arrives
  <2>2. kind = "framed"
    BY <1>0, <2>1 DEF TypeOK, Reads, OpNames, Ends
  <2>3. m_nValidationOut' \in {Proof, Garbage}
    BY <1>15 DEF ReadChallenge, CalculateValidation
  <2>4. writes' \in [Ends -> Seq(Ops)]
    <3>1. "response" \in OpNames /\ <<m_nValidationOut'>> \in Seq(Words)
      BY <2>2, <2>3 DEF OpNames, Words
    <3>2. Start("client", "response", <<m_nValidationOut'>>)
      BY <1>15 DEF ReadChallenge
    <3> QED BY <3>1, <3>2, StartType DEF Ends
  <2>5. reading' \in [Ends -> Reads]
    BY <1>15 DEF TypeOK, Reads, ReadChallenge
  <2>6. wire' \in [Ends -> Seq(Words)]
    BY <1>15, <2>1, HeadType DEF TypeOK, ReadChallenge, Taken, Ends
  <2> QED BY <1>15, <2>3, <2>4, <2>5, <2>6, KindKept DEF TypeOK, ReadChallenge
<1>16. ASSUME ReadResponse, UNCHANGED kind PROVE TypeOK'
  <2>1. CASE Shuts("server") /\ UNCHANGED userVars
    BY <1>16, <2>1, ShutType DEF Ends
  <2>2. CASE Validates
    <3>1. wire["server"] # <<>> /\ reading["server"] = "response"
      BY <2>2 DEF Validates, Arrives
    <3>2. kind = "framed"
      BY <1>0, <3>1 DEF TypeOK, Reads, OpNames, Ends
    <3>3. /\ Taken("server") /\ Start("server", "notify", <<Proof>>)
          /\ validated' = [validated EXCEPT !["server"] = TRUE]
          /\ ReadOn("server", "header", FALSE)
          /\ UNCHANGED <<socket, done, m_qMessagesOut, m_msgTemporaryIn,
                         m_nValidationOut, received, userVars>>
      BY <2>2 DEF Validates
    <3>4. writes' \in [Ends -> Seq(Ops)]
      <4>1. "notify" \in OpNames /\ <<Proof>> \in Seq(Words)
        BY <3>2 DEF OpNames, Words
      <4> QED BY <3>3, <4>1, StartType DEF Ends
    <3>5. reading' \in [Ends -> Reads]
      <4>1. "header" \in Reads
        BY <3>2 DEF Reads, OpNames
      <4> QED BY <3>3, <4>1, ReadingOn DEF Ends
    <3>6. wire' \in [Ends -> Seq(Words)]
      BY <3>1, <3>3, HeadType DEF TypeOK, Taken, Ends
    <3> QED BY <1>16, <3>3, <3>4, <3>5, <3>6, KindKept DEF TypeOK
  <2> QED BY <1>16, <2>1, <2>2, Response
<1>17. ASSUME WaitForValidation, UNCHANGED kind PROVE TypeOK'
  <2>1. wire["client"] # <<>> /\ reading["client"] = "notify"
    BY <1>17 DEF WaitForValidation, Arrives
  <2>2. reading' \in [Ends -> Reads] /\ validated' \in [Ends -> BOOLEAN]
    <3>1. "header" \in Reads
      BY <1>0, <2>1 DEF TypeOK, Reads, OpNames, Ends
    <3>2. CASE ReadOn("client", "header", FALSE)
      BY <1>17, <3>1, <3>2, ReadingOn DEF TypeOK, WaitForValidation, Ends
    <3>3. CASE reading' = [reading EXCEPT !["client"] = "none"] /\ UNCHANGED validated
      BY <3>3 DEF TypeOK, Reads
    <3> QED BY <1>17, <3>2, <3>3 DEF TypeOK, WaitForValidation
  <2>3. wire' \in [Ends -> Seq(Words)]
    BY <1>17, <2>1, HeadType DEF TypeOK, WaitForValidation, Taken, Ends
  <2> QED BY <1>17, <2>2, <2>3, KindKept DEF TypeOK, WaitForValidation
<1>18. ASSUME NEW e \in Ends, User(e), UNCHANGED kind PROVE TypeOK'
  <2>1. PICK l \in Lambdas : posted' = [posted EXCEPT ![e] = Append(@, l)]
    BY <1>18 DEF User, Send, Disconnect, Lambdas
  <2>2. posted' \in [Ends -> Seq(Lambdas)]
    BY <2>1 DEF TypeOK
  <2>3. UNCHANGED <<socket, readVars, writeVars, accepted>>
    BY <1>18 DEF User, Send, Disconnect
  <2> QED BY <1>18, <2>2, <2>3, KindKept DEF TypeOK
<1>19. ASSUME DestroyConnection, UNCHANGED kind PROVE TypeOK'
  <2>0. PICK e \in Ends : e = "client"
    BY DEF Ends
  <2>1. Shuts(e) /\ accepted' = accepted
    BY <1>19, <2>0, EndShuts
  <2>2. posted' \in [Ends -> Seq(Lambdas)]
    <3>1. posted' = [posted EXCEPT !["client"] = <<>>]
      BY <1>19 DEF DestroyConnection
    <3>2. posted \in [Ends -> Seq(Lambdas)] /\ <<>> \in Seq(Lambdas)
      BY DEF TypeOK
    <3> QED BY <3>1, <3>2
  <2> QED BY <1>19, <2>1, <2>2, ShutPosted
<1> QED
  BY <1>1, <1>2, <1>3, <1>4, <1>6, <1>7, <1>8, <1>9, <1>10, <1>11, <1>12, <1>13, <1>14,
     <1>15, <1>16, <1>17, <1>18, <1>19
  DEF Next, Handler

\* A posted lambda closes the socket, or queues a message and writes it when
\* no other one is being written.
Queues(e, m) ==
    /\ m_qMessagesOut' = [m_qMessagesOut EXCEPT ![e] = Append(@, m)]
    /\ accepted' = [accepted EXCEPT ![e] = Append(@, m)]
    /\ IF m_qMessagesOut[e] = <<>> THEN WriteMsg(e, m) ELSE UNCHANGED writes
    /\ UNCHANGED <<socket, done, readVars>>

LEMMA LambdaRuns ==
    ASSUME TypeOK, NEW e \in Ends, RunPosted(e)
    PROVE  (Shuts(e) /\ UNCHANGED accepted) \/ \E m \in Sendable : Queues(e, m)
<1>1. PICK l \in Lambdas : l = Head(posted[e])
  BY DEF TypeOK, RunPosted
<1>2. CASE l.call = "close"
  BY <1>1, <1>2, CloseShuts DEF RunPosted
<1>3. CASE l.call = "send"
  <2>1. l.msg \in Sendable
    BY <1>3 DEF Lambdas
  <2>2. Queues(e, l.msg)
    BY <1>1, <1>3 DEF RunPosted, Queues
  <2> QED BY <2>1, <2>2
<1> QED BY <1>1, <1>2, <1>3 DEF RunPosted

LEMMA BornInit == Init => Born
BY DEF Init, Born, Ends

LEMMA BornShut ==
    ASSUME TypeOK, Born, NEW e \in Ends, Shuts(e), UNCHANGED <<kind, accepted>>,
           posted' = posted \/ posted' = [posted EXCEPT ![e] = Tail(@)]
               \/ posted' = [posted EXCEPT ![e] = <<>>],
           socket[e] = "unborn" /\ posted[e] = <<>> => posted'[e] = <<>>
    PROVE  Born'
<1>1. /\ socket'[e] = "closed" /\ \A d \in Ends : d # e => socket'[d] = socket[d]
      /\ \A d \in Ends : d # e => /\ wire'[d] = wire[d] /\ writes'[d] = writes[d]
                                  /\ done'[d] = done[d] /\ reading'[d] = reading[d]
      /\ \A d \in Ends : wire[d] = <<>> => wire'[d] = <<>>
      /\ \A d \in Ends : reading'[d] \in {reading[d], "none"}
      /\ UNCHANGED <<m_qMessagesOut, m_msgTemporaryIn, validated>>
  BY DEF TypeOK, Shuts, Taken
<1>2. Frames' = Frames
  BY KindKept
<1>3. \A d \in Ends : d # e => posted'[d] = posted[d]
  BY DEF TypeOK
<1> QED BY <1>1, <1>2, <1>3 DEF Born, Ends

LEMMA BornStep == TypeOK /\ Born /\ WritersOK /\ [Next]_vars => Born'
<1> SUFFICES ASSUME TypeOK, Born, WritersOK, [Next]_vars PROVE Born'
  OBVIOUS
<1> USE DEF userVars, writeVars, readVars
<1>1. CASE UNCHANGED vars
  BY <1>1, KindKept DEF Born, vars
<1>2. ASSUME NEW e \in Ends, Aborted(e) \/ PeerClosed(e) \/ ConnectionLost(e), UNCHANGED kind
      PROVE  Born'
  <2>1. Shuts(e) /\ UNCHANGED <<posted, accepted>>
    BY <1>2, FailureShuts
  <2> QED BY <1>2, <2>1, BornShut
<1>3. ASSUME NEW e \in Ends, Transfer(e), UNCHANGED kind PROVE Born'
  <2>0. writes[e] # <<>> /\ HandOver(e) /\ UNCHANGED <<socket, reading, m_qMessagesOut,
                m_msgTemporaryIn, validated, posted, accepted>>
    BY <1>3 DEF Transfer
  <2>1. /\ e = "server" => socket[e] # "unborn"
        /\ \A d \in Ends : d # e => writes'[d] = writes[d] /\ done'[d] = done[d]
        /\ \A d \in Ends : d # Peer(e) => wire'[d] = wire[d]
    BY <2>0 DEF HandOver, TypeOK, Born
  <2> QED BY <1>3, <2>0, <2>1, KindKept DEF Born, Ends, Peer
<1>4. ASSUME NEW e \in Ends, NEW names, Finished(e, names),
             \A d \in Ends : d # e => /\ writes'[d] = writes[d]
                                      /\ m_qMessagesOut'[d] = m_qMessagesOut[d],
             UNCHANGED kind,
             \/ UNCHANGED reading
             \/ ReadOn(e, "notify", FALSE)
      PROVE  Born'
  <2>1. /\ done[e] # <<>> /\ UNCHANGED <<socket, wire, m_msgTemporaryIn, validated,
                                         posted, accepted>>
        /\ \A d \in Ends : d # e => done'[d] = done[d]
    BY <1>4 DEF Finished, TypeOK
  <2>2. e = "server" => socket[e] # "unborn"
    BY <2>1 DEF Born
  <2>3. \A d \in Ends :
            \/ reading'[d] = reading[d]
            \/ d = e /\ (socket[d] = "open" \/ reading'[d] = "none") /\ reading'[d] # "body"
    BY <1>4 DEF ReadOn, TypeOK
  <2> QED BY <1>4, <2>1, <2>2, <2>3, KindKept DEF Born, Ends
<1>5. ASSUME NEW e \in Ends, ValidationWritten(e), UNCHANGED kind PROVE Born'
  BY <1>4, <1>5 DEF ValidationWritten
<1>6. ASSUME NEW e \in Ends, HeaderWritten(e) \/ BodyWritten(e) \/ RawWritten(e), UNCHANGED kind
      PROVE  Born'
  <2>1. PICK names : Finished(e, names) /\ UNCHANGED reading
    BY <1>6 DEF HeaderWritten, BodyWritten, RawWritten
  <2>2. \A d \in Ends : d # e => writes'[d] = writes[d] /\ m_qMessagesOut'[d] = m_qMessagesOut[d]
    BY <1>6, OthersWrite
  <2> QED BY <1>4, <1>6, <2>1, <2>2
<1>7. ASSUME NEW e \in Ends, ReadHeader(e), UNCHANGED kind PROVE Born'
  <2>1. PICK m \in Msgs, in \in Frames : HeaderMakes(e, m, in)
    BY <1>7, HeaderRead
  <2>2. /\ reading[e] # "none" /\ wire[e] # <<>>
        /\ \A d \in Ends : d # e => wire'[d] = wire[d]
                                    /\ m_msgTemporaryIn'[d] = m_msgTemporaryIn[d]
        /\ m_msgTemporaryIn'[e] = in
        /\ UNCHANGED <<socket, writeVars, validated, userVars>>
    BY <1>7, <2>1 DEF ReadHeader, Arrives, Taken, TypeOK, HeaderMakes
  <2>3. \A d \in Ends : d # e => reading'[d] = reading[d]
    BY <2>1, ReadingOn DEF HeaderMakes, AddToIncomingMessageQueue
  <2>4. socket[e] \notin {"unborn", "connecting"}
    BY <2>2 DEF Born
  <2> QED BY <1>7, <2>2, <2>3, <2>4, KindKept DEF Born, Ends
<1>8. ASSUME NEW e \in Ends, ReadBody(e), UNCHANGED kind PROVE Born'
  <2>1. PICK part \in Parts, in \in Frames : PartMakes(e, part, in)
    BY <1>8, PartRead
  <2>2. /\ socket[e] = "open" /\ wire[e] # <<>>
        /\ \A d \in Ends : d # e => wire'[d] = wire[d]
                                    /\ m_msgTemporaryIn'[d] = m_msgTemporaryIn[d]
        /\ m_msgTemporaryIn'[e] = in
        /\ UNCHANGED <<socket, reading, writeVars, validated, userVars>>
    BY <1>8, <2>1 DEF ReadBody, Arrives, Taken, TypeOK, PartMakes
  <2> QED BY <1>8, <2>2, KindKept DEF Born, Ends
<1>9. ASSUME NEW e \in Ends, BodyRead(e), UNCHANGED kind PROVE Born'
  <2>1. /\ reading[e] # "none" /\ (\E m : AddToIncomingMessageQueue(e, m))
        /\ UNCHANGED <<socket, wire, writeVars, m_msgTemporaryIn, validated, userVars>>
    BY <1>9 DEF BodyRead
  <2>2. (\A d \in Ends : d # e => reading'[d] = reading[d]) /\ reading'[e] # "body"
    BY <2>1, ReadingNext
  <2>3. socket[e] \notin {"unborn", "connecting"}
    BY <2>1 DEF Born
  <2> QED BY <1>9, <2>1, <2>2, <2>3, KindKept DEF Born, Ends
<1>10. ASSUME NEW e \in Ends, ReadRaw(e), UNCHANGED kind PROVE Born'
  <2>1. /\ reading[e] # "none" /\ wire[e] # <<>>
        /\ \A d \in Ends : d # e => wire'[d] = wire[d]
                                    /\ m_msgTemporaryIn'[d] = m_msgTemporaryIn[d]
        /\ \E m : AddToIncomingMessageQueue(e, m)
        /\ UNCHANGED <<socket, writeVars, validated, userVars>>
    BY <1>10 DEF ReadRaw, Arrives, TypeOK
  <2>2. (\A d \in Ends : d # e => reading'[d] = reading[d]) /\ reading'[e] # "body"
    BY <2>1, ReadingNext
  <2>3. socket[e] \notin {"unborn", "connecting"}
    BY <2>1 DEF Born
  <2> QED BY <1>10, <2>1, <2>2, <2>3, KindKept DEF Born, Ends
<1>11. ASSUME NEW e \in Ends, RunPosted(e), UNCHANGED kind PROVE Born'
  <2>1. posted[e] # <<>> /\ posted' = [posted EXCEPT ![e] = Tail(@)] /\ socket[e] # "unborn"
    BY <1>11 DEF RunPosted, Born, Ends
  <2>2. CASE Shuts(e) /\ UNCHANGED accepted
    BY <1>11, <2>1, <2>2, BornShut
  <2>3. ASSUME NEW m \in Sendable, Queues(e, m) PROVE Born'
    <3>1. /\ UNCHANGED <<socket, done, readVars>>
          /\ \A d \in Ends : d # e => writes'[d] = writes[d] /\ accepted'[d] = accepted[d]
                 /\ m_qMessagesOut'[d] = m_qMessagesOut[d] /\ posted'[d] = posted[d]
      BY <2>1, <2>3 DEF Queues, WriteMsg, WriteHeader, WriteRaw, Start, TypeOK
    <3> QED BY <1>11, <2>1, <3>1, KindKept DEF Born, Ends
  <2> QED BY <1>11, <2>2, <2>3, LambdaRuns
<1>12. ASSUME ConnectToClient, UNCHANGED kind PROVE Born'
  <2>1. CASE CloseSocket("server") /\ UNCHANGED userVars
    BY <1>12, <2>1, CloseShuts, BornShut DEF Ends
  <2>2. CASE ~CloseSocket("server")
    <3>1. /\ socket' = [socket EXCEPT !["server"] = "open"]
          /\ UNCHANGED <<done, m_msgTemporaryIn>> /\ reading'["client"] = reading["client"]
          /\ reading'["server"] \in {"response", "raw"}
      BY <1>12, <2>2 DEF ConnectToClient, RawBegins, TypeOK, Ends
    <3> QED BY <1>12, <3>1, KindKept DEF Born, Ends, TypeOK
  <2> QED BY <1>12, <2>1, <2>2 DEF ConnectToClient
<1>13. ASSUME ConnectToServer, UNCHANGED kind PROVE Born'
  <2>1. CASE CloseSocket("client") /\ UNCHANGED userVars
    BY <1>13, <2>1, CloseShuts, BornShut DEF Ends
  <2>2. CASE ~CloseSocket("client")
    <3>1. /\ socket' = [socket EXCEPT !["client"] = "open"]
          /\ UNCHANGED <<wire, writeVars, m_msgTemporaryIn, userVars>>
          /\ reading'["server"] = reading["server"]
          /\ validated'["server"] = validated["server"]
          /\ reading'["client"] \in {"challenge", "raw"}
      BY <1>13, <2>2 DEF ConnectToServer, RawBegins, TypeOK, Ends
    <3> QED BY <1>13, <3>1, KindKept DEF Born, Ends, TypeOK
  <2> QED BY <1>13, <2>1, <2>2 DEF ConnectToServer
<1>14. ASSUME ReadChallenge, UNCHANGED kind PROVE Born'
  <2>1. /\ reading["client"] # "none" /\ wire["client"] # <<>>
        /\ wire'["server"] = wire["server"] /\ reading'["server"] = reading["server"]
        /\ writes'["server"] = writes["server"] /\ reading'["client"] = "none"
        /\ UNCHANGED <<socket, done, m_qMessagesOut, m_msgTemporaryIn, validated, userVars>>
    BY <1>14 DEF ReadChallenge, Arrives, Taken, Start, TypeOK, Ends
  <2> QED BY <1>14, <2>1, KindKept DEF Born, Ends
<1>15. ASSUME ReadResponse, UNCHANGED kind PROVE Born'
  <2>1. CASE Shuts("server") /\ UNCHANGED userVars
    BY <1>15, <2>1, BornShut DEF Ends
  <2>2. CASE Validates
    <3>1. /\ reading["server"] # "none" /\ ReadOn("server", "header", FALSE)
          /\ UNCHANGED <<socket, done, m_msgTemporaryIn>>
      BY <2>2 DEF Validates, Arrives
    <3>2. reading'["client"] = reading["client"] /\ reading'["server"] \in {"header", "none"}
      BY <3>1, ReadingOn DEF Ends
    <3>3. socket["server"] \notin {"unborn", "connecting"}
      BY <3>1 DEF Born, Ends
    <3> QED BY <1>15, <3>1, <3>2, <3>3, KindKept DEF Born, Ends
  <2> QED BY <1>15, <2>1, <2>2, Response
<1>16. ASSUME WaitForValidation, UNCHANGED kind PROVE Born'
  <2>1. /\ reading["client"] # "none" /\ wire["client"] # <<>>
        /\ validated'["server"] = validated["server"]
        /\ UNCHANGED <<socket, writeVars, m_msgTemporaryIn, userVars>>
        /\ wire'["server"] = wire["server"]
    BY <1>16 DEF WaitForValidation, Arrives, Taken, TypeOK, Ends
  <2>2. reading'["server"] = reading["server"] /\ reading'["client"] \in {"header", "none"}
    <3>1. CASE ReadOn("client", "header", FALSE)
      BY <3>1, ReadingOn DEF Ends
    <3>2. CASE reading' = [reading EXCEPT !["client"] = "none"]
      BY <3>2 DEF TypeOK, Ends
    <3> QED BY <1>16, <3>1, <3>2 DEF WaitForValidation
  <2>3. socket["client"] \notin {"unborn", "connecting"}
    BY <2>1 DEF Born, Ends
  <2> QED BY <1>16, <2>1, <2>2, <2>3, KindKept DEF Born, Ends
<1>17. ASSUME NEW e \in Ends, User(e), UNCHANGED kind PROVE Born'
  <2>1. /\ socket[e] # "unborn"
        /\ \A d \in Ends : d # e => posted'[d] = posted[d]
        /\ UNCHANGED <<socket, readVars, writeVars, accepted>>
    BY <1>17 DEF User, Send, Disconnect, IsConnected, TypeOK
  <2> QED BY <1>17, <2>1, KindKept DEF Born, Ends
<1>18. ASSUME DestroyConnection, UNCHANGED kind PROVE Born'
  <2>1. Shuts("client") /\ accepted' = accepted /\ posted' = [posted EXCEPT !["client"] = <<>>]
    BY <1>18, EndShuts DEF DestroyConnection
  <2>2. posted'["client"] = <<>>
    BY <2>1 DEF TypeOK, Ends
  <2> QED BY <1>18, <2>1, <2>2, BornShut DEF Ends
<1> QED
  BY <1>1, <1>2, <1>3, <1>5, <1>6, <1>7, <1>8, <1>9, <1>10, <1>11, <1>12, <1>13, <1>14,
     <1>15, <1>16, <1>17, <1>18
  DEF Next, Handler

-----------------------------------------------------------------------------
(* One write of a message at a time.                                        *)

LEMMA WriterKept ==
    ASSUME UNCHANGED kind, NEW d \in Ends, WriterOK(d), writes'[d] = writes[d],
           done'[d] = done[d], m_qMessagesOut'[d] = m_qMessagesOut[d],
           IsConnected(d)' => IsConnected(d)
    PROVE  WriterOK(d)'
<1>1. MessagesWriting(d)' = MessagesWriting(d) /\ MessagesDone(d)' = MessagesDone(d)
  BY KindKept DEF MessagesWriting, MessagesDone
<1>2. ASSUME NEW w, NEW m PROVE WritesMessage(w, m)' <=> WritesMessage(w, m)
  BY DEF WritesMessage
<1> QED BY <1>1, <1>2 DEF WriterOK, OneWrite

\* What one end does leaves the writers of the other one alone.
LEMMA WritersKept ==
    ASSUME WritersOK, UNCHANGED kind, NEW e \in Ends,
           \A d \in Ends : d # e => /\ socket'[d] = socket[d] /\ writes'[d] = writes[d]
                                    /\ done'[d] = done[d]
                                    /\ m_qMessagesOut'[d] = m_qMessagesOut[d],
           WriterOK(e)'
    PROVE  WritersOK'
<1>1. ASSUME NEW d \in Ends, d # e PROVE WriterOK(d)'
  <2>1. IsConnected(d)' => IsConnected(d)
    BY <1>1 DEF IsConnected
  <2>2. WriterOK(d)
    BY DEF WritersOK
  <2> QED BY <1>1, <2>1, <2>2, WriterKept
<1> QED BY <1>1 DEF WritersOK

\* Some of the writes may go when the socket closes.
LEMMA WritersShut ==
    ASSUME TypeOK, WritersOK, UNCHANGED kind, NEW e \in Ends, Shuts(e)
    PROVE  WritersOK'
<1>1. ~IsConnected(e)' /\ m_qMessagesOut' = m_qMessagesOut
  BY DEF Shuts, IsConnected, TypeOK
<1>2. \A d \in Ends : d # e => /\ socket'[d] = socket[d] /\ writes'[d] = writes[d]
                               /\ done'[d] = done[d]
                               /\ m_qMessagesOut'[d] = m_qMessagesOut[d]
  BY DEF Shuts, TypeOK
<1>3. writes[e] \in Seq(Ops) /\ WriterOK(e)
  BY DEF TypeOK, WritersOK
<1>4. MessagesWriting(e)' \in {MessagesWriting(e), <<>>}
  <2>0. /\ MessageWrites' = MessageWrites
        /\ \/ writes'[e] = writes[e] \/ writes'[e] = <<>>
           \/ writes[e] # <<>> /\ writes'[e] = Tail(writes[e])
    BY KindKept DEF Shuts, TypeOK
  <2>1. CASE writes'[e] = writes[e]
    BY <2>0, <2>1 DEF MessagesWriting
  <2>2. CASE writes'[e] = <<>>
    BY <2>0, <2>2, PickedEmpty DEF MessagesWriting
  <2>3. CASE writes[e] # <<>> /\ writes'[e] = Tail(writes[e])
    <3>1. /\ Head(writes[e]) \notin MessageWrites =>
                Picked(Tail(writes[e]), MessageWrites) = MessagesWriting(e)
          /\ Head(writes[e]) \in MessageWrites =>
                /\ MessagesWriting(e) # <<>>
                /\ Tail(MessagesWriting(e)) = Picked(Tail(writes[e]), MessageWrites)
      BY <1>3, <2>3, PickedHead DEF MessagesWriting
    <3>2. MessagesWriting(e) # <<>> => Tail(MessagesWriting(e)) = <<>>
      <4>1. PICK T : T = Ops \cap MessageWrites
        OBVIOUS
      <4>2. PICK m \in Seq(T) : m = MessagesWriting(e)
        BY <1>3, <4>1, PickedType DEF MessagesWriting
      <4>3. m # <<>> => Len(m) = 1
        BY <1>3, <4>2 DEF WriterOK, OneWrite
      <4> QED BY <4>2, <4>3, OnlyOne
    <3> QED BY <2>0, <2>3, <3>1, <3>2 DEF MessagesWriting
  <2> QED BY <2>0, <2>1, <2>2, <2>3
<1>5. MessagesDone(e)' \in {MessagesDone(e), <<>>}
  <2>1. done'[e] = done[e] \/ done'[e] = <<>>
    BY DEF Shuts, TypeOK
  <2> QED BY <2>1, PickedEmpty DEF MessagesDone
<1>6. ASSUME NEW w, NEW m PROVE WritesMessage(w, m)' <=> WritesMessage(w, m)
  BY DEF WritesMessage
<1>7. WriterOK(e)'
  BY <1>1, <1>3, <1>4, <1>5, <1>6 DEF WriterOK, OneWrite
<1> QED BY <1>2, <1>7, WritersKept

\* A write of the handshake is no write of a message.
LEMMA StartOther ==
    ASSUME TypeOK, UNCHANGED kind, NEW e \in Ends, NEW name \in OpNames \ MessageOps,
           NEW words \in Seq(Words), Start(e, name, words)
    PROVE  MessagesWriting(e)' = MessagesWriting(e)
<1>1. PICK w \in Ops : w = [op |-> name, words |-> words]
  BY DEF Ops
<1>2. w \notin MessageWrites
  BY <1>1 DEF MessageWrites
<1>3. writes[e] \in Seq(Ops) /\ writes'[e] = Append(writes[e], w)
  BY <1>1 DEF TypeOK, Start
<1> QED BY <1>2, <1>3, PickedAppend, KindKept DEF MessagesWriting

LEMMA StartOne ==
    ASSUME TypeOK, UNCHANGED kind, NEW e \in Ends, NEW name \in OpNames \cap MessageOps,
           NEW words \in Seq(Words), Start(e, name, words), MessagesWriting(e) = <<>>
    PROVE  MessagesWriting(e)' = <<[op |-> name, words |-> words]>>
<1>1. PICK w \in Ops : w = [op |-> name, words |-> words]
  BY DEF Ops
<1>2. w \in MessageWrites
  BY <1>1 DEF MessageWrites
<1>3. writes[e] \in Seq(Ops) /\ writes'[e] = Append(writes[e], w)
  BY <1>1 DEF TypeOK, Start
<1>4. MessagesWriting(e)' = Append(<<>>, w)
  BY <1>2, <1>3, PickedAppend, KindKept, ZenonT(60) DEF MessagesWriting
<1> QED BY <1>1, <1>4

\* The write that WriteMsg begins.
WriteOf(m) == IF kind = "framed" THEN [op |-> "header", words |-> <<HeaderOf(m)>>]
                                 ELSE [op |-> "raw", words |-> BodyOf(m)]

\* WriteMsg, when no message is being written.
LEMMA WriteMsgOne ==
    ASSUME TypeOK, UNCHANGED kind, NEW e \in Ends, NEW m \in Sendable, WriteMsg(e, m),
           MessagesWriting(e) = <<>>
    PROVE  \E w : w = WriteOf(m) /\ MessagesWriting(e)' = <<w>> /\ WritesMessage(w, m)'
<1>0. kind \in {"framed", "raw"}
  BY LimitsAssumption DEF TypeOK
<1>1. CASE kind = "framed"
  <2>1. "header" \in OpNames \cap MessageOps /\ <<HeaderOf(m)>> \in Seq(Words)
    BY <1>1, WordsType DEF OpNames, MessageOps
  <2>2. Start(e, "header", <<HeaderOf(m)>>)
    BY <1>1 DEF WriteMsg, WriteHeader
  <2>3. PICK w \in Ops : w = [op |-> "header", words |-> <<HeaderOf(m)>>]
    BY <2>1 DEF Ops
  <2>4. MessagesWriting(e)' = <<w>>
    BY <2>1, <2>2, <2>3, StartOne
  <2>5. WritesMessage(w, m)'
    BY <1>1, <2>3 DEF WritesMessage
  <2>6. WriteOf(m) = w
    BY <1>1, <2>3 DEF WriteOf
  <2> QED BY <2>4, <2>5, <2>6
<1>2. CASE kind = "raw"
  <2>1. "raw" \in OpNames \cap MessageOps /\ BodyOf(m) \in Seq(Words)
    BY <1>2, WordsType DEF OpNames, MessageOps
  <2>2. Start(e, "raw", BodyOf(m))
    BY <1>2 DEF WriteMsg, WriteRaw
  <2>3. PICK w \in Ops : w = [op |-> "raw", words |-> BodyOf(m)]
    BY <2>1 DEF Ops
  <2>4. MessagesWriting(e)' = <<w>>
    BY <2>1, <2>2, <2>3, StartOne
  <2>5. WritesMessage(w, m)'
    BY <1>2, <2>3 DEF WritesMessage
  <2>6. WriteOf(m) = w
    BY <1>2, <2>3 DEF WriteOf
  <2> QED BY <2>4, <2>5, <2>6
<1> QED BY <1>0, <1>1, <1>2

\* After the last write of a message the next message's begins.
LEMMA NextWritten ==
    ASSUME TypeOK, WritersOK, UNCHANGED kind, NEW e \in Ends, NEW names,
           names \subseteq MessageOps, Finished(e, names), WriteNext(e),
           NEW rest, rest = Tail(m_qMessagesOut[e])
    PROVE  /\ m_qMessagesOut[e] # <<>> /\ Head(m_qMessagesOut[e]) \in Sendable
           /\ rest \in Seq(Sendable) /\ m_qMessagesOut'[e] = rest
           /\ MessagesWriting(e) = <<>> /\ MessagesDone(e) = <<Head(done[e])>>
           /\ MessagesDone(e)' = <<>>
           /\ rest = <<>> => MessagesWriting(e)' = <<>>
           /\ rest # <<>> => \E w : /\ w = WriteOf(Head(rest)) /\ MessagesWriting(e)' = <<w>>
                                    /\ WritesMessage(w, Head(rest))'
<1>1. /\ MessagesWriting(e) = <<>> /\ Picked(Tail(done[e]), MessageOps) = <<>>
      /\ rest \in Seq(Sendable) /\ m_qMessagesOut[e] # <<>>
      /\ Head(m_qMessagesOut[e]) \in Sendable /\ MessagesDone(e) = <<Head(done[e])>>
  BY FinishedFirst
<1>2. MessagesDone(e)' = <<>>
  <2>1. done'[e] = Tail(done[e])
    BY DEF TypeOK, Finished
  <2> QED BY <1>1, <2>1 DEF MessagesDone
<1>3. m_qMessagesOut'[e] = rest
  BY DEF TypeOK, WriteNext
<1>4. ASSUME rest = <<>> PROVE MessagesWriting(e)' = <<>>
  <2>1. writes' = writes
    BY <1>4 DEF WriteNext
  <2> QED BY <1>1, <2>1, KindKept DEF MessagesWriting
<1>5. ASSUME rest # <<>>
      PROVE  \E w : /\ w = WriteOf(Head(rest)) /\ MessagesWriting(e)' = <<w>>
                   /\ WritesMessage(w, Head(rest))'
  <2>1. PICK m \in Sendable : m = Head(rest) /\ WriteMsg(e, m)
    BY <1>1, <1>5 DEF WriteNext
  <2> QED BY <1>1, <2>1, WriteMsgOne
<1> QED BY <1>1, <1>2, <1>3, <1>4, <1>5

LEMMA WriteNextOne ==
    ASSUME TypeOK, WritersOK, UNCHANGED kind, NEW e \in Ends, NEW names,
           names \subseteq MessageOps, Finished(e, names), WriteNext(e)
    PROVE  WriterOK(e)'
<1>1. PICK rest : rest = Tail(m_qMessagesOut[e])
  OBVIOUS
<1>2. /\ m_qMessagesOut'[e] = rest /\ MessagesDone(e)' = <<>>
      /\ rest = <<>> => MessagesWriting(e)' = <<>>
      /\ rest # <<>> => \E w : MessagesWriting(e)' = <<w>> /\ WritesMessage(w, Head(rest))'
  BY <1>1, NextWritten
<1>3. ASSUME NEW w PROVE Len(<<w>>) = 1 /\ Head(<<w>>) = w
  OBVIOUS
<1>4. CASE rest = <<>>
  BY <1>2, <1>4 DEF WriterOK, OneWrite
<1>5. CASE rest # <<>>
  <2>1. PICK w : MessagesWriting(e)' = <<w>> /\ WritesMessage(w, Head(rest))'
    BY <1>2, <1>5
  <2> QED BY <1>2, <1>3, <1>5, <2>1 DEF WriterOK, OneWrite
<1> QED BY <1>4, <1>5

\* After the header of a message with a body the body's write begins.
LEMMA BodyBegins ==
    ASSUME TypeOK, WritersOK, UNCHANGED kind, NEW e \in Ends, Finished(e, {"header"}),
           Head(m_qMessagesOut[e]).body # <<>>, WriteBody(e), UNCHANGED m_qMessagesOut
    PROVE  /\ m_qMessagesOut[e] # <<>> /\ kind = "framed"
           /\ MessagesWriting(e) = <<>> /\ MessagesDone(e) = <<"header">>
           /\ MessagesDone(e)' = <<>>
           /\ MessagesWriting(e)' = <<[op |-> "body", words |-> BodyOf(Head(m_qMessagesOut[e]))]>>
           /\ BodyOf(Head(m_qMessagesOut[e])) \in Seq(BodyWords) \ {<<>>}
<1>1. /\ MessagesWriting(e) = <<>> /\ Picked(Tail(done[e]), MessageOps) = <<>>
      /\ m_qMessagesOut[e] # <<>> /\ Head(m_qMessagesOut[e]) \in Sendable
      /\ MessagesDone(e) = <<Head(done[e])>> /\ Head(done[e]) \in OpNames
  <2>1. {"header"} \subseteq MessageOps
    BY DEF MessageOps
  <2> QED BY <2>1, FinishedFirst
<1>2. MessagesDone(e)' = <<>>
  <2>1. done'[e] = Tail(done[e])
    BY DEF TypeOK, Finished
  <2> QED BY <1>1, <2>1 DEF MessagesDone
<1>3. kind = "framed" /\ Head(done[e]) = "header"
  <2>1. Head(done[e]) = "header" /\ kind \in {"framed", "raw"}
    BY LimitsAssumption DEF Finished, TypeOK
  <2> QED BY <1>1, <2>1 DEF OpNames
<1>4. PICK m \in Sendable : m = Head(m_qMessagesOut[e])
  BY <1>1
<1>5. BodyOf(m) \in Seq(BodyWords) /\ BodyOf(m) \in Seq(Words) /\ Len(BodyOf(m)) = Len(m.body)
      /\ m.body \in Seq(Parts) /\ m.body # <<>>
  BY <1>4, WordsType
<1>6. BodyOf(m) # <<>>
  BY <1>5, EmptySeq
<1>7. MessagesWriting(e)' = <<[op |-> "body", words |-> BodyOf(m)]>>
  <2>1. Start(e, "body", BodyOf(m)) /\ "body" \in OpNames \cap MessageOps
    BY <1>3, <1>4 DEF WriteBody, OpNames, MessageOps
  <2> QED BY <1>1, <1>5, <2>1, StartOne
<1> QED BY <1>1, <1>2, <1>3, <1>4, <1>5, <1>6, <1>7

\* One step of a write: x goes to the stream, y is left.
Moves(e, w, x, y) ==
    /\ writes[e] \in Seq(Ops) /\ writes[e] # <<>> /\ w = Head(writes[e])
    /\ w.op \in OpNames /\ w.words = x \o y
    /\ IF w.words = <<>> THEN x = <<>> /\ y = <<>> ELSE Len(x) = 1
    /\ wire' = [wire EXCEPT ![Peer(e)] = @ \o x]
    /\ \/ /\ y # <<>>
          /\ writes' = [writes EXCEPT ![e] = Append(Tail(@), [op |-> w.op, words |-> y])]
          /\ done' = done
       \/ /\ y = <<>>
          /\ writes' = [writes EXCEPT ![e] = Tail(@)]
          /\ done' = [done EXCEPT ![e] = Append(@, w.op)]

LEMMA TransferMoves ==
    ASSUME TypeOK, NEW e \in Ends, Transfer(e)
    PROVE  \E w \in Ops, x \in Seq(Words), y \in Seq(Words) : Moves(e, w, x, y)
<1>1. PICK w : w = Head(writes[e])
  OBVIOUS
<1>2. w \in Ops /\ w.op \in OpNames /\ w.words \in Seq(Words)
      /\ writes[e] \in Seq(Ops) /\ writes[e] # <<>>
  <2>1. writes[e] \in Seq(Ops) /\ writes[e] # <<>>
    BY DEF TypeOK, Transfer
  <2>2. Head(writes[e]) \in Ops
    BY <2>1
  <2> QED BY <1>1, <2>1, <2>2 DEF Ops
<1>3. PICK n \in Nat : n = (IF w.words = <<>> THEN 0 ELSE 1) /\ n <= Len(w.words)
  <2>1. w.words # <<>> => 1 <= Len(w.words)
    BY <1>2
  <2>2. Len(w.words) \in Nat
    BY <1>2
  <2> QED BY <2>1, <2>2
<1>4. PICK x \in Seq(Words), y \in Seq(Words) :
          /\ x = SubSeq(w.words, 1, n) /\ y = SubSeq(w.words, n + 1, Len(w.words))
          /\ w.words = x \o y /\ Len(x) = n
  <2>1. PICK words \in Seq(Words) : words = w.words
    BY <1>2
  <2>2. n \in 0..Len(words)
    BY <1>3, <2>1
  <2>3. /\ SubSeq(words, 1, n) \in Seq(Words) /\ Len(SubSeq(words, 1, n)) = n
        /\ SubSeq(words, n + 1, Len(words)) \in Seq(Words)
        /\ words = SubSeq(words, 1, n) \o SubSeq(words, n + 1, Len(words))
    <3>1. PICK S : S = Words
      OBVIOUS
    <3> QED BY <2>2, <3>1, Joined
  <2> QED BY <2>1, <2>3
<1>5. IF w.words = <<>> THEN x = <<>> /\ y = <<>> ELSE Len(x) = 1
  <2>1. CASE w.words = <<>>
    <3>0. x \o y = <<>>
      BY <1>4, <2>1, Zenon
    <3>1. Len(x \o y) = 0
      BY <3>0
    <3>2. Len(x) + Len(y) = 0 /\ Len(x) \in Nat /\ Len(y) \in Nat
      BY <3>1, Elements
    <3> QED BY <2>1, <3>2, EmptySeq
  <2> QED BY <1>3, <1>4, <2>1
<1>6. /\ wire' = [wire EXCEPT ![Peer(e)] = @ \o x]
      /\ \/ /\ y # <<>>
            /\ writes' = [writes EXCEPT ![e] = Append(Tail(@), [op |-> w.op, words |-> y])]
            /\ done' = done
         \/ /\ y = <<>>
            /\ writes' = [writes EXCEPT ![e] = Tail(@)]
            /\ done' = [done EXCEPT ![e] = Append(@, w.op)]
  <2>0. HandOver(e)
    BY DEF Transfer
  <2>1. wire' = [wire EXCEPT ![Peer(e)] = @ \o x]
    BY <1>1, <1>3, <1>4, <2>0 DEF HandOver
  <2>2. \/ /\ y # <<>>
           /\ writes' = [writes EXCEPT ![e] = Append(Tail(@), [op |-> w.op, words |-> y])]
           /\ done' = done
        \/ /\ y = <<>>
           /\ writes' = [writes EXCEPT ![e] = Tail(@)]
           /\ done' = [done EXCEPT ![e] = Append(@, w.op)]
    BY <1>1, <1>3, <1>4, <2>0 DEF HandOver
  <2> QED BY <2>1, <2>2
<1>7. Moves(e, w, x, y)
  BY <1>1, <1>2, <1>4, <1>5, <1>6 DEF Moves
<1> QED BY <1>2, <1>4, <1>7

\* What is left of the write of a message writes that message.
LEMMA RestWrites ==
    ASSUME NEW w, NEW m, WritesMessage(w, m), NEW x \in Seq(Words), NEW y \in Seq(Words),
           w.words = x \o y, Len(x) = 1, y # <<>>
    PROVE  WritesMessage([op |-> w.op, words |-> y], m)
<1>1. CASE kind = "framed" /\ w.op = "header" /\ w.words = <<HeaderOf(m)>>
  <2>1. Len(x \o y) = 1
    BY <1>1
  <2>2. Len(x \o y) = Len(x) + Len(y)
    BY Elements
  <2>3. Len(y) \in Nat /\ Len(y) # 0
    BY EmptySeq
  <2> QED BY <2>1, <2>2, <2>3
<1>2. CASE kind = "framed" /\ w.op = "body" /\ w.words \in Seq(BodyWords) \ {<<>>}
  <2>1. x \o y \in Seq(BodyWords)
    BY <1>2
  <2>2. y \in Seq(BodyWords)
    BY <2>1, SecondPart
  <2> QED BY <1>2, <2>2 DEF WritesMessage
<1>3. CASE kind = "raw" /\ w.op = "raw"
  BY <1>3 DEF WritesMessage
<1> QED BY <1>1, <1>2, <1>3 DEF WritesMessage

\* What a step of a write does to the writes of messages.
LEMMA MessageMoves ==
    ASSUME TypeOK, WritersOK, UNCHANGED kind, NEW e \in Ends,
           NEW w \in Ops, NEW x \in Seq(Words), NEW y \in Seq(Words), Moves(e, w, x, y)
    PROVE  /\ w.op \in MessageOps =>
                  /\ m_qMessagesOut[e] # <<>> /\ WritesMessage(w, Head(m_qMessagesOut[e]))
                  /\ MessagesWriting(e) = <<w>> /\ MessagesDone(e) = <<>>
                  /\ \/ /\ y # <<>> /\ MessagesDone(e)' = <<>>
                        /\ MessagesWriting(e)' = <<[op |-> w.op, words |-> y]>>
                     \/ y = <<>> /\ MessagesWriting(e)' = <<>> /\ MessagesDone(e)' = <<w.op>>
           /\ w.op \notin MessageOps =>
                  /\ MessagesWriting(e)' = MessagesWriting(e)
                  /\ MessagesDone(e)' = MessagesDone(e)
<1>1. /\ writes[e] \in Seq(Ops) /\ writes[e] # <<>> /\ w = Head(writes[e])
      /\ done[e] \in Seq(OpNames) /\ w.op \in OpNames /\ WriterOK(e)
  BY DEF Moves, TypeOK, WritersOK
<1>2. PICK r \in Seq(Ops) : r = Tail(writes[e])
  <2>1. PICK s \in Seq(Ops) : s = writes[e] /\ s # <<>>
    BY <1>1
  <2>2. Tail(s) \in Seq(Ops)
    BY <2>1
  <2> QED BY <2>1, <2>2
<1>3. PICK z \in Ops : z = [op |-> w.op, words |-> y]
  BY <1>1 DEF Ops
<1>4. /\ w \in MessageWrites <=> w.op \in MessageOps
      /\ z \in MessageWrites <=> w.op \in MessageOps
  BY <1>3 DEF MessageWrites, Ops
<1>5. \/ y # <<>> /\ writes'[e] = Append(r, z) /\ done'[e] = done[e]
      \/ y = <<>> /\ writes'[e] = r /\ done'[e] = Append(done[e], w.op)
  BY <1>1, <1>2, <1>3 DEF Moves, TypeOK
<1>6. MessageWrites' = MessageWrites
  BY KindKept
<1>7. CASE w.op \in MessageOps
  <2>1. /\ MessagesWriting(e) # <<>> /\ Head(MessagesWriting(e)) = w
        /\ Tail(MessagesWriting(e)) = Picked(r, MessageWrites)
    BY <1>1, <1>2, <1>4, <1>7, PickedHead DEF MessagesWriting
  <2>2. /\ m_qMessagesOut[e] # <<>> /\ MessagesDone(e) = <<>> /\ Len(MessagesWriting(e)) = 1
        /\ WritesMessage(w, Head(m_qMessagesOut[e]))
    BY <1>1, <2>1 DEF WriterOK, OneWrite
  <2>3. Picked(r, MessageWrites) = <<>> /\ MessagesWriting(e) = <<w>>
    <3>1. PICK T : T = Ops \cap MessageWrites
      OBVIOUS
    <3>2. PICK m \in Seq(T) : m = MessagesWriting(e)
      BY <1>1, <3>1, PickedType DEF MessagesWriting
    <3>3. Tail(m) = <<>> /\ m = <<Head(m)>>
      BY <2>2, <3>2, OnlyOne
    <3> QED BY <2>1, <3>2, <3>3
  <2>4. CASE y # <<>> /\ writes'[e] = Append(r, z) /\ done'[e] = done[e]
    <3>1. MessagesWriting(e)' = <<z>>
      <4>1. Picked(Append(r, z), MessageWrites) = Append(<<>>, z)
        BY <1>4, <1>7, <2>3, PickedAppend
      <4>2. Append(<<>>, z) = <<z>>
        OBVIOUS
      <4> QED BY <1>6, <2>4, <4>1, <4>2 DEF MessagesWriting
    <3>2. MessagesDone(e)' = <<>>
      BY <2>2, <2>4 DEF MessagesDone
    <3> QED BY <1>3, <1>7, <2>2, <2>3, <2>4, <3>1, <3>2
  <2>5. CASE y = <<>> /\ writes'[e] = r /\ done'[e] = Append(done[e], w.op)
    <3>1. MessagesWriting(e)' = <<>>
      BY <1>6, <2>3, <2>5 DEF MessagesWriting
    <3>2. MessagesDone(e)' = <<w.op>>
      <4>1. Picked(Append(done[e], w.op), MessageOps) = Append(<<>>, w.op)
        BY <1>1, <1>7, <2>2, PickedAppend, ZenonT(60) DEF MessagesDone
      <4>2. Append(<<>>, w.op) = <<w.op>>
        OBVIOUS
      <4> QED BY <2>5, <4>1, <4>2 DEF MessagesDone
    <3> QED BY <1>7, <2>2, <2>3, <2>5, <3>1, <3>2
  <2> QED BY <1>5, <2>4, <2>5
<1>8. CASE w.op \notin MessageOps
  <2>1. MessagesWriting(e)' = MessagesWriting(e)
    <3>1. MessagesWriting(e) = Picked(r, MessageWrites)
      BY <1>1, <1>2, <1>4, <1>8, PickedHead DEF MessagesWriting
    <3>2. Picked(Append(r, z), MessageWrites) = Picked(r, MessageWrites)
      BY <1>4, <1>8, PickedAppend
    <3> QED BY <1>5, <1>6, <3>1, <3>2 DEF MessagesWriting
  <2>2. MessagesDone(e)' = MessagesDone(e)
    <3>1. Picked(Append(done[e], w.op), MessageOps) = Picked(done[e], MessageOps)
      BY <1>1, <1>8, PickedAppend
    <3> QED BY <1>5, <3>1 DEF MessagesDone
  <2> QED BY <1>8, <2>1, <2>2
<1> QED BY <1>7, <1>8

LEMMA TransferWriter ==
    ASSUME TypeOK, WritersOK, UNCHANGED kind, NEW e \in Ends, Transfer(e)
    PROVE  WriterOK(e)'
<1>1. PICK w \in Ops, x \in Seq(Words), y \in Seq(Words) : Moves(e, w, x, y)
  BY TransferMoves
<1>2. m_qMessagesOut'[e] = m_qMessagesOut[e] /\ IsConnected(e)' = IsConnected(e) /\ WriterOK(e)
  BY DEF Transfer, IsConnected, WritersOK
<1>3. ASSUME NEW v, NEW m PROVE WritesMessage(v, m)' <=> WritesMessage(v, m)
  BY DEF WritesMessage
<1>4. CASE w.op \in MessageOps
  <2>1. /\ m_qMessagesOut[e] # <<>> /\ WritesMessage(w, Head(m_qMessagesOut[e]))
        /\ \/ /\ y # <<>> /\ MessagesDone(e)' = <<>>
              /\ MessagesWriting(e)' = <<[op |-> w.op, words |-> y]>>
           \/ y = <<>> /\ MessagesWriting(e)' = <<>> /\ MessagesDone(e)' = <<w.op>>
    BY <1>1, <1>2, <1>4, MessageMoves
  <2>2. CASE y # <<>> /\ MessagesDone(e)' = <<>>
             /\ MessagesWriting(e)' = <<[op |-> w.op, words |-> y]>>
    <3>1. PICK z : z = [op |-> w.op, words |-> y]
      OBVIOUS
    <3>2. WritesMessage(z, Head(m_qMessagesOut[e]))
      <4>1. w.words = x \o y /\ Len(x) = 1
        <5>1. w.words # <<>>
          BY <1>1, <2>2 DEF Moves
        <5> QED BY <1>1, <5>1 DEF Moves
      <4> QED BY <2>1, <2>2, <3>1, <4>1, RestWrites
    <3>3. Len(<<z>>) = 1 /\ Head(<<z>>) = z
      OBVIOUS
    <3> QED BY <1>2, <1>3, <2>1, <2>2, <3>1, <3>2, <3>3 DEF WriterOK, OneWrite
  <2>3. CASE MessagesWriting(e)' = <<>> /\ MessagesDone(e)' = <<w.op>>
    <3>1. Len(<<w.op>>) = 1
      OBVIOUS
    <3> QED BY <1>2, <2>1, <2>3, <3>1 DEF WriterOK, OneWrite
  <2> QED BY <2>1, <2>2, <2>3
<1>5. CASE w.op \notin MessageOps
  <2>1. MessagesWriting(e)' = MessagesWriting(e) /\ MessagesDone(e)' = MessagesDone(e)
    BY <1>1, <1>2, <1>5, MessageMoves
  <2> QED BY <1>2, <1>3, <2>1 DEF WriterOK, OneWrite
<1> QED BY <1>4, <1>5

LEMMA WritersInit == Init => WritersOK
<1> SUFFICES ASSUME Init, NEW e \in Ends PROVE WriterOK(e)
  BY DEF WritersOK
<1>1. MessagesWriting(e) = <<>> /\ MessagesDone(e) = <<>> /\ m_qMessagesOut[e] = <<>>
  BY PickedEmpty DEF Init, MessagesWriting, MessagesDone
<1> QED BY <1>1 DEF WriterOK, OneWrite

LEMMA WritersStep == TypeOK /\ Born /\ WritersOK /\ [Next]_vars => WritersOK'
<1> SUFFICES ASSUME TypeOK, Born, WritersOK, [Next]_vars PROVE WritersOK'
  OBVIOUS
<1> USE DEF userVars, writeVars, readVars
<1>0. kind \in {"framed", "raw"}
  BY LimitsAssumption DEF TypeOK
<1>1. ASSUME UNCHANGED <<kind, socket, writes, done, m_qMessagesOut>> PROVE WritersOK'
  <2>1. ASSUME NEW e \in Ends PROVE WriterOK(e)'
    <3>1. WriterOK(e) /\ (IsConnected(e)' => IsConnected(e))
      BY <1>1 DEF WritersOK, IsConnected
    <3> QED BY <1>1, <3>1, WriterKept
  <2> QED BY <2>1 DEF WritersOK
<1>2. ASSUME UNCHANGED vars PROVE WritersOK'
  BY <1>1, <1>2 DEF vars
<1>3. ASSUME NEW e \in Ends, UNCHANGED kind,
             \/ Aborted(e) \/ PeerClosed(e) \/ ConnectionLost(e)
             \/ CloseSocket(e)
      PROVE  WritersOK'
  BY <1>3, WritersShut, FailureShuts, CloseShuts
<1>4. ASSUME NEW e \in Ends, Transfer(e), UNCHANGED kind PROVE WritersOK'
  <2>1. \A d \in Ends : d # e => /\ socket'[d] = socket[d] /\ writes'[d] = writes[d]
                                 /\ done'[d] = done[d]
                                 /\ m_qMessagesOut'[d] = m_qMessagesOut[d]
    BY <1>4 DEF Transfer, HandOver, TypeOK
  <2> QED BY <1>4, <2>1, TransferWriter, WritersKept
<1>5. ASSUME NEW e \in Ends, ValidationWritten(e), UNCHANGED kind PROVE WritersOK'
  <2>1. /\ UNCHANGED <<socket, writes, m_qMessagesOut>> /\ IsConnected(e)' = IsConnected(e)
        /\ done[e] \in Seq(OpNames) /\ done[e] # <<>> /\ Head(done[e]) \notin MessageOps
        /\ done' = [done EXCEPT ![e] = Tail(@)]
    BY <1>5 DEF ValidationWritten, Finished, TypeOK, MessageOps, IsConnected
  <2>2. MessagesDone(e)' = MessagesDone(e) /\ MessagesWriting(e)' = MessagesWriting(e)
    <3>1. Picked(done[e], MessageOps) = Picked(Tail(done[e]), MessageOps)
      BY <2>1, PickedHead
    <3>2. done'[e] = Tail(done[e])
      BY <2>1 DEF TypeOK
    <3> QED BY <1>5, <2>1, <3>1, <3>2, KindKept DEF MessagesDone, MessagesWriting
  <2>3. ASSUME NEW w, NEW m PROVE WritesMessage(w, m)' <=> WritesMessage(w, m)
    BY <1>5 DEF WritesMessage
  <2>4. WriterOK(e)'
    <3>1. WriterOK(e)
      BY DEF WritersOK
    <3> QED BY <2>1, <2>2, <2>3, <3>1 DEF WriterOK, OneWrite
  <2>5. \A d \in Ends : d # e => done'[d] = done[d]
    BY <2>1 DEF TypeOK
  <2> QED BY <1>5, <2>1, <2>4, <2>5, WritersKept
<1>6. ASSUME NEW e \in Ends, HeaderWritten(e) \/ BodyWritten(e) \/ RawWritten(e), UNCHANGED kind
      PROVE  WritersOK'
  <2>1. PICK names \in SUBSET MessageOps : Finished(e, names)
    BY <1>6 DEF HeaderWritten, BodyWritten, RawWritten, MessageOps
  <2>2. \A d \in Ends : d # e => /\ socket'[d] = socket[d] /\ writes'[d] = writes[d]
                                 /\ done'[d] = done[d]
                                 /\ m_qMessagesOut'[d] = m_qMessagesOut[d]
    BY <1>6, OthersWrite
  <2>3. CASE WriteNext(e)
    BY <1>6, <2>1, <2>2, <2>3, WriteNextOne, WritersKept
  <2>4. CASE /\ Finished(e, {"header"}) /\ Head(m_qMessagesOut[e]).body # <<>>
             /\ WriteBody(e) /\ UNCHANGED m_qMessagesOut
    <3>1. PICK words : words = BodyOf(Head(m_qMessagesOut[e]))
      OBVIOUS
    <3>2. PICK w : w = [op |-> "body", words |-> words]
      OBVIOUS
    <3>3. /\ m_qMessagesOut[e] # <<>> /\ kind = "framed" /\ MessagesDone(e)' = <<>>
          /\ MessagesWriting(e)' = <<w>> /\ words \in Seq(BodyWords) \ {<<>>}
      BY <1>6, <2>4, <3>1, <3>2, BodyBegins
    <3>4. WritesMessage(w, Head(m_qMessagesOut[e]))'
      BY <1>6, <3>2, <3>3 DEF WritesMessage
    <3>5. Len(<<w>>) = 1 /\ Head(<<w>>) = w
      OBVIOUS
    <3>6. WriterOK(e)'
      BY <2>4, <3>3, <3>4, <3>5 DEF WriterOK, OneWrite
    <3> QED BY <1>6, <2>2, <3>6, WritersKept
  <2> QED BY <1>6, <2>3, <2>4 DEF HeaderWritten, BodyWritten, RawWritten
<1>7. ASSUME NEW e \in Ends, ReadHeader(e) \/ ReadBody(e) \/ BodyRead(e) \/ ReadRaw(e),
             UNCHANGED kind
      PROVE  WritersOK'
  BY <1>1, <1>7 DEF ReadHeader, ReadBody, BodyRead, ReadRaw
<1>8. ASSUME NEW e \in Ends, RunPosted(e), UNCHANGED kind PROVE WritersOK'
  <2>1. ASSUME NEW m \in Sendable, Queues(e, m) PROVE WriterOK(e)'
    <3>1. IsConnected(e)' = IsConnected(e) /\ WriterOK(e) /\ done' = done
          /\ m_qMessagesOut[e] \in Seq(Sendable)
          /\ m_qMessagesOut'[e] = Append(m_qMessagesOut[e], m)
      BY <2>1 DEF Queues, IsConnected, WritersOK, TypeOK
    <3>2. CASE m_qMessagesOut[e] = <<>>
      <4>1. MessagesWriting(e) = <<>> /\ MessagesDone(e)' = <<>>
        BY <3>1, <3>2 DEF WriterOK, OneWrite, MessagesDone
      <4>2. WriteMsg(e, m)
        BY <2>1, <3>1, <3>2 DEF Queues
      <4>3. PICK w : MessagesWriting(e)' = <<w>> /\ WritesMessage(w, m)'
        BY <1>8, <4>1, <4>2, WriteMsgOne
      <4>4. Len(<<w>>) = 1 /\ Head(<<w>>) = w /\ Append(<<>>, m) # <<>>
            /\ Head(Append(<<>>, m)) = m
        OBVIOUS
      <4> QED BY <3>1, <3>2, <4>1, <4>3, <4>4 DEF WriterOK, OneWrite
    <3>3. CASE m_qMessagesOut[e] # <<>>
      <4>1. writes' = writes
        BY <2>1, <3>3 DEF Queues
      <4>2. MessagesWriting(e)' = MessagesWriting(e) /\ MessagesDone(e)' = MessagesDone(e)
        BY <1>8, <3>1, <4>1, KindKept DEF MessagesWriting, MessagesDone
      <4>3. m_qMessagesOut'[e] # <<>> /\ Head(m_qMessagesOut'[e]) = Head(m_qMessagesOut[e])
        BY <3>1, <3>3
      <4>4. ASSUME NEW w, NEW k PROVE WritesMessage(w, k)' <=> WritesMessage(w, k)
        BY <1>8 DEF WritesMessage
      <4> QED BY <3>1, <3>3, <4>2, <4>3, <4>4 DEF WriterOK, OneWrite
    <3> QED BY <3>2, <3>3
  <2>2. ASSUME NEW m \in Sendable, Queues(e, m) PROVE WritersOK'
    <3>1. \A d \in Ends : d # e => /\ socket'[d] = socket[d] /\ writes'[d] = writes[d]
                                   /\ done'[d] = done[d]
                                   /\ m_qMessagesOut'[d] = m_qMessagesOut[d]
      BY <2>2 DEF Queues, WriteMsg, WriteHeader, WriteRaw, Start, TypeOK
    <3> QED BY <1>8, <2>1, <2>2, <3>1, WritersKept
  <2> QED BY <1>8, <2>2, LambdaRuns, WritersShut
<1>9. ASSUME ConnectToClient, UNCHANGED kind PROVE WritersOK'
  <2>1. CASE CloseSocket("server")
    BY <1>3, <1>9, <2>1 DEF Ends
  <2>2. CASE ~CloseSocket("server")
    <3>1. /\ m_qMessagesOut["server"] = <<>> /\ writes["server"] = <<>> /\ done["server"] = <<>>
          /\ UNCHANGED <<done, m_qMessagesOut>>
          /\ socket'["client"] = socket["client"] /\ writes'["client"] = writes["client"]
      BY <1>9, <2>2 DEF ConnectToClient, Born, Start, TypeOK, Ends
    <3>2. MessagesWriting("server") = <<>> /\ MessagesDone("server")' = <<>>
      BY <3>1, PickedEmpty DEF MessagesWriting, MessagesDone
    <3>3. MessagesWriting("server")' = <<>>
      <4>1. CASE kind = "framed"
        <5>1. /\ Start("server", "challenge", <<Nonce>>) /\ <<Nonce>> \in Seq(Words)
              /\ "challenge" \in OpNames \ MessageOps
          BY <1>9, <2>2, <4>1 DEF ConnectToClient, Words, OpNames, MessageOps
        <5> QED BY <1>9, <3>2, <5>1, StartOther DEF Ends
      <4>2. CASE kind = "raw"
        <5>1. writes' = writes
          BY <1>9, <2>2, <4>2 DEF ConnectToClient
        <5> QED BY <1>9, <3>2, <5>1, KindKept DEF MessagesWriting
      <4> QED BY <1>0, <4>1, <4>2
    <3>4. WriterOK("server")'
      BY <3>1, <3>2, <3>3 DEF WriterOK, OneWrite
    <3> QED BY <1>9, <3>1, <3>4, WritersKept DEF Ends
  <2> QED BY <2>1, <2>2
<1>10. ASSUME ConnectToServer, UNCHANGED kind PROVE WritersOK'
  <2>1. CASE CloseSocket("client")
    BY <1>3, <1>10, <2>1 DEF Ends
  <2>2. CASE ~CloseSocket("client")
    <3>1. /\ UNCHANGED writeVars /\ socket'["server"] = socket["server"] /\ IsConnected("client")
      BY <1>10, <2>2 DEF ConnectToServer, IsConnected, TypeOK, Ends
    <3>2. WriterOK("client")'
      BY <1>10, <3>1, WriterKept DEF Ends, WritersOK
    <3> QED BY <1>10, <3>1, <3>2, WritersKept DEF Ends
  <2> QED BY <2>1, <2>2
<1>11. ASSUME NEW e \in Ends, NEW name \in OpNames \ MessageOps, NEW words \in Seq(Words),
              Start(e, name, words), UNCHANGED <<kind, socket, done, m_qMessagesOut>>
       PROVE  WritersOK'
  <2>1. \A d \in Ends : d # e => writes'[d] = writes[d]
    BY <1>11 DEF Start, TypeOK
  <2>2. WriterOK(e)'
    <3>1. WriterOK(e) /\ IsConnected(e)' = IsConnected(e)
      BY <1>11 DEF WritersOK, IsConnected
    <3>2. MessagesWriting(e)' = MessagesWriting(e) /\ MessagesDone(e)' = MessagesDone(e)
      BY <1>11, StartOther DEF MessagesDone
    <3>3. ASSUME NEW w, NEW m PROVE WritesMessage(w, m)' <=> WritesMessage(w, m)
      BY <1>11 DEF WritesMessage
    <3> QED BY <1>11, <3>1, <3>2, <3>3 DEF WriterOK, OneWrite
  <2> QED BY <1>11, <2>1, <2>2, WritersKept
<1>12. ASSUME ReadChallenge, UNCHANGED kind PROVE WritersOK'
  <2>1. kind = "framed"
    BY <1>0, <1>12 DEF ReadChallenge, Arrives, TypeOK, Reads, OpNames, Ends
  <2>2. PICK w \in Words : w = m_nValidationOut'
    BY <1>12, <2>1 DEF ReadChallenge, CalculateValidation, Words
  <2>3. "response" \in OpNames \ MessageOps /\ <<w>> \in Seq(Words)
    BY <2>1 DEF OpNames, MessageOps
  <2>4. Start("client", "response", <<w>>)
    BY <1>12, <2>2 DEF ReadChallenge
  <2>5. UNCHANGED <<socket, done, m_qMessagesOut>>
    BY <1>12 DEF ReadChallenge
  <2> QED BY <1>11, <1>12, <2>3, <2>4, <2>5 DEF Ends
<1>13. ASSUME ReadResponse, UNCHANGED kind PROVE WritersOK'
  <2>1. CASE Shuts("server")
    BY <1>13, <2>1, WritersShut DEF Ends
  <2>2. CASE Validates
    <3>1. kind = "framed"
      BY <1>0, <1>13 DEF ReadResponse, Arrives, TypeOK, Reads, OpNames, Ends
    <3>2. "notify" \in OpNames \ MessageOps /\ <<Proof>> \in Seq(Words)
      BY <3>1 DEF OpNames, MessageOps, Words
    <3>3. Start("server", "notify", <<Proof>>) /\ UNCHANGED <<socket, done, m_qMessagesOut>>
      BY <2>2 DEF Validates
    <3> QED BY <1>11, <1>13, <3>2, <3>3 DEF Ends
  <2> QED BY <1>13, <2>1, <2>2, Response
<1>14. ASSUME WaitForValidation \/ \E e \in Ends : User(e), UNCHANGED kind PROVE WritersOK'
  BY <1>1, <1>14 DEF WaitForValidation, User, Send, Disconnect
<1>15. ASSUME DestroyConnection, UNCHANGED kind PROVE WritersOK'
  BY <1>15, EndShuts, WritersShut DEF Ends
<1> QED
  BY <1>2, <1>3, <1>4, <1>5, <1>6, <1>7, <1>8, <1>9, <1>10, <1>12, <1>13, <1>14, <1>15
  DEF Next, Handler

Inv == TypeOK /\ Born /\ WritersOK

LEMMA TypeInit == Init => TypeOK
<1> SUFFICES ASSUME Init PROVE TypeOK
  OBVIOUS
<1>1. kind \in {"framed", "raw"}
  BY LimitsAssumption DEF Init
<1> QED BY <1>1 DEF Init, TypeOK, Ends, Reads

LEMMA InvInit == Init => Inv
BY TypeInit, BornInit, WritersInit DEF Inv

LEMMA InvStep == Inv /\ [Next]_vars => Inv'
BY TypeStep, BornStep, WritersStep DEF Inv

LEMMA Invariant == Spec => []Inv
BY InvInit, InvStep, PTL DEF Spec

(***************************************************************************)
(* The words, operations and messages of a connection are of the kinds     *)
(* that belong to its T: no handler of the one T starts a write, a read or *)
(* a lambda of the other, and what a header leaves in m_msgTemporaryIn is  *)
(* one of the messages somebody can send.                                  *)
(***************************************************************************)
THEOREM TypeCorrect == Spec => []TypeOK
<1>1. Inv => TypeOK
  BY DEF Inv
<1> QED BY <1>1, Invariant, PTL

(***************************************************************************)
(* However many messages are queued before and after the validation, by    *)
(* whichever interleaving of Send, the validation's writes and the         *)
(* completion handlers: while the connection is open exactly one write of  *)
(* a message is under way when m_qMessagesOut has one, and none when it is *)
(* empty.  The handlers that still run after a close start no second one   *)
(* either, nor pop a queue that is empty.                                  *)
(***************************************************************************)
THEOREM OneWriterAtATime == Spec => []SingleWriter
<1>1. ASSUME Inv PROVE SingleWriter
  <2>1. ASSUME NEW e \in Ends
        PROVE  LET n == Len(MessagesWriting(e)) + Len(MessagesDone(e))
                   one == IF m_qMessagesOut[e] = <<>> THEN 0 ELSE 1
               IN n <= one /\ (IsConnected(e) => n = one)
    <3>1. WriterOK(e)
      BY <1>1 DEF Inv, WritersOK
    <3>2. PICK i, j : i = Len(MessagesWriting(e)) /\ j = Len(MessagesDone(e))
      OBVIOUS
    <3>3. \/ i = 0 /\ j = 0 /\ (IsConnected(e) => m_qMessagesOut[e] = <<>>)
          \/ m_qMessagesOut[e] # <<>> /\ i = 1 /\ j = 0
          \/ m_qMessagesOut[e] # <<>> /\ i = 0 /\ j = 1
      <4>1. Len(<<>>) = 0
        OBVIOUS
      <4> QED BY <3>1, <3>2, <4>1, Zenon DEF WriterOK, OneWrite
    <3> QED BY <3>2, <3>3
  <2> QED BY <2>1 DEF SingleWriter, MessagesWriting, MessagesDone
<1> QED BY <1>1, Invariant, PTL

-----------------------------------------------------------------------------
(* What the two ends say to each other.                                     *)

\* What e has sent and still writes is made of the words in S.
SaysOnly(e, S) ==
    /\ wire[Peer(e)] \in Seq(S)
    /\ writes[e] \in Seq([op : OpNames, words : Seq(S)])

\* The words of messages are in S.
Messages(S) == (\A m \in Sendable : kind = "framed" => HeaderOf(m) \in S) /\ BodyWords \subseteq S

LEMMA SeqMonotone == ASSUME NEW S, NEW T, S \subseteq T PROVE Seq(S) \subseteq Seq(T)
<1> SUFFICES ASSUME NEW s \in Seq(S) PROVE s \in Seq(T)
  OBVIOUS
<1>1. \A i \in 1..Len(s) : s[i] \in T
  OBVIOUS
<1>2. Len(s) \in Nat /\ s = [i \in 1..Len(s) |-> s[i]]
  OBVIOUS
<1> QED BY <1>1, <1>2

LEMMA SaysMore ==
    ASSUME NEW e \in Ends, NEW S, NEW T, S \subseteq T, SaysOnly(e, S)
    PROVE  SaysOnly(e, T)
<1>1. Seq(S) \subseteq Seq(T)
  BY SeqMonotone
<1>2. [op : OpNames, words : Seq(S)] \subseteq [op : OpNames, words : Seq(T)]
  BY <1>1
<1>3. Seq([op : OpNames, words : Seq(S)]) \subseteq Seq([op : OpNames, words : Seq(T)])
  BY <1>2, SeqMonotone
<1> QED BY <1>1, <1>3 DEF SaysOnly

\* Nothing is added to what e writes and sends, or one write is.
LEMMA SaysNoMore ==
    ASSUME TypeOK, UNCHANGED kind, NEW e \in Ends, NEW S, SaysOnly(e, S),
           \/ wire'[Peer(e)] = wire[Peer(e)]
           \/ wire[Peer(e)] # <<>> /\ wire'[Peer(e)] = Tail(wire[Peer(e)]),
           \/ writes'[e] = writes[e] \/ writes'[e] = <<>>
           \/ writes[e] # <<>> /\ writes'[e] = Tail(writes[e])
           \/ \E name \in OpNames, words \in Seq(S) : Start(e, name, words)
    PROVE  SaysOnly(e, S)'
<1>1. PICK T : T = [op : OpNames, words : Seq(S)]
  OBVIOUS
<1>2. wire[Peer(e)] \in Seq(S) /\ writes[e] \in Seq(T)
  BY <1>1 DEF SaysOnly
<1>3. wire'[Peer(e)] \in Seq(S)
  <2>1. PICK s \in Seq(S) : s = wire[Peer(e)]
    BY <1>2
  <2>2. s # <<>> => Tail(s) \in Seq(S)
    OBVIOUS
  <2> QED BY <2>1, <2>2
<1>4. writes'[e] \in Seq(T)
  <2>1. ASSUME NEW name \in OpNames, NEW words \in Seq(S), Start(e, name, words)
        PROVE  writes'[e] \in Seq(T)
    <3>1. PICK w \in T : w = [op |-> name, words |-> words]
      BY <1>1
    <3>2. writes'[e] = Append(writes[e], w)
      BY <2>1, <3>1 DEF Start, TypeOK
    <3> QED BY <1>2, <3>2
  <2>2. <<>> \in Seq(T)
    OBVIOUS
  <2>3. PICK s \in Seq(T) : s = writes[e]
    BY <1>2
  <2>4. s # <<>> => Tail(s) \in Seq(T)
    OBVIOUS
  <2> QED BY <1>2, <2>1, <2>2, <2>3, <2>4
<1>5. OpNames' = OpNames
  BY KindKept
<1> QED BY <1>1, <1>3, <1>4, <1>5 DEF SaysOnly

LEMMA TransferSays ==
    ASSUME TypeOK, UNCHANGED kind, NEW e \in Ends, NEW S, SaysOnly(e, S), Transfer(e)
    PROVE  SaysOnly(e, S)'
<1>1. PICK w \in Ops, x \in Seq(Words), y \in Seq(Words) : Moves(e, w, x, y)
  BY TransferMoves
<1>2. PICK T : T = [op : OpNames, words : Seq(S)]
  OBVIOUS
<1>3. PICK s \in Seq(T) : s = writes[e] /\ s # <<>> /\ w = Head(s)
  BY <1>1, <1>2 DEF SaysOnly, Moves
<1>4. Head(s) \in T /\ Tail(s) \in Seq(T)
  BY <1>3
<1>5. w.op \in OpNames /\ w.words \in Seq(S) /\ w.words = x \o y
  BY <1>1, <1>2, <1>3, <1>4 DEF Moves
<1>6. x \in Seq(S) /\ y \in Seq(S)
  BY <1>5, FirstPart, SecondPart
<1>7. wire'[Peer(e)] \in Seq(S)
  <2>1. PICK d \in Ends : d = Peer(e)
    BY DEF Peer, Ends
  <2>2. PICK v \in Seq(S) : v = wire[d]
    BY <2>1 DEF SaysOnly
  <2>3. v \o x \in Seq(S)
    BY <1>6
  <2>4. wire'[d] = v \o x
    BY <1>1, <2>1, <2>2 DEF Moves, TypeOK
  <2> QED BY <2>1, <2>3, <2>4
<1>8. writes'[e] \in Seq(T)
  <2>1. PICK z \in T : z = [op |-> w.op, words |-> y]
    BY <1>2, <1>5, <1>6
  <2>2. PICK r \in Seq(T) : r = Tail(s)
    BY <1>4
  <2>3. Append(r, z) \in Seq(T)
    OBVIOUS
  <2>4. writes'[e] = Append(r, z) \/ writes'[e] = r
    BY <1>1, <1>3, <2>1, <2>2 DEF Moves, TypeOK
  <2> QED BY <2>3, <2>4
<1>9. OpNames' = OpNames
  BY KindKept
<1> QED BY <1>2, <1>7, <1>8, <1>9 DEF SaysOnly

LEMMA MessageWords ==
    ASSUME NEW S, Messages(S), NEW m \in Sendable
    PROVE  BodyOf(m) \in Seq(S) /\ (kind = "framed" => <<HeaderOf(m)>> \in Seq(S))
<1>1. BodyOf(m) \in Seq(BodyWords) /\ Seq(BodyWords) \subseteq Seq(S)
  BY WordsType, SeqMonotone DEF Messages
<1> QED BY <1>1 DEF Messages

LEMMA WriteMsgSays ==
    ASSUME TypeOK, NEW e \in Ends, NEW m \in Sendable, WriteMsg(e, m), NEW S, Messages(S)
    PROVE  \E name \in OpNames, words \in Seq(S) : Start(e, name, words)
<1>0. kind \in {"framed", "raw"}
  BY LimitsAssumption DEF TypeOK
<1>1. BodyOf(m) \in Seq(S) /\ (kind = "framed" => <<HeaderOf(m)>> \in Seq(S))
  BY MessageWords
<1> QED BY <1>0, <1>1 DEF WriteMsg, WriteHeader, WriteRaw, OpNames

\* A step adds to what e says words of messages and, when it is their turn,
\* the server's two numbers and the client's answer.
LEMMA SpeechStep ==
    ASSUME TypeOK, Born, WritersOK, [Next]_vars, NEW e \in Ends, NEW S, SaysOnly(e, S),
           Messages(S),
           e = "server" => Nonce \in S /\ (validated'["server"] => Proof \in S),
           e = "client" /\ ReadChallenge => m_nValidationOut' \in S
    PROVE  SaysOnly(e, S)'
<1> USE DEF userVars, writeVars, readVars
<1>0. PICK p \in Ends : p = Peer(e) /\ p # e /\ \A d \in Ends : d = e \/ d = p
  BY DEF Peer, Ends
<1>1. ASSUME UNCHANGED kind, writes'[e] = writes[e],
             wire'[p] = wire[p] \/ (wire[p] # <<>> /\ wire'[p] = Tail(wire[p]))
      PROVE  SaysOnly(e, S)'
  BY <1>0, <1>1, SaysNoMore
<1>2. CASE UNCHANGED vars
  BY <1>1, <1>2 DEF vars
<1>3. ASSUME NEW d \in Ends, UNCHANGED kind, Shuts(d) PROVE SaysOnly(e, S)'
  <2>1. /\ \/ writes'[e] = writes[e] \/ writes'[e] = <<>>
           \/ writes[e] # <<>> /\ writes'[e] = Tail(writes[e])
        /\ wire'[p] = wire[p] \/ (wire[p] # <<>> /\ wire'[p] = Tail(wire[p]))
    <3>1. \/ writes'[e] = writes[e] \/ writes'[e] = <<>>
          \/ writes[e] # <<>> /\ writes'[e] = Tail(writes[e])
      <4>1. \/ writes' = writes
            \/ writes[d] # <<>> /\ writes' = [writes EXCEPT ![d] = Tail(writes[d])]
            \/ writes' = [writes EXCEPT ![d] = <<>>]
        BY <1>3 DEF Shuts
      <4> QED BY <4>1 DEF TypeOK
    <3>2. wire' = wire \/ (wire[d] # <<>> /\ wire' = [wire EXCEPT ![d] = Tail(wire[d])])
      BY <1>3 DEF Shuts, Taken
    <3>3. wire'[p] = wire[p] \/ (wire[p] # <<>> /\ wire'[p] = Tail(wire[p]))
      BY <3>2 DEF TypeOK
    <3> QED BY <3>1, <3>3
  <2> QED BY <1>0, <1>3, <2>1, SaysNoMore
<1>3a. ASSUME NEW d \in Ends, Aborted(d) \/ PeerClosed(d) \/ ConnectionLost(d), UNCHANGED kind
       PROVE  SaysOnly(e, S)'
  BY <1>3, <1>3a, FailureShuts
<1>4. ASSUME NEW d \in Ends, Transfer(d), UNCHANGED kind PROVE SaysOnly(e, S)'
  <2>1. CASE d = e
    BY <1>4, <2>1, TransferSays
  <2>2. CASE d # e
    <3>1. writes'[e] = writes[e] /\ wire'[p] = wire[p]
      BY <1>0, <1>4, <2>2 DEF Transfer, HandOver, TypeOK, Peer, Ends
    <3> QED BY <1>1, <1>4, <3>1
  <2> QED BY <2>1, <2>2
<1>5. ASSUME NEW d \in Ends, ValidationWritten(d), UNCHANGED kind PROVE SaysOnly(e, S)'
  BY <1>1, <1>5 DEF ValidationWritten, Finished
<1>6. ASSUME NEW d \in Ends, HeaderWritten(d) \/ BodyWritten(d) \/ RawWritten(d), UNCHANGED kind
      PROVE  SaysOnly(e, S)'
  <2>1. PICK names \in SUBSET MessageOps : Finished(d, names)
    BY <1>6 DEF HeaderWritten, BodyWritten, RawWritten, MessageOps
  <2>2. wire' = wire
    BY <2>1 DEF Finished
  <2>3. m_qMessagesOut[d] # <<>> /\ Head(m_qMessagesOut[d]) \in Sendable
        /\ Tail(m_qMessagesOut[d]) \in Seq(Sendable) /\ Head(done[d]) \in OpNames
    BY <2>1, FinishedFirst
  <2>4. \/ writes'[d] = writes[d]
        \/ \E name \in OpNames, words \in Seq(S) : Start(d, name, words)
    <3>1. CASE WriteNext(d)
      <4>1. PICK rest \in Seq(Sendable) : rest = Tail(m_qMessagesOut[d])
        BY <2>3
      <4>2. CASE rest = <<>>
        BY <3>1, <4>1, <4>2 DEF WriteNext
      <4>3. CASE rest # <<>>
        <5>1. Head(rest) \in Sendable /\ WriteMsg(d, Head(rest))
          BY <3>1, <4>1, <4>3 DEF WriteNext
        <5> QED BY <5>1, WriteMsgSays
      <4> QED BY <4>2, <4>3
    <3>2. CASE Finished(d, {"header"}) /\ WriteBody(d)
      <4>1. "body" \in OpNames
        <5>1. Head(done[d]) = "header" /\ kind \in {"framed", "raw"}
          BY <3>2, LimitsAssumption DEF Finished, TypeOK
        <5> QED BY <2>3, <5>1 DEF OpNames
      <4>2. PICK m \in Sendable : m = Head(m_qMessagesOut[d])
        BY <2>3
      <4>3. PICK words \in Seq(S) : words = BodyOf(m)
        BY MessageWords
      <4> QED BY <3>2, <4>1, <4>2, <4>3 DEF WriteBody
    <3> QED BY <1>6, <3>1, <3>2 DEF HeaderWritten, BodyWritten, RawWritten
  <2>5. CASE d = e
    BY <1>6, <2>2, <2>4, <2>5, SaysNoMore
  <2>6. CASE d # e
    <3>1. writes'[e] = writes[e]
      BY <1>6, <2>6, OthersWrite
    <3> QED BY <1>1, <1>6, <2>2, <3>1
  <2> QED BY <2>5, <2>6
<1>7. ASSUME NEW d \in Ends, ReadHeader(d) \/ ReadBody(d) \/ BodyRead(d), UNCHANGED kind
      PROVE  SaysOnly(e, S)'
  <2>1. UNCHANGED writes /\ (wire' = wire \/ (wire[d] # <<>> /\ Taken(d)))
    BY <1>7 DEF ReadHeader, ReadBody, BodyRead, Arrives
  <2>2. wire'[p] = wire[p] \/ (wire[p] # <<>> /\ wire'[p] = Tail(wire[p]))
    BY <2>1 DEF Taken, TypeOK
  <2> QED BY <1>1, <1>7, <2>1, <2>2
<1>8. ASSUME NEW d \in Ends, ReadRaw(d), UNCHANGED kind PROVE SaysOnly(e, S)'
  <2>1. PICK n \in 1..Len(wire[d]) : wire' = [wire EXCEPT ![d] = SubSeq(@, n + 1, Len(@))]
    BY <1>8 DEF ReadRaw
  <2>2. UNCHANGED writes
    BY <1>8 DEF ReadRaw
  <2>3. CASE d = p
    <3>1. PICK s \in Seq(S) : s = wire[p]
      BY <1>0 DEF SaysOnly
    <3>2. SubSeq(s, n + 1, Len(s)) \in Seq(S)
      <4>1. n \in 0..Len(s)
        BY <2>1, <2>3, <3>1
      <4> QED BY <4>1, Joined
    <3>3. wire'[p] \in Seq(S)
      BY <2>1, <2>3, <3>1, <3>2 DEF TypeOK
    <3> QED BY <1>0, <1>8, <2>2, <3>3, KindKept DEF SaysOnly
  <2>4. CASE d # p
    <3>1. wire'[p] = wire[p]
      BY <2>1, <2>4 DEF TypeOK
    <3> QED BY <1>1, <1>8, <2>2, <3>1
  <2> QED BY <2>3, <2>4
<1>9. ASSUME NEW d \in Ends, RunPosted(d), UNCHANGED kind PROVE SaysOnly(e, S)'
  <2>1. ASSUME NEW m \in Sendable, Queues(d, m) PROVE SaysOnly(e, S)'
    <3>1. wire' = wire /\ (writes' = writes \/ WriteMsg(d, m))
      BY <2>1 DEF Queues
    <3>2. CASE writes' = writes
      BY <1>1, <1>9, <3>1, <3>2
    <3>3. CASE WriteMsg(d, m) /\ d = e
      <4>1. \E name \in OpNames, words \in Seq(S) : Start(e, name, words)
        BY <3>3, WriteMsgSays
      <4> QED BY <1>9, <3>1, <4>1, SaysNoMore
    <3>4. CASE WriteMsg(d, m) /\ d # e
      <4>1. writes'[e] = writes[e]
        BY <3>4 DEF WriteMsg, WriteHeader, WriteRaw, Start, TypeOK
      <4> QED BY <1>1, <1>9, <3>1, <4>1
    <3> QED BY <3>1, <3>2, <3>3, <3>4
  <2> QED BY <1>3, <1>9, <2>1, LambdaRuns
<1>10. ASSUME ConnectToClient, UNCHANGED kind PROVE SaysOnly(e, S)'
  <2>1. CASE CloseSocket("server")
    BY <1>3, <1>10, <2>1, CloseShuts DEF Ends
  <2>2. CASE wire' = wire /\ writes' = writes
    BY <1>1, <1>10, <2>2
  <2>3. CASE wire' = wire /\ Start("server", "challenge", <<Nonce>>) /\ kind = "framed"
    <3>1. CASE e = "server"
      <4>1. "challenge" \in OpNames /\ <<Nonce>> \in Seq(S)
        BY <2>3, <3>1 DEF OpNames
      <4> QED BY <1>10, <2>3, <3>1, <4>1, SaysNoMore
    <3>2. CASE e # "server"
      <4>1. writes'[e] = writes[e]
        BY <2>3, <3>2 DEF Start, TypeOK
      <4> QED BY <1>1, <1>10, <2>3, <4>1
    <3> QED BY <3>1, <3>2
  <2> QED BY <1>10, <2>1, <2>2, <2>3 DEF ConnectToClient
<1>11. ASSUME ConnectToServer, UNCHANGED kind PROVE SaysOnly(e, S)'
  <2>1. CASE CloseSocket("client")
    BY <1>3, <1>11, <2>1, CloseShuts DEF Ends
  <2>2. CASE wire' = wire /\ writes' = writes
    BY <1>1, <1>11, <2>2
  <2> QED BY <1>11, <2>1, <2>2 DEF ConnectToServer
<1>12. ASSUME ReadChallenge, UNCHANGED kind PROVE SaysOnly(e, S)'
  <2>1. Start("client", "response", <<m_nValidationOut'>>)
        /\ wire["client"] # <<>> /\ wire' = [wire EXCEPT !["client"] = Tail(@)]
    BY <1>12 DEF ReadChallenge, Arrives, Taken
  <2>2. "response" \in OpNames
    BY <1>12, LimitsAssumption
    DEF ReadChallenge, Arrives, TypeOK, Reads, OpNames, Ends
  <2>3. wire'[p] = wire[p] \/ (wire[p] # <<>> /\ wire'[p] = Tail(wire[p]))
    BY <2>1 DEF TypeOK
  <2>4. CASE e = "client"
    <3>1. PICK w \in S : w = m_nValidationOut'
      BY <1>12, <2>4
    <3>2. <<w>> \in Seq(S)
      OBVIOUS
    <3> QED BY <1>0, <1>12, <2>1, <2>2, <2>3, <2>4, <3>1, <3>2, SaysNoMore
  <2>5. CASE e # "client"
    <3>1. writes'[e] = writes[e]
      BY <2>1, <2>5 DEF Start, TypeOK
    <3> QED BY <1>1, <1>12, <2>3, <3>1
  <2> QED BY <2>4, <2>5
<1>13. ASSUME ReadResponse, UNCHANGED kind PROVE SaysOnly(e, S)'
  <2>1. CASE Shuts("server")
    BY <1>3, <1>13, <2>1 DEF Ends
  <2>2. CASE Validates
    <3>1. /\ Start("server", "notify", <<Proof>>) /\ validated'["server"]
          /\ wire["server"] # <<>> /\ wire' = [wire EXCEPT !["server"] = Tail(@)]
      BY <2>2 DEF Validates, Arrives, Taken, TypeOK, Ends
    <3>2. "notify" \in OpNames
      BY <1>13, LimitsAssumption
      DEF ReadResponse, Arrives, TypeOK, Reads, OpNames, Ends
    <3>3. wire'[p] = wire[p] \/ (wire[p] # <<>> /\ wire'[p] = Tail(wire[p]))
      BY <3>1 DEF TypeOK
    <3>4. CASE e = "server"
      <4>1. <<Proof>> \in Seq(S)
        BY <3>1, <3>4
      <4> QED BY <1>0, <1>13, <3>1, <3>2, <3>3, <3>4, <4>1, SaysNoMore
    <3>5. CASE e # "server"
      <4>1. writes'[e] = writes[e]
        BY <3>1, <3>5 DEF Start, TypeOK
      <4> QED BY <1>1, <1>13, <3>3, <4>1
    <3> QED BY <3>4, <3>5
  <2> QED BY <1>13, <2>1, <2>2, Response
<1>14. ASSUME WaitForValidation, UNCHANGED kind PROVE SaysOnly(e, S)'
  <2>1. UNCHANGED writes
        /\ (wire'[p] = wire[p] \/ (wire[p] # <<>> /\ wire'[p] = Tail(wire[p])))
    BY <1>14 DEF WaitForValidation, Arrives, Taken, TypeOK
  <2> QED BY <1>1, <1>14, <2>1
<1>15. ASSUME NEW d \in Ends, User(d), UNCHANGED kind PROVE SaysOnly(e, S)'
  BY <1>1, <1>15 DEF User, Send, Disconnect
<1>16. ASSUME DestroyConnection, UNCHANGED kind PROVE SaysOnly(e, S)'
  BY <1>3, <1>16, EndShuts DEF Ends
<1> QED
  BY <1>2, <1>3a, <1>4, <1>5, <1>6, <1>7, <1>8, <1>9, <1>10, <1>11, <1>12, <1>13, <1>14,
     <1>15, <1>16
  DEF Next, Handler

\* The client has no challenge to answer yet.
Asking == socket["client"] = "connecting" \/ reading["client"] = "challenge"

\* The server has the proof only from a client that made it, and the client
\* only from a server that got it.
ClientWords == Words \ (IF Asking THEN {Nonce, Proof, Garbage}
                        ELSE IF m_nValidationOut = Proof THEN {Nonce} ELSE {Nonce, Proof})
ServerWords == Words \ (IF validated["server"] THEN {Garbage} ELSE {Proof, Garbage})

(***************************************************************************)
(* While a client is asking it has no answer and the server has not        *)
(* validated it; each end says only what it can say; and it reads messages *)
(* only after its own half of the validation.                              *)
(***************************************************************************)
HandshakeOK ==
    /\ m_nValidationOut \in {Proof, Garbage} /\ (Asking => m_nValidationOut = Garbage)
    /\ validated["client"] => validated["server"]
    /\ validated["server"] => m_nValidationOut = Proof
    /\ SaysOnly("client", ClientWords) /\ SaysOnly("server", ServerWords)
    /\ \A e \in Ends : reading[e] \in {"header", "body"} \/ received[e] # <<>> => validated[e]

AgreementInv == kind = "framed" => HandshakeOK

LEMMA AgreementInit == Init => AgreementInv
<1> SUFFICES ASSUME Init PROVE HandshakeOK
  BY DEF AgreementInv
<1>1. \A S : SaysOnly("client", S) /\ SaysOnly("server", S)
  BY DEF Init, SaysOnly, Peer, Ends
<1> QED BY <1>1 DEF Init, HandshakeOK, Ends, Asking

\* A step does not take back a word: the two sets only grow.
LEMMA WordsApart ==
    ASSUME kind = "framed"
    PROVE  Messages(ClientWords) /\ Messages(ServerWords) /\ Nonce \in ServerWords
<1>1. ASSUME NEW m PROVE HeaderOf(m) \notin {Nonce, Proof, Garbage}
  BY DEF Nonce, Proof, Garbage, HeaderOf
<1>2. ASSUME NEW w \in BodyWords PROVE w \notin {Nonce, Proof, Garbage}
  BY DEF Nonce, Proof, Garbage, BodyWords
<1>3. Nonce \notin {Proof, Garbage}
  BY DEF Nonce, Proof, Garbage
<1>4. /\ Nonce \in Words /\ BodyWords \subseteq Words
      /\ \A m \in Sendable : HeaderOf(m) \in Words
  BY DEF Words, Sendable
<1> QED BY <1>1, <1>2, <1>3, <1>4 DEF Messages, ClientWords, ServerWords

LEMMA KindStays == [Next]_vars => kind' = kind
<1>1. ASSUME NEW e \in Ends, Handler(e) PROVE kind' = kind
  BY <1>1 DEF Handler
<1>2. UNCHANGED vars => kind' = kind
  BY DEF vars
<1> QED BY <1>1, <1>2 DEF Next

LEMMA AgreementStep ==
    TypeOK /\ Born /\ WritersOK /\ AgreementInv /\ [Next]_vars => AgreementInv'
<1> SUFFICES ASSUME TypeOK, Born, WritersOK, HandshakeOK, kind = "framed", [Next]_vars
             PROVE  HandshakeOK'
  <2>1. [Next]_vars => kind' = kind
    BY KindStays
  <2> QED BY <2>1 DEF AgreementInv
<1> USE DEF userVars, writeVars, readVars
<1>0. kind' = kind /\ kind' = "framed" /\ Words' = Words
  <2>1. kind' = kind
    BY KindStays
  <2> QED BY <2>1, KindKept
<1> DEFINE Small ==
        /\ m_nValidationOut \in {Proof, Garbage} /\ (Asking => m_nValidationOut = Garbage)
        /\ validated["client"] => validated["server"]
        /\ validated["server"] => m_nValidationOut = Proof
        /\ \A e \in Ends : reading[e] \in {"header", "body"} \/ received[e] # <<>> => validated[e]
        Kept == /\ validated'["server"] = validated["server"] \/ validated'["server"]
                /\ ReadChallenge \/ (m_nValidationOut' = m_nValidationOut /\ (Asking' => Asking))
<1>1. ASSUME UNCHANGED <<m_nValidationOut, validated, received, socket, reading>>
      PROVE Small' /\ Kept
  BY <1>1 DEF HandshakeOK, Asking
<1>2. ASSUME UNCHANGED vars PROVE Small' /\ Kept
  BY <1>1, <1>2 DEF vars
<1>3. ASSUME NEW d \in Ends, Shuts(d) PROVE Small' /\ Kept
  <2>1. /\ UNCHANGED <<m_nValidationOut, validated, received>>
        /\ \A f \in Ends : socket'[f] \in {socket[f], "closed"}
        /\ \A f \in Ends : reading'[f] \in {reading[f], "none"}
    BY <1>3 DEF Shuts, TypeOK
  <2> QED BY <2>1 DEF HandshakeOK, Asking, Ends
<1>3a. ASSUME NEW d \in Ends, Aborted(d) \/ PeerClosed(d) \/ ConnectionLost(d)
       PROVE  Small' /\ Kept
  BY <1>3, <1>3a, FailureShuts
<1>4. ASSUME NEW d \in Ends, Transfer(d) PROVE Small' /\ Kept
  BY <1>1, <1>4 DEF Transfer
<1>5. ASSUME NEW d \in Ends, ValidationWritten(d) PROVE Small' /\ Kept
  <2>1. /\ UNCHANGED <<socket, m_nValidationOut, validated, received>>
        /\ reading' = reading \/ ReadOn(d, "notify", FALSE)
    BY <1>5 DEF ValidationWritten, Finished
  <2>2. \A f \in Ends : reading'[f] \in {reading[f], "notify", "none"}
    BY <2>1, ReadingOn
  <2> QED BY <2>1, <2>2 DEF HandshakeOK, Asking, Ends
<1>6. ASSUME NEW d \in Ends, HeaderWritten(d) \/ BodyWritten(d) \/ RawWritten(d)
      PROVE  Small' /\ Kept
  BY <1>1, <1>6 DEF HeaderWritten, BodyWritten, RawWritten, Finished
<1>7. ASSUME NEW d \in Ends, ReadHeader(d) PROVE Small' /\ Kept
  <2>1. /\ reading[d] = "header" /\ UNCHANGED <<m_nValidationOut, validated, socket>>
        /\ \A f \in Ends : f # d => reading'[f] = reading[f] /\ received'[f] = received[f]
        /\ reading'[d] \in {"header", "body", "none"}
    <3>1. \/ \E m : AddToIncomingMessageQueue(d, m)
          \/ \E nothing : ReadOn(d, "body", nothing) /\ received' = received
      BY <1>7 DEF ReadHeader
    <3>2. \A f \in Ends : f # d => reading'[f] = reading[f] /\ received'[f] = received[f]
      BY <3>1, ReadingOn, ReadingNext DEF AddToIncomingMessageQueue, TypeOK
    <3>3. reading'[d] \in {"header", "body", "none"}
      BY <1>0, <3>1, ReadingOn, ReadingNext
    <3> QED BY <1>7, <3>2, <3>3 DEF ReadHeader, Arrives
  <2> QED BY <2>1 DEF HandshakeOK, Asking, Ends
<1>8. ASSUME NEW d \in Ends, ReadBody(d) PROVE Small' /\ Kept
  BY <1>1, <1>8 DEF ReadBody
<1>9. ASSUME NEW d \in Ends, BodyRead(d) PROVE Small' /\ Kept
  <2>1. /\ reading[d] = "body" /\ UNCHANGED <<m_nValidationOut, validated, socket>>
        /\ \A f \in Ends : f # d => reading'[f] = reading[f] /\ received'[f] = received[f]
        /\ reading'[d] \in {"header", "none"}
    <3>1. AddToIncomingMessageQueue(d, m_msgTemporaryIn[d])
      BY <1>9 DEF BodyRead
    <3>2. /\ \A f \in Ends : f # d => reading'[f] = reading[f]
          /\ reading'[d] \in {"header", "none"}
      BY <1>0, <3>1, ReadingNext
    <3>3. \A f \in Ends : f # d => received'[f] = received[f]
      BY <3>1 DEF AddToIncomingMessageQueue, TypeOK
    <3> QED BY <1>9, <3>2, <3>3 DEF BodyRead
  <2> QED BY <2>1 DEF HandshakeOK, Asking, Ends
<1>10. ASSUME NEW d \in Ends, ReadRaw(d) PROVE Small' /\ Kept
  BY <1>0, <1>10 DEF ReadRaw, Arrives, TypeOK, Reads, OpNames
<1>11. ASSUME NEW d \in Ends, RunPosted(d) PROVE Small' /\ Kept
  <2>1. ASSUME NEW m \in Sendable, Queues(d, m) PROVE Small' /\ Kept
    BY <1>1, <2>1 DEF Queues
  <2> QED BY <1>3, <1>11, <2>1, LambdaRuns
<1>12. ASSUME ConnectToClient PROVE Small' /\ Kept
  <2>1. CASE CloseSocket("server")
    BY <1>3, <2>1, CloseShuts DEF Ends
  <2>2. CASE ~CloseSocket("server")
    BY <1>0, <1>12, <2>2 DEF ConnectToClient, HandshakeOK, Asking, TypeOK, Ends
  <2> QED BY <2>1, <2>2
<1>13. ASSUME ConnectToServer PROVE Small' /\ Kept
  <2>1. CASE CloseSocket("client")
    BY <1>3, <2>1, CloseShuts DEF Ends
  <2>2. CASE ~CloseSocket("client")
    BY <1>0, <1>13, <2>2, SMTT(30) DEF ConnectToServer, HandshakeOK, Asking, TypeOK, Ends
  <2> QED BY <2>1, <2>2
<1>14. ASSUME ReadChallenge PROVE Small' /\ Kept
  <2>1. /\ reading["client"] = "challenge" /\ reading'["client"] = "none"
        /\ reading'["server"] = reading["server"] /\ socket["client"] # "connecting"
        /\ UNCHANGED <<validated, socket, received>> /\ m_nValidationOut' \in {Proof, Garbage}
    BY <1>14 DEF ReadChallenge, Arrives, CalculateValidation, TypeOK, Born, Ends
  <2>2. ~validated["server"]
    BY <2>1 DEF HandshakeOK, Asking, Proof, Garbage
  <2> QED BY <1>14, <2>1, <2>2 DEF HandshakeOK, Asking, Ends
<1>15. ASSUME ReadResponse PROVE Small' /\ Kept
  <2>1. CASE Shuts("server")
    BY <1>3, <2>1 DEF Ends
  <2>2. CASE Validates
    <3>1. /\ Head(wire["server"]) = Proof /\ wire["server"] # <<>> /\ validated'["server"]
          /\ validated'["client"] = validated["client"]
          /\ reading'["client"] = reading["client"]
          /\ UNCHANGED <<socket, m_nValidationOut, received>>
      BY <2>2, ReadingOn DEF Validates, Arrives, TypeOK, Ends
    <3>2. Proof \in ClientWords
      BY <3>1 DEF HandshakeOK, SaysOnly, Peer
    <3>3. m_nValidationOut = Proof
      BY <3>2 DEF ClientWords
    <3> QED BY <3>1, <3>3 DEF HandshakeOK, Asking, Ends
  <2> QED BY <1>15, <2>1, <2>2, Response
<1>16. ASSUME WaitForValidation PROVE Small' /\ Kept
  <2>1. /\ wire["client"] # <<>> /\ validated'["server"] = validated["server"]
        /\ reading'["server"] = reading["server"]
        /\ UNCHANGED <<socket, m_nValidationOut, received>> /\ reading'["client"] # "challenge"
        /\ \/ Head(wire["client"]) = m_nValidationOut /\ validated'["client"]
           \/ validated' = validated /\ reading'["client"] = "none"
    <3>1. /\ wire["client"] # <<>> /\ UNCHANGED <<socket, m_nValidationOut, received>>
          /\ validated'["server"] = validated["server"]
      BY <1>16 DEF WaitForValidation, Arrives, TypeOK, Ends
    <3>2. CASE /\ Head(wire["client"]) = m_nValidationOut /\ ReadOn("client", "header", FALSE)
               /\ validated' = [validated EXCEPT !["client"] = TRUE]
      <4>1. reading'["server"] = reading["server"] /\ reading'["client"] # "challenge"
        <5>1. PICK e \in Ends : e = "client" /\ ReadOn(e, "header", FALSE)
          BY <3>2 DEF Ends
        <5>2. reading'[e] \in {"header", "none"} /\ \A d \in Ends : d # e => reading'[d] = reading[d]
          BY <5>1, ReadingOn
        <5> QED BY <5>1, <5>2 DEF Ends
      <4>2. validated'["client"]
        BY <3>2 DEF TypeOK, Ends
      <4> QED BY <3>1, <3>2, <4>1, <4>2, Zenon
    <3>3. CASE UNCHANGED validated /\ reading' = [reading EXCEPT !["client"] = "none"]
      BY <3>1, <3>3 DEF TypeOK, Ends
    <3> QED BY <1>16, <3>2, <3>3 DEF WaitForValidation
  <2>2. ASSUME Head(wire["client"]) = m_nValidationOut PROVE validated["server"]
    <3>1. m_nValidationOut \in ServerWords /\ m_nValidationOut \in {Proof, Garbage}
      BY <2>1, <2>2 DEF HandshakeOK, SaysOnly, Peer
    <3> QED BY <3>1 DEF ServerWords
  <2> QED BY <2>1, <2>2 DEF HandshakeOK, Asking, Ends
<1>17. ASSUME NEW d \in Ends, User(d) PROVE Small' /\ Kept
  BY <1>1, <1>17 DEF User, Send, Disconnect
<1>18. ASSUME DestroyConnection PROVE Small' /\ Kept
  BY <1>3, <1>18, EndShuts DEF Ends
<1>19. Small' /\ Kept
  BY <1>2, <1>3a, <1>4, <1>5, <1>6, <1>7, <1>8, <1>9, <1>10, <1>11, <1>12, <1>13, <1>14,
     <1>15, <1>16, <1>17, <1>18
  DEF Next, Handler
<1>20. SaysOnly("server", ServerWords)'
  <2>1. PICK S : S = ServerWords'
    OBVIOUS
  <2>2. ServerWords \subseteq S
    BY <1>0, <1>19, <2>1 DEF ServerWords
  <2>3. SaysOnly("server", S)
    BY <2>2, SaysMore DEF HandshakeOK, Ends
  <2>4. Messages(S) /\ Nonce \in S
    BY <2>2, WordsApart DEF Messages
  <2>5. validated'["server"] => Proof \in S
    BY <1>0, <2>1 DEF ServerWords, Words, Proof, Garbage
  <2>6. SaysOnly("server", S)'
    BY <2>3, <2>4, <2>5, SpeechStep DEF Ends
  <2> QED BY <2>1, <2>6 DEF SaysOnly
<1>21. SaysOnly("client", ClientWords)'
  <2>1. PICK S : S = ClientWords'
    OBVIOUS
  <2>2. ClientWords \subseteq S /\ (ReadChallenge => m_nValidationOut' \in S)
    <3>1. CASE ReadChallenge
      <4>1. Asking /\ ~Asking'
        BY <3>1 DEF ReadChallenge, Arrives, Asking, TypeOK, Born, Ends
      <4>2. m_nValidationOut' \in {Proof, Garbage} /\ m_nValidationOut' \in Words'
        BY <1>0, <1>19 DEF Words
      <4> QED BY <1>0, <2>1, <4>1, <4>2 DEF ClientWords, Nonce, Proof, Garbage
    <3>2. CASE ~ReadChallenge
      <4>1. m_nValidationOut' = m_nValidationOut /\ (Asking' => Asking)
        BY <1>19, <3>2
      <4>2. Asking' => ClientWords = S
        BY <1>0, <2>1, <4>1 DEF ClientWords
      <4>3. ~Asking' => ClientWords \subseteq S
        BY <1>0, <2>1, <4>1 DEF ClientWords
      <4> QED BY <3>2, <4>2, <4>3
    <3> QED BY <3>1, <3>2
  <2>3. SaysOnly("client", S)
    BY <2>2, SaysMore DEF HandshakeOK, Ends
  <2>4. Messages(S)
    BY <2>2, WordsApart DEF Messages
  <2>5. SaysOnly("client", S)'
    BY <2>2, <2>3, <2>4, SpeechStep DEF Ends
  <2> QED BY <2>1, <2>5 DEF SaysOnly
<1> QED BY <1>19, <1>20, <1>21 DEF HandshakeOK

(***************************************************************************)
(* Whatever the two ends' users send, before the validation or after it:   *)
(* OnConnected is called on a client only if the server has validated it,  *)
(* the server validates only a client that answered its challenge, and no  *)
(* message reaches a queue of a connection that is not validated.          *)
(***************************************************************************)
THEOREM ValidatedTogether == Spec => []Agreement
<1>1. Init => Inv /\ AgreementInv
  BY InvInit, AgreementInit
<1>2. Inv /\ AgreementInv /\ [Next]_vars => (Inv /\ AgreementInv)'
  BY InvStep, AgreementStep DEF Inv
<1>3. AgreementInv => Agreement
  BY DEF AgreementInv, HandshakeOK, Agreement, Ends
<1> QED BY <1>1, <1>2, <1>3, PTL DEF Spec
=============================================================================
