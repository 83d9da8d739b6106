----------------------------- MODULE TCPMsgProofs ----------------------------
(***************************************************************************)
(* Theorems about TCPMsg: what << puts into a message >> gets out again,   *)
(* for bodies and values of any length.                                    *)
(***************************************************************************)
EXTENDS TCPMsg, SequenceLemmas

\* The messages, whatever size their header has.
Messages(Types, Words) == [type : Types, size : Nat, body : Seq(Words)]

\* TCPMsg: the value put in last comes out first, and leaves the message as it
\* was before, with the size of its own body.
THEOREM LastInFirstOut ==
  ASSUME NEW Types, NEW Words, NEW msg \in Messages(Types, Words), NEW data \in Seq(Words)
  PROVE  Output(Input(msg, data), Len(data))
           = [data |-> data, msg |-> Resized(msg, msg.body)]
<1> DEFINE in == Input(msg, data)
<1>1. msg.body \in Seq(Words)
  BY DEF Messages
<1>2. in.body = msg.body \o data /\ in.type = msg.type
  BY DEF Input, Resized
<1>3. /\ SubSeq(in.body, 1, Len(in.body) - Len(data)) = msg.body
      /\ SubSeq(in.body, Len(in.body) - Len(data) + 1, Len(in.body)) = data
  <2> HIDE DEF in
  <2>1. ASSUME NEW b, b = msg.body \o data
        PROVE  /\ SubSeq(b, 1, Len(b) - Len(data)) = msg.body
               /\ SubSeq(b, Len(b) - Len(data) + 1, Len(b)) = data
    <3>1. PICK body \in Seq(Words) : body = msg.body
      BY <1>1
    <3>2. /\ Len(body \o data) - Len(data) = Len(body)
          /\ SubSeq(body \o data, 1, Len(body)) = body
          /\ SubSeq(body \o data, Len(body) + 1, Len(body \o data)) = data
      BY Cut
    <3> QED BY <2>1, <3>1, <3>2
  <2> QED BY <1>2, <2>1
<1> HIDE DEF in
<1>4. Resized(in, msg.body) = Resized(msg, msg.body)
  BY <1>2 DEF Resized
<1>5. Output(in, Len(data)) = [data |-> data, msg |-> Resized(in, msg.body)]
  BY <1>3 DEF Output, Rest
<1> QED BY <1>4, <1>5 DEF in

\* A vector alone in a message comes out whole.
THEOREM VectorRoundTrip ==
  ASSUME NEW Words, NEW type, NEW data \in Seq(Words)
  PROVE  OutputVector(Input(NewMsg(type), data)).data = data
<1>1. <<>> \o data = data
  BY ConcatEmptySeq
<1> QED BY <1>1 DEF OutputVector, Input, Resized, NewMsg

\* TCPRawMsg: >> undoes <<.
THEOREM RawLastInFirstOut ==
  ASSUME NEW Types, NEW Words, NEW msg \in Messages(Types, Words), NEW data \in Seq(Words)
  PROVE  RawOutput(RawInput(msg, data), Len(data)) = [data |-> data, msg |-> msg]
<1> DEFINE in == RawInput(msg, data)
<1>1. msg.body \in Seq(Words) /\ msg = Rebodied(msg, msg.body)
  BY DEF Messages, Rebodied
<1>2. in.body = msg.body \o data /\ in.type = msg.type /\ in.size = msg.size
  BY DEF RawInput, Rebodied
<1>3. /\ SubSeq(in.body, 1, Len(in.body) - Len(data)) = msg.body
      /\ SubSeq(in.body, Len(in.body) - Len(data) + 1, Len(in.body)) = data
  <2> HIDE DEF in
  <2>1. ASSUME NEW b, b = msg.body \o data
        PROVE  /\ SubSeq(b, 1, Len(b) - Len(data)) = msg.body
               /\ SubSeq(b, Len(b) - Len(data) + 1, Len(b)) = data
    <3>1. PICK body \in Seq(Words) : body = msg.body
      BY <1>1
    <3>2. /\ Len(body \o data) - Len(data) = Len(body)
          /\ SubSeq(body \o data, 1, Len(body)) = body
          /\ SubSeq(body \o data, Len(body) + 1, Len(body \o data)) = data
      BY Cut
    <3> QED BY <2>1, <3>1, <3>2
  <2> QED BY <1>2, <2>1
<1> HIDE DEF in
<1>4. Rebodied(in, msg.body) = msg
  BY <1>1, <1>2 DEF Rebodied
<1>5. RawOutput(in, Len(data)) = [data |-> data, msg |-> Rebodied(in, msg.body)]
  BY <1>3 DEF RawOutput, Rest
<1> QED BY <1>4, <1>5 DEF in
=============================================================================
