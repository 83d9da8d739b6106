-------------------------- MODULE TCPStreamProofs --------------------------
(***************************************************************************)
(* What a TCPConnection delivers: theorems for any messages, parts and     *)
(* bounds, and for users that send before the validation or after it.      *)
(*                                                                         *)
(* The argument follows one direction, from an end e to its peer: the      *)
(* words of the messages accepted by e are those that its peer has read,   *)
(* those on the wire, and those that e still has to write.                 *)
(***************************************************************************)
EXTENDS TCPConnectionProofs

-----------------------------------------------------------------------------
(* The words of messages.                                                   *)

Whole(m) == IF kind = "framed" THEN <<HeaderOf(m)>> \o BodyOf(m) ELSE BodyOf(m)
WordsOf(q) == FlattenSeq([i \in DOMAIN q |-> Whole(q[i])])

\* What is sent, and on a raw connection what is received.
Carriable == IF kind = "framed" THEN Msgs ELSE Frames

LEMMA SentIsCarriable == ASSUME TypeOK PROVE Sendable \subseteq Carriable
<1>0. kind \in {"framed", "raw"}
  BY LimitsAssumption DEF TypeOK
<1>1. CASE kind = "framed"
  BY <1>1 DEF Sendable, Carriable
<1>2. CASE kind = "raw"
  <2>1. ASSUME NEW m \in RawMsgs PROVE m \in Frames
    <3>1. m.body \in Seq(Parts) /\ m = RawInput(NewMsg("raw"), m.body)
      BY MsgsAssumption
    <3>2. <<>> \o m.body = m.body
      BY <3>1, ConcatEmptySeq
    <3>3. m = [type |-> "raw", size |-> 0, body |-> m.body]
      BY <3>1, <3>2 DEF RawInput, Rebodied, NewMsg
    <3> QED BY <1>2, <3>1, <3>3 DEF Frames
  <2> QED BY <1>2, <2>1 DEF Sendable, Carriable
<1> QED BY <1>0, <1>1, <1>2

LEMMA WholeType ==
    ASSUME TypeOK, NEW m \in Carriable
    PROVE  Whole(m) \in Seq(Words) /\ BodyOf(m) \in Seq(BodyWords) /\ BodyOf(m) \in Seq(Words)
<1>0. kind \in {"framed", "raw"}
  BY LimitsAssumption DEF TypeOK
<1>1. CASE kind = "framed"
  <2>1. m \in Sendable
    BY <1>1 DEF Sendable, Carriable
  <2>2. <<HeaderOf(m)>> \in Seq(Words) /\ BodyOf(m) \in Seq(Words)
        /\ BodyOf(m) \in Seq(BodyWords)
    BY <1>1, <2>1, WordsType
  <2>3. <<HeaderOf(m)>> \o BodyOf(m) \in Seq(Words)
    BY <2>2
  <2> QED BY <1>1, <2>2, <2>3 DEF Whole
<1>2. CASE kind = "raw"
  <2>1. m.body \in Seq(Parts)
    BY <1>2 DEF Carriable, Frames
  <2>2. BodyOf(m) \in Seq(BodyWords)
    BY <2>1, BodyType
  <2>3. Words = BodyWords
    BY <1>2 DEF Words
  <2> QED BY <1>2, <2>2, <2>3 DEF Whole
<1> QED BY <1>0, <1>1, <1>2

Writes(F) == /\ Maps(F, Carriable, Words)
             /\ \A m \in Carriable : F[m] = Whole(m)
             /\ \A s \in Seq(Carriable) : WordsOf(s) = Mapped(F, s)

LEMMA WordsMapped == ASSUME TypeOK PROVE \E F : Writes(F)
<1> DEFINE F == [m \in Carriable |-> Whole(m)]
<1>1. Maps(F, Carriable, Words)
  <2>1. \A m \in Carriable : Whole(m) \in Seq(Words)
    BY WholeType
  <2> QED BY <2>1 DEF Maps
<1>2. \A m \in Carriable : F[m] = Whole(m)
  OBVIOUS
<1> HIDE DEF F
<1>3. ASSUME NEW s \in Seq(Carriable) PROVE WordsOf(s) = Mapped(F, s)
  <2>1. \A i \in DOMAIN s : F[s[i]] = Whole(s[i])
    BY <1>2
  <2>2. [i \in DOMAIN s |-> Whole(s[i])] = Each(F, s)
    BY <2>1 DEF Each
  <2> QED BY <2>2 DEF WordsOf, Mapped
<1> QED BY <1>1, <1>2, <1>3 DEF Writes

LEMMA WordsOfType ==
    ASSUME TypeOK, NEW q \in Seq(Carriable) PROVE WordsOf(q) \in Seq(Words)
<1>1. PICK F : Writes(F)
  BY WordsMapped
<1>2. Maps(F, Carriable, Words)
  BY <1>1 DEF Writes
<1>3. Mapped(F, q) \in Seq(Words)
  BY <1>2, MappedType
<1> QED BY <1>1, <1>3 DEF Writes

LEMMA WordsOfEmpty == WordsOf(<<>>) = <<>>
<1>1. [i \in DOMAIN <<>> |-> Whole(<<>>[i])] = <<>>
  OBVIOUS
<1> QED BY <1>1, FlattenEmpty DEF WordsOf

LEMMA WordsOfAppend ==
    ASSUME TypeOK, NEW q \in Seq(Carriable), NEW m \in Carriable
    PROVE  WordsOf(Append(q, m)) = WordsOf(q) \o Whole(m)
<1>1. PICK F : Writes(F)
  BY WordsMapped
<1>2. Maps(F, Carriable, Words)
  BY <1>1 DEF Writes
<1>3. Mapped(F, Append(q, m)) = Mapped(F, q) \o F[m]
  BY <1>2, MappedAppend
<1>4. Append(q, m) \in Seq(Carriable)
  OBVIOUS
<1> QED BY <1>1, <1>3, <1>4 DEF Writes

LEMMA WordsOfHead ==
    ASSUME TypeOK, NEW q \in Seq(Carriable), q # <<>>
    PROVE  WordsOf(q) = Whole(Head(q)) \o WordsOf(Tail(q))
<1>1. PICK F : Writes(F)
  BY WordsMapped
<1>2. Maps(F, Carriable, Words)
  BY <1>1 DEF Writes
<1>3. Mapped(F, q) = F[Head(q)] \o Mapped(F, Tail(q))
  BY <1>2, MappedHead
<1>4. Head(q) \in Carriable /\ Tail(q) \in Seq(Carriable)
  OBVIOUS
<1> QED BY <1>1, <1>3, <1>4 DEF Writes

-----------------------------------------------------------------------------
(* What an end has still to write.                                          *)

\* Of the message m, whose write is outstanding or finished.
LeftOf(m, outstanding, finished) ==
    IF outstanding # <<>>
    THEN Head(outstanding).words \o (IF Head(outstanding).op = "header" THEN BodyOf(m) ELSE <<>>)
    ELSE IF Head(finished) = "header" THEN BodyOf(m) ELSE <<>>

\* And of the messages behind it.
RemainingOf(q, outstanding, finished) ==
    IF q = <<>> THEN <<>>
    ELSE LeftOf(Head(q), outstanding, finished) \o WordsOf(Tail(q))

Remaining(e) == RemainingOf(m_qMessagesOut[e], MessagesWriting(e), MessagesDone(e))

LEMMA WordsKept ==
    ASSUME UNCHANGED kind, NEW q PROVE WordsOf(q)' = WordsOf(q) /\ Words' = Words
BY KindKept DEF WordsOf, Whole

LEMMA RemainingOfKept ==
    ASSUME UNCHANGED kind, NEW q, NEW o, NEW f
    PROVE  RemainingOf(q, o, f)' = RemainingOf(q, o, f)
BY WordsKept DEF RemainingOf, LeftOf

LEMMA RemainingKept ==
    ASSUME UNCHANGED kind, NEW e \in Ends, m_qMessagesOut'[e] = m_qMessagesOut[e],
           MessagesWriting(e)' = MessagesWriting(e), MessagesDone(e)' = MessagesDone(e)
    PROVE  Remaining(e)' = Remaining(e)
<1>1. PICK q, o, f : q = m_qMessagesOut[e] /\ o = MessagesWriting(e) /\ f = MessagesDone(e)
  OBVIOUS
<1>2. RemainingOf(q, o, f)' = RemainingOf(q, o, f)
  BY RemainingOfKept
<1> QED BY <1>1, <1>2 DEF Remaining

\* The write of a message is one of the operations.
LEMMA WritingType ==
    ASSUME TypeOK, NEW e \in Ends
    PROVE  MessagesWriting(e) \in Seq(Ops)
<1>1. Picked(writes[e], MessageWrites) \in Seq(Ops \cap MessageWrites)
  BY PickedType DEF TypeOK
<1>2. Seq(Ops \cap MessageWrites) \subseteq Seq(Ops)
  BY SeqMonotone
<1> QED BY <1>1, <1>2 DEF MessagesWriting

LEMMA LeftType ==
    ASSUME TypeOK, WritersOK, NEW e \in Ends, m_qMessagesOut[e] # <<>>
    PROVE  /\ LeftOf(Head(m_qMessagesOut[e]), MessagesWriting(e), MessagesDone(e)) \in Seq(Words)
           /\ WordsOf(Tail(m_qMessagesOut[e])) \in Seq(Words)
           /\ Head(m_qMessagesOut[e]) \in Sendable /\ Tail(m_qMessagesOut[e]) \in Seq(Sendable)
<1>1. PICK q \in Seq(Sendable) : q = m_qMessagesOut[e] /\ q # <<>>
  BY DEF TypeOK
<1>2. PICK m \in Sendable, rest \in Seq(Sendable) : m = Head(q) /\ rest = Tail(q)
  <2>1. Head(q) \in Sendable /\ Tail(q) \in Seq(Sendable)
    BY <1>1
  <2> QED BY <2>1
<1>3. rest \in Seq(Carriable)
  BY SentIsCarriable, SeqMonotone
<1>4. WordsOf(rest) \in Seq(Words)
  BY <1>3, WordsOfType
<1>5. BodyOf(m) \in Seq(Words)
  BY WordsType
<1>6. PICK o \in Seq(Ops) : o = MessagesWriting(e)
  BY WritingType
<1>7. LeftOf(m, o, MessagesDone(e)) \in Seq(Words)
  <2>1. PICK t \in Seq(Words) : t = (IF Head(o).op = "header" THEN BodyOf(m) ELSE <<>>)
    <3>1. <<>> \in Seq(Words)
      OBVIOUS
    <3> QED BY <1>5, <3>1
  <2>2. CASE o # <<>>
    <3>1. PICK s \in Seq(Words) : s = Head(o).words
      <4>1. Head(o) \in Ops
        BY <2>2
      <4> QED BY <4>1 DEF Ops
    <3>2. s \o t \in Seq(Words)
      OBVIOUS
    <3> QED BY <2>1, <2>2, <3>1, <3>2 DEF LeftOf
  <2>3. CASE o = <<>>
    <3>1. <<>> \in Seq(Words)
      OBVIOUS
    <3> QED BY <1>5, <2>3, <3>1 DEF LeftOf
  <2> QED BY <2>2, <2>3
<1> QED BY <1>1, <1>2, <1>4, <1>6, <1>7

LEMMA RemainingType ==
    ASSUME TypeOK, WritersOK, NEW e \in Ends PROVE Remaining(e) \in Seq(Words)
<1>1. CASE m_qMessagesOut[e] = <<>>
  <2>1. <<>> \in Seq(Words)
    OBVIOUS
  <2> QED BY <1>1, <2>1 DEF Remaining, RemainingOf
<1>2. CASE m_qMessagesOut[e] # <<>>
  <2>1. PICK s \in Seq(Words), t \in Seq(Words) :
            /\ s = LeftOf(Head(m_qMessagesOut[e]), MessagesWriting(e), MessagesDone(e))
            /\ t = WordsOf(Tail(m_qMessagesOut[e]))
    BY <1>2, LeftType
  <2>2. s \o t \in Seq(Words)
    OBVIOUS
  <2> QED BY <1>2, <2>1, <2>2 DEF Remaining, RemainingOf
<1> QED BY <1>1, <1>2

\* What is left of a message that is about to be written is the message.
LEMMA LeftWhole ==
    ASSUME TypeOK, NEW m \in Sendable, NEW f
    PROVE  LeftOf(m, <<WriteOf(m)>>, f) = Whole(m)
<1>0. kind \in {"framed", "raw"}
  BY LimitsAssumption DEF TypeOK
<1>1. PICK w : w = WriteOf(m)
  OBVIOUS
<1>2. <<w>> # <<>> /\ Head(<<w>>) = w
  OBVIOUS
<1>3. PICK b \in Seq(Words) : b = BodyOf(m)
  BY WordsType
<1>4. b \o <<>> = b
  BY ConcatEmptySeq
<1>5. CASE kind = "framed"
  <2>1. w.op = "header" /\ w.words = <<HeaderOf(m)>>
    BY <1>1, <1>5 DEF WriteOf
  <2> QED BY <1>1, <1>2, <1>5, <2>1 DEF LeftOf, Whole
<1>6. CASE kind = "raw"
  <2>1. w.op = "raw" /\ w.words = b
    BY <1>1, <1>3, <1>6 DEF WriteOf
  <2> QED BY <1>1, <1>2, <1>3, <1>4, <1>6, <2>1 DEF LeftOf, Whole
<1> QED BY <1>0, <1>5, <1>6

-----------------------------------------------------------------------------
(* More about the part of a queue that is in a set.                         *)

LEMMA PickedConcat ==
    ASSUME NEW A, NEW S, NEW s \in Seq(A), NEW t \in Seq(A)
    PROVE  Picked(s \o t, S) = Picked(s, S) \o Picked(t, S)
<1>1. PICK F, B : Picks(F, A, S) /\ B = A \cap S
  BY PickedMapped
<1>2. Mapped(F, s \o t) = Mapped(F, s) \o Mapped(F, t)
  <2>1. Maps(F, A, B)
    BY <1>1 DEF Picks
  <2> QED BY <2>1, MappedConcat
<1>3. s \o t \in Seq(A)
  BY Elements
<1> QED BY <1>1, <1>2, <1>3 DEF Picks

LEMMA PickedNothing ==
    ASSUME NEW A, NEW S, NEW s \in Seq(A), A \cap S = {} PROVE Picked(s, S) = <<>>
<1>1. PICK E : E = A \cap S
  OBVIOUS
<1>2. PICK t \in Seq(E) : t = Picked(s, S)
  <2>1. Picked(s, S) \in Seq(A \cap S)
    BY PickedType
  <2> QED BY <1>1, <2>1
<1>3. t = <<>>
  BY <1>1, <1>2, EmptySeq
<1> QED BY <1>2, <1>3

LEMMA PickedAll ==
    ASSUME NEW A, NEW S, A \subseteq S, NEW s \in Seq(A) PROVE Picked(s, S) = s
<1> DEFINE T == {n \in Nat : \A t \in Seq(A) : Len(t) = n => Picked(t, S) = t}
<1>1. 0 \in T
  <2> SUFFICES ASSUME NEW t \in Seq(A), Len(t) = 0 PROVE Picked(t, S) = t
    OBVIOUS
  <2>1. t = <<>>
    BY EmptySeq
  <2> QED BY <2>1, PickedEmpty
<1>2. ASSUME NEW n \in Nat, n \in T PROVE n + 1 \in T
  <2> SUFFICES ASSUME NEW t \in Seq(A), Len(t) = n + 1 PROVE Picked(t, S) = t
    OBVIOUS
  <2>1. t # <<>>
    BY <1>2
  <2>2. PICK a \in A, r \in Seq(A) : a = Head(t) /\ r = Tail(t) /\ t = <<a>> \o r /\ Len(r) = n
    <3>1. /\ Head(t) \in A /\ Tail(t) \in Seq(A) /\ t = <<Head(t)>> \o Tail(t)
          /\ Len(Tail(t)) = n
      BY <1>2, <2>1
    <3> QED BY <3>1
  <2>3. Picked(r, S) = r
    BY <1>2, <2>2
  <2>4. /\ Picked(t, S) # <<>> /\ Head(Picked(t, S)) = a /\ Tail(Picked(t, S)) = r
    BY <2>1, <2>2, <2>3, PickedHead
  <2>5. PICK u \in Seq(A) : u = Picked(t, S)
    <3>1. Picked(t, S) \in Seq(A \cap S) /\ Seq(A \cap S) \subseteq Seq(A)
      BY PickedType, SeqMonotone
    <3> QED BY <3>1
  <2>6. u = <<Head(u)>> \o Tail(u)
    BY <2>4, <2>5
  <2> QED BY <2>2, <2>4, <2>5, <2>6
<1> HIDE DEF T
<1>3. Nat \subseteq T
  BY <1>1, <1>2, Induction
<1> QED BY <1>3 DEF T

\* Of a queue without elements of a set, the part outside it is all.
LEMMA PickedRest ==
    ASSUME NEW A, NEW S, NEW s \in Seq(A), Picked(s, S) = <<>>
    PROVE  s \in Seq(A \ S) /\ Picked(s, A \ S) = s
<1> DEFINE T == {n \in Nat : \A t \in Seq(A) :
                    Len(t) = n /\ Picked(t, S) = <<>> => t \in Seq(A \ S)}
<1>1. 0 \in T
  <2> SUFFICES ASSUME NEW t \in Seq(A), Len(t) = 0 PROVE t \in Seq(A \ S)
    OBVIOUS
  <2>1. t = <<>>
    BY EmptySeq
  <2> QED BY <2>1
<1>2. ASSUME NEW n \in Nat, n \in T PROVE n + 1 \in T
  <2> SUFFICES ASSUME NEW t \in Seq(A), Len(t) = n + 1, Picked(t, S) = <<>>
               PROVE  t \in Seq(A \ S)
    OBVIOUS
  <2>1. t # <<>>
    BY <1>2
  <2>2. PICK a \in A, r \in Seq(A) : a = Head(t) /\ r = Tail(t) /\ t = <<a>> \o r /\ Len(r) = n
    <3>1. /\ Head(t) \in A /\ Tail(t) \in Seq(A) /\ t = <<Head(t)>> \o Tail(t)
          /\ Len(Tail(t)) = n
      BY <1>2, <2>1
    <3> QED BY <3>1
  <2>3. a \notin S /\ Picked(r, S) = <<>>
    BY <2>1, <2>2, PickedHead
  <2>4. PICK C : C = A \ S
    OBVIOUS
  <2>5. r \in Seq(C) /\ <<a>> \in Seq(C)
    <3>1. r \in Seq(A \ S)
      BY <1>2, <2>2, <2>3
    <3>2. a \in C
      BY <2>2, <2>3, <2>4
    <3>3. <<a>> \in Seq(C)
      BY <3>2
    <3> QED BY <2>4, <3>1, <3>3
  <2>6. <<a>> \o r \in Seq(C)
    BY <2>5, Elements
  <2> QED BY <2>2, <2>4, <2>6
<1> HIDE DEF T
<1>3. Nat \subseteq T
  BY <1>1, <1>2, Induction
<1>4. PICK C : C = A \ S
  OBVIOUS
<1>5. s \in Seq(C)
  BY <1>3, <1>4 DEF T
<1> QED BY <1>4, <1>5, PickedAll

-----------------------------------------------------------------------------
(* What the steps do to it.                                                 *)

LEMMA RemainingAfter ==
    ASSUME UNCHANGED kind, NEW e \in Ends, NEW q, NEW o, NEW f,
           m_qMessagesOut'[e] = q, MessagesWriting(e)' = o, MessagesDone(e)' = f
    PROVE  Remaining(e)' = RemainingOf(q, o, f)
<1>1. RemainingOf(q, o, f)' = RemainingOf(q, o, f)
  BY RemainingOfKept
<1> QED BY <1>1 DEF Remaining

LEMMA RemainingParts ==
    ASSUME NEW q, q # <<>>, NEW o, NEW f
    PROVE  RemainingOf(q, o, f) = LeftOf(Head(q), o, f) \o WordsOf(Tail(q))
BY DEF RemainingOf

\* A step of the write of a message takes x from the front.
LEMMA RemainingMoves ==
    ASSUME TypeOK, WritersOK, UNCHANGED <<kind, m_qMessagesOut>>, NEW e \in Ends, IsConnected(e),
           NEW w \in Ops, NEW x \in Seq(Words), NEW y \in Seq(Words), Moves(e, w, x, y)
    PROVE  /\ w.op \in MessageOps =>
                  \E r \in Seq(Words) : Remaining(e) = x \o r /\ Remaining(e)' = r
           /\ w.op \notin MessageOps => Remaining(e)' = Remaining(e)
<1>1. ASSUME w.op \notin MessageOps PROVE Remaining(e)' = Remaining(e)
  <2>1. MessagesWriting(e)' = MessagesWriting(e) /\ MessagesDone(e)' = MessagesDone(e)
    BY <1>1, MessageMoves
  <2> QED BY <2>1, RemainingKept
<1>2. ASSUME w.op \in MessageOps
      PROVE  \E r \in Seq(Words) : Remaining(e) = x \o r /\ Remaining(e)' = r
  <2>1. /\ m_qMessagesOut[e] # <<>> /\ MessagesWriting(e) = <<w>>
        /\ \/ /\ y # <<>>
              /\ MessagesWriting(e)' = <<[op |-> w.op, words |-> y]>>
           \/ y = <<>> /\ MessagesWriting(e)' = <<>> /\ MessagesDone(e)' = <<w.op>>
    BY <1>2, MessageMoves
  <2>2. PICK q : q = m_qMessagesOut[e] /\ m_qMessagesOut'[e] = q /\ q # <<>>
    BY <2>1
  <2>3. PICK m \in Sendable, t \in Seq(Words) : m = Head(q) /\ t = WordsOf(Tail(q))
    BY <2>1, <2>2, LeftType
  <2>4. PICK b \in Seq(Words) : b = (IF w.op = "header" THEN BodyOf(m) ELSE <<>>)
    <3>1. <<>> \in Seq(Words) /\ BodyOf(m) \in Seq(Words)
      BY WordsType
    <3> QED BY <3>1
  <2>5. Head(<<w>>) = w /\ <<w>> # <<>> /\ w.words = x \o y
    <3>1. Head(<<w>>) = w /\ <<w>> # <<>>
      OBVIOUS
    <3>2. w.words = x \o y
      BY DEF Moves
    <3> QED BY <3>1, <3>2
  <2>6. Remaining(e) = ((x \o y) \o b) \o t
    <3>1. PICK f : f = MessagesDone(e)
      OBVIOUS
    <3>2. LeftOf(m, <<w>>, f) = (x \o y) \o b
      BY <2>4, <2>5 DEF LeftOf
    <3> QED BY <2>1, <2>2, <2>3, <3>1, <3>2 DEF Remaining, RemainingOf
  <2>7. CASE y # <<>>
    <3>1. PICK z : z = [op |-> w.op, words |-> y] /\ MessagesWriting(e)' = <<z>>
      BY <2>1, <2>7
    <3>2. Head(<<z>>) = z /\ <<z>> # <<>> /\ z.op = w.op /\ z.words = y
      BY <3>1
    <3>3. PICK f : f = MessagesDone(e)'
      OBVIOUS
    <3>4. Remaining(e)' = RemainingOf(q, <<z>>, f)
      BY <2>2, <3>1, <3>3, RemainingAfter
    <3>5. Remaining(e)' = (y \o b) \o t
      <4>1. LeftOf(m, <<z>>, f) = y \o b
        BY <2>4, <3>2 DEF LeftOf
      <4>2. RemainingOf(q, <<z>>, f) = LeftOf(Head(q), <<z>>, f) \o WordsOf(Tail(q))
        BY <2>2, RemainingParts
      <4> QED BY <2>3, <3>4, <4>1, <4>2
    <3>6. PICK v \in Seq(Words) : v = y \o b
      BY Elements
    <3>7. v \o t \in Seq(Words)
      BY Elements
    <3>8. (x \o y) \o b = x \o v
      <4>1. Grouped(x, y, b)
        BY Associates
      <4> QED BY <3>6, <4>1 DEF Grouped
    <3>9. (x \o v) \o t = x \o (v \o t)
      <4>1. Grouped(x, v, t)
        BY Associates
      <4> QED BY <4>1 DEF Grouped
    <3> QED BY <2>6, <3>5, <3>6, <3>7, <3>8, <3>9
  <2>8. CASE y = <<>> /\ MessagesWriting(e)' = <<>> /\ MessagesDone(e)' = <<w.op>>
    <3>1. Remaining(e)' = RemainingOf(q, <<>>, <<w.op>>)
      BY <2>2, <2>8, RemainingAfter
    <3>2. Head(<<w.op>>) = w.op
      OBVIOUS
    <3>3. Remaining(e)' = b \o t
      BY <2>2, <2>3, <2>4, <3>1, <3>2 DEF RemainingOf, LeftOf
    <3>4. x \o y = x
      BY <2>8, ConcatEmptySeq
    <3>5. (x \o b) \o t = x \o (b \o t)
      <4>1. Grouped(x, b, t)
        BY Associates
      <4> QED BY <4>1 DEF Grouped
    <3>6. b \o t \in Seq(Words)
      OBVIOUS
    <3> QED BY <2>6, <3>3, <3>4, <3>5, <3>6
  <2> QED BY <2>1, <2>7, <2>8
<1> QED BY <1>1, <1>2

\* What is left when nothing of the message in front is.
LEMMA RemainingBehind ==
    ASSUME TypeOK, NEW q, q # <<>>, Tail(q) \in Seq(Sendable), NEW o, NEW f,
           LeftOf(Head(q), o, f) = <<>>
    PROVE  RemainingOf(q, o, f) = WordsOf(Tail(q))
<1>1. Tail(q) \in Seq(Carriable)
  BY SentIsCarriable, SeqMonotone
<1>2. PICK t \in Seq(Words) : t = WordsOf(Tail(q))
  BY <1>1, WordsOfType
<1>3. <<>> \o t = t
  BY ConcatEmptySeq
<1> QED BY <1>2, <1>3 DEF RemainingOf

\* And when the message in front has just begun.
LEMMA RemainingWhole ==
    ASSUME TypeOK, NEW q \in Seq(Sendable), q # <<>>, NEW f
    PROVE  RemainingOf(q, <<WriteOf(Head(q))>>, f) = WordsOf(q)
<1>1. Head(q) \in Sendable
  OBVIOUS
<1>2. LeftOf(Head(q), <<WriteOf(Head(q))>>, f) = Whole(Head(q))
  BY <1>1, LeftWhole
<1>3. q \in Seq(Carriable)
  BY SentIsCarriable, SeqMonotone
<1> QED BY <1>2, <1>3, WordsOfHead DEF RemainingOf

LEMMA RemainingNext ==
    ASSUME TypeOK, WritersOK, UNCHANGED kind, NEW e \in Ends, NEW names,
           names \subseteq MessageOps, Finished(e, names), WriteNext(e),
           Head(done[e]) = "header" => BodyOf(Head(m_qMessagesOut[e])) = <<>>
    PROVE  Remaining(e)' = Remaining(e)
<1>1. PICK q, rest : q = m_qMessagesOut[e] /\ rest = Tail(q)
  OBVIOUS
<1>2. /\ q # <<>> /\ Head(q) \in Sendable /\ rest \in Seq(Sendable)
      /\ m_qMessagesOut'[e] = rest
      /\ MessagesWriting(e) = <<>> /\ MessagesDone(e) = <<Head(done[e])>>
      /\ rest = <<>> => MessagesWriting(e)' = <<>>
      /\ rest # <<>> => \E w : w = WriteOf(Head(rest)) /\ MessagesWriting(e)' = <<w>>
  BY <1>1, NextWritten
<1>3. PICK n : n = Head(done[e])
  OBVIOUS
<1>4. Head(<<n>>) = n
  OBVIOUS
<1>5. LeftOf(Head(q), <<>>, <<n>>) = <<>>
  BY <1>1, <1>3, <1>4 DEF LeftOf
<1>6. Remaining(e) = WordsOf(rest)
  <2>1. RemainingOf(q, <<>>, <<n>>) = WordsOf(Tail(q))
    BY <1>1, <1>2, <1>5, RemainingBehind
  <2> QED BY <1>1, <1>2, <1>3, <2>1 DEF Remaining
<1>7. PICK f : f = MessagesDone(e)'
  OBVIOUS
<1>8. CASE rest = <<>>
  <2>1. Remaining(e)' = RemainingOf(<<>>, <<>>, f)
    BY <1>2, <1>7, <1>8, RemainingAfter
  <2> QED BY <1>6, <1>8, <2>1, WordsOfEmpty DEF RemainingOf
<1>9. CASE rest # <<>>
  <2>1. PICK w : w = WriteOf(Head(rest)) /\ MessagesWriting(e)' = <<w>>
    BY <1>2, <1>9
  <2>2. Remaining(e)' = RemainingOf(rest, <<w>>, f)
    BY <1>2, <1>7, <2>1, RemainingAfter
  <2>3. RemainingOf(rest, <<WriteOf(Head(rest))>>, f) = WordsOf(rest)
    BY <1>2, <1>9, RemainingWhole
  <2> QED BY <1>6, <2>1, <2>2, <2>3
<1> QED BY <1>8, <1>9

LEMMA RemainingWritten ==
    ASSUME TypeOK, WritersOK, UNCHANGED kind, NEW e \in Ends,
           HeaderWritten(e) \/ BodyWritten(e) \/ RawWritten(e)
    PROVE  Remaining(e)' = Remaining(e)
<1>1. ASSUME NEW names, names \subseteq MessageOps, Finished(e, names)
      PROVE  /\ m_qMessagesOut[e] # <<>> /\ Head(m_qMessagesOut[e]) \in Sendable
  BY <1>1, FinishedFirst
<1>2. CASE BodyWritten(e) \/ RawWritten(e)
  <2>1. PICK names : names \in {{"body"}, {"raw"}} /\ Finished(e, names) /\ WriteNext(e)
    BY <1>2 DEF BodyWritten, RawWritten
  <2>2. Head(done[e]) # "header" /\ names \subseteq MessageOps
    BY <2>1 DEF Finished, MessageOps
  <2> QED BY <2>1, <2>2, RemainingNext
<1>3. CASE HeaderWritten(e)
  <2>1. Finished(e, {"header"}) /\ {"header"} \subseteq MessageOps
    BY <1>3 DEF HeaderWritten, MessageOps
  <2>2. PICK m \in Sendable : m = Head(m_qMessagesOut[e])
    BY <1>1, <2>1
  <2>3. BodyOf(m) \in Seq(Words) /\ m.body \in Seq(Parts) /\ Len(BodyOf(m)) = Len(m.body)
    BY WordsType
  <2>4. CASE m.body = <<>>
    <3>1. WriteNext(e)
      BY <1>3, <2>2, <2>4 DEF HeaderWritten
    <3>2. BodyOf(m) = <<>>
      BY <2>3, <2>4, EmptySeq
    <3> QED BY <2>1, <2>2, <3>1, <3>2, RemainingNext
  <2>5. CASE m.body # <<>>
    <3>1. WriteBody(e) /\ UNCHANGED m_qMessagesOut
      BY <1>3, <2>2, <2>5 DEF HeaderWritten
    <3>2. PICK b \in Seq(Words) : b = BodyOf(m)
      BY <2>3
    <3>3. PICK z : z = [op |-> "body", words |-> b]
      OBVIOUS
    <3>4. /\ m_qMessagesOut[e] # <<>> /\ MessagesWriting(e) = <<>>
          /\ MessagesDone(e) = <<"header">> /\ MessagesWriting(e)' = <<z>>
      BY <2>1, <2>2, <2>5, <3>1, <3>2, <3>3, BodyBegins
    <3>5. PICK q, f : q = m_qMessagesOut[e] /\ f = MessagesDone(e)'
      OBVIOUS
    <3>6. Remaining(e)' = RemainingOf(q, <<z>>, f)
      BY <3>1, <3>4, <3>5, RemainingAfter
    <3>7. /\ Head(<<z>>) = z /\ <<z>> # <<>> /\ z.op = "body" /\ z.words = b
          /\ Head(<<"header">>) = "header"
      BY <3>3
    <3>8. b \o <<>> = b
      BY ConcatEmptySeq
    <3>9. LeftOf(m, <<z>>, f) = b /\ LeftOf(m, <<>>, <<"header">>) = b
      BY <3>2, <3>7, <3>8 DEF LeftOf
    <3> QED BY <2>2, <3>4, <3>5, <3>6, <3>9 DEF Remaining, RemainingOf
  <2> QED BY <2>4, <2>5
<1> QED BY <1>2, <1>3

\* A message queued on a connection comes behind what is left.
LEMMA RemainingQueued ==
    ASSUME TypeOK, WritersOK, UNCHANGED kind, NEW e \in Ends, IsConnected(e),
           NEW m \in Sendable, Queues(e, m)
    PROVE  Remaining(e)' = Remaining(e) \o Whole(m)
<1>1. PICK q \in Seq(Sendable) : q = m_qMessagesOut[e]
  BY DEF TypeOK
<1>2. m_qMessagesOut'[e] = Append(q, m) /\ WriterOK(e) /\ done' = done
  BY <1>1 DEF TypeOK, Queues, WritersOK
<1>3. PICK f : f = MessagesDone(e)'
  OBVIOUS
<1>4. m \in Carriable
  BY SentIsCarriable
<1>5. PICK x \in Seq(Words) : x = Whole(m)
  BY <1>4, WholeType
<1>6. CASE q = <<>>
  <2>1. WriteMsg(e, m) /\ MessagesWriting(e) = <<>>
    BY <1>1, <1>2, <1>6 DEF Queues, WriterOK, OneWrite
  <2>2. PICK w : w = WriteOf(m) /\ MessagesWriting(e)' = <<w>>
    BY <2>1, WriteMsgOne
  <2>3. PICK r \in Seq(Sendable) : r = Append(q, m) /\ r # <<>> /\ Head(r) = m
    <3>1. Append(q, m) = <<m>>
      BY <1>6
    <3>2. <<m>> \in Seq(Sendable) /\ <<m>> # <<>> /\ Head(<<m>>) = m
      OBVIOUS
    <3> QED BY <3>1, <3>2
  <2>4. Remaining(e)' = RemainingOf(r, <<w>>, f)
    BY <1>2, <1>3, <2>2, <2>3, RemainingAfter
  <2>5. Remaining(e)' = WordsOf(r)
    BY <2>2, <2>3, <2>4, RemainingWhole
  <2>6. WordsOf(r) = WordsOf(q) \o x
    <3>1. q \in Seq(Carriable)
      BY SentIsCarriable, SeqMonotone
    <3> QED BY <1>4, <1>5, <2>3, <3>1, WordsOfAppend
  <2>7. Remaining(e) = <<>>
    BY <1>1, <1>6 DEF Remaining, RemainingOf
  <2> QED BY <1>5, <1>6, <2>5, <2>6, <2>7, WordsOfEmpty
<1>7. CASE q # <<>>
  <2>1. writes' = writes
    BY <1>1, <1>7 DEF Queues
  <2>2. PICK o : o = MessagesWriting(e) /\ MessagesWriting(e)' = o
    BY <2>1, KindKept DEF MessagesWriting
  <2>3. f = MessagesDone(e)
    BY <1>2, <1>3 DEF MessagesDone
  <2>4. PICK a \in Sendable, t \in Seq(Sendable) : a = Head(q) /\ t = Tail(q)
    <3>1. Head(q) \in Sendable /\ Tail(q) \in Seq(Sendable)
      BY <1>7
    <3> QED BY <3>1
  <2>5. PICK r : /\ r = Append(q, m) /\ r # <<>> /\ Head(r) = a /\ Tail(r) = Append(t, m)
    <3>1. /\ Append(q, m) # <<>> /\ Head(Append(q, m)) = Head(q)
          /\ Tail(Append(q, m)) = Append(Tail(q), m)
      BY <1>7
    <3> QED BY <2>4, <3>1
  <2>6. Remaining(e)' = RemainingOf(r, o, f)
    BY <1>2, <1>3, <2>2, <2>5, RemainingAfter
  <2>7. t \in Seq(Carriable)
    BY SentIsCarriable, SeqMonotone
  <2>8. WordsOf(Append(t, m)) = WordsOf(t) \o x
    BY <1>4, <1>5, <2>7, WordsOfAppend
  <2>9. PICK u \in Seq(Words), v \in Seq(Words) : u = LeftOf(a, o, f) /\ v = WordsOf(t)
    <3>1. LeftOf(a, o, f) \in Seq(Words) /\ WordsOf(t) \in Seq(Words)
      BY <1>1, <1>7, <2>2, <2>3, <2>4, LeftType
    <3> QED BY <3>1
  <2>10. Remaining(e) = u \o v
    BY <1>1, <1>7, <2>2, <2>3, <2>4, <2>9 DEF Remaining, RemainingOf
  <2>11. Remaining(e)' = u \o (v \o x)
    BY <2>5, <2>6, <2>8, <2>9 DEF RemainingOf
  <2>12. u \o (v \o x) = (u \o v) \o x
    <3>1. Grouped(u, v, x)
      BY Associates
    <3> QED BY <3>1 DEF Grouped
  <2> QED BY <1>5, <2>10, <2>11, <2>12
<1> QED BY <1>6, <1>7

-----------------------------------------------------------------------------
(* Numbers of the handshake, and words of messages.                         *)

Numbers == {Nonce, Proof, Garbage}
Speech == Words \ Numbers

Handshake == {"challenge", "response", "notify"}
NumberOps == [op : Handshake, words : {<<n>> : n \in Numbers}]
SpeechOps == [op : MessageOps, words : Seq(Speech)]

\* An outstanding write is of one number, or of words of messages.
Utters == \A e \in Ends : writes[e] \in Seq(SpeechOps \cup NumberOps)

LEMMA SpeechKept ==
    ASSUME UNCHANGED kind PROVE Speech' = Speech /\ SpeechOps' = SpeechOps
BY KindKept DEF Speech, SpeechOps

LEMMA Apart ==
    /\ Numbers \cap Speech = {} /\ BodyWords \subseteq Speech
    /\ \A w \in SpeechOps : w \notin NumberOps /\ w.op \in MessageOps /\ w.words \in Seq(Speech)
    /\ \A w \in NumberOps : /\ w \notin SpeechOps /\ w.op \notin MessageOps
                            /\ \E n \in Numbers : w.words = <<n>>
<1>1. BodyWords \subseteq Words /\ BodyWords \cap Numbers = {}
  BY DEF Words, BodyWords, Numbers, Nonce, Proof, Garbage
<1>2. MessageOps \cap Handshake = {}
  BY DEF MessageOps, Handshake
<1> QED BY <1>1, <1>2 DEF Speech, SpeechOps, NumberOps

LEMMA HeaderSpeaks ==
    ASSUME kind = "framed", NEW m \in Msgs PROVE HeaderOf(m) \in Speech
BY DEF Speech, Words, Numbers, HeaderOf, Nonce, Proof, Garbage

\* A write begins.
Begins(e, w) == writes' = [writes EXCEPT ![e] = Append(@, w)]

LEMMA WriteMsgBegins ==
    ASSUME TypeOK, NEW e \in Ends, NEW m \in Sendable, WriteMsg(e, m)
    PROVE  \E w \in SpeechOps : Begins(e, w)
<1>0. kind \in {"framed", "raw"}
  BY LimitsAssumption DEF TypeOK
<1>1. CASE kind = "framed"
  <2>1. HeaderOf(m) \in Speech
    BY <1>1, HeaderSpeaks DEF Sendable
  <2>2. PICK h \in Seq(Speech) : h = <<HeaderOf(m)>>
    <3>1. <<HeaderOf(m)>> \in Seq(Speech)
      BY <2>1
    <3> QED BY <3>1
  <2>3. [op |-> "header", words |-> h] \in SpeechOps
    BY <2>2 DEF SpeechOps, MessageOps
  <2> QED BY <1>1, <2>2, <2>3 DEF WriteMsg, WriteHeader, Start, Begins
<1>2. CASE kind = "raw"
  <2>1. BodyOf(m) \in Seq(Speech)
    BY WordsType, Apart, SeqMonotone
  <2>2. [op |-> "raw", words |-> BodyOf(m)] \in SpeechOps
    BY <2>1 DEF SpeechOps, MessageOps
  <2> QED BY <1>2, <2>2 DEF WriteMsg, WriteRaw, Start, Begins
<1> QED BY <1>0, <1>1, <1>2

\* The handler of a message's write takes its name from done, and begins
\* the next one.
LEMMA WrittenBegins ==
    ASSUME TypeOK, WritersOK, NEW e \in Ends, HeaderWritten(e) \/ BodyWritten(e) \/ RawWritten(e)
    PROVE  /\ UNCHANGED <<socket, wire, reading, m_msgTemporaryIn, m_nValidationOut, validated,
                          received, posted, accepted>>
           /\ done[e] # <<>> /\ Head(done[e]) \in MessageOps
           /\ done' = [done EXCEPT ![e] = Tail(@)]
           /\ UNCHANGED writes \/ \E w \in SpeechOps : Begins(e, w)
<1>1. PICK names \in SUBSET MessageOps : Finished(e, names)
  BY DEF HeaderWritten, BodyWritten, RawWritten, MessageOps
<1>2. /\ m_qMessagesOut[e] # <<>> /\ Head(m_qMessagesOut[e]) \in Sendable
      /\ Tail(m_qMessagesOut[e]) \in Seq(Sendable)
  BY <1>1, FinishedFirst
<1>3. UNCHANGED writes \/ \E w \in SpeechOps : Begins(e, w)
  <2>1. CASE WriteNext(e)
    <3>1. PICK rest \in Seq(Sendable) : rest = Tail(m_qMessagesOut[e])
      BY <1>2
    <3>2. CASE rest = <<>>
      BY <2>1, <3>1, <3>2 DEF WriteNext
    <3>3. CASE rest # <<>>
      <4>1. Head(rest) \in Sendable /\ WriteMsg(e, Head(rest))
        BY <2>1, <3>1, <3>3 DEF WriteNext
      <4> QED BY <4>1, WriteMsgBegins
    <3> QED BY <3>2, <3>3
  <2>2. CASE WriteBody(e)
    <3>1. PICK m \in Sendable : m = Head(m_qMessagesOut[e])
      BY <1>2
    <3>2. BodyOf(m) \in Seq(Speech)
      BY WordsType, Apart, SeqMonotone
    <3>3. [op |-> "body", words |-> BodyOf(m)] \in SpeechOps
      BY <3>2 DEF SpeechOps, MessageOps
    <3> QED BY <2>2, <3>1, <3>3 DEF WriteBody, Start, Begins
  <2> QED BY <2>1, <2>2 DEF HeaderWritten, BodyWritten, RawWritten
<1>4. UNCHANGED reading
  BY DEF HeaderWritten, BodyWritten, RawWritten
<1> QED BY <1>1, <1>3, <1>4 DEF Finished, userVars

LEMMA UttersBegin ==
    ASSUME Utters, TypeOK, UNCHANGED kind, NEW e \in Ends, NEW w \in SpeechOps \cup NumberOps,
           Begins(e, w)
    PROVE  Utters'
<1>1. SpeechOps' = SpeechOps
  BY SpeechKept
<1>2. PICK C : C = SpeechOps \cup NumberOps
  OBVIOUS
<1>3. ASSUME NEW d \in Ends PROVE writes'[d] \in Seq(C)
  <2>1. PICK s \in Seq(C) : s = writes[d]
    BY <1>2 DEF Utters
  <2>2. Append(s, w) \in Seq(C)
    BY <1>2
  <2>3. writes'[d] = s \/ writes'[d] = Append(s, w)
    BY <2>1 DEF Begins, TypeOK
  <2> QED BY <2>2, <2>3
<1> QED BY <1>1, <1>2, <1>3 DEF Utters

LEMMA UttersLess ==
    ASSUME Utters, TypeOK, UNCHANGED kind,
           \A e \in Ends : \/ writes'[e] = writes[e] \/ writes'[e] = <<>>
                           \/ writes[e] # <<>> /\ writes'[e] = Tail(writes[e])
    PROVE  Utters'
<1>1. SpeechOps' = SpeechOps
  BY SpeechKept
<1>2. PICK C : C = SpeechOps \cup NumberOps
  OBVIOUS
<1>3. <<>> \in Seq(C)
  OBVIOUS
<1>4. ASSUME NEW d \in Ends PROVE writes'[d] \in Seq(C)
  <2>1. PICK s \in Seq(C) : s = writes[d]
    BY <1>2 DEF Utters
  <2>2. s # <<>> => Tail(s) \in Seq(C)
    OBVIOUS
  <2> QED BY <1>3, <2>1, <2>2
<1> QED BY <1>1, <1>2, <1>4 DEF Utters

\* The words of one step of a write.
LEMMA MovesKind ==
    ASSUME Utters, NEW e \in Ends,
           NEW w \in Ops, NEW x \in Seq(Words), NEW y \in Seq(Words), Moves(e, w, x, y)
    PROVE  \/ w \in SpeechOps /\ x \in Seq(Speech) /\ [op |-> w.op, words |-> y] \in SpeechOps
           \/ w \in NumberOps /\ y = <<>> /\ \E n \in Numbers : x = <<n>>
<1>1. w \in SpeechOps \cup NumberOps
  <2>1. PICK C : C = SpeechOps \cup NumberOps
    OBVIOUS
  <2>2. PICK s \in Seq(C) : s = writes[e] /\ s # <<>>
    BY <2>1 DEF Utters, Moves
  <2>3. Head(s) \in C
    BY <2>2
  <2> QED BY <2>1, <2>2, <2>3 DEF Moves
<1>2. w.words = x \o y
  BY DEF Moves
<1>3. CASE w \in SpeechOps
  <2>1. w.op \in MessageOps /\ x \o y \in Seq(Speech)
    BY <1>2, <1>3, Apart
  <2>2. x \in Seq(Speech) /\ y \in Seq(Speech)
    BY <2>1, FirstPart, SecondPart
  <2> QED BY <1>3, <2>1, <2>2 DEF SpeechOps
<1>4. CASE w \in NumberOps
  <2>1. PICK n \in Numbers : w.words = <<n>>
    BY <1>4, Apart
  <2>2. Len(x) = 1 /\ x # <<>> /\ Tail(x) = <<>> /\ x = <<Head(x)>>
    <3>1. w.words # <<>>
      BY <2>1
    <3>2. Len(x) = 1
      BY <3>1 DEF Moves
    <3> QED BY <3>2, OnlyOne
  <2>3. <<n>> = x \o y
    BY <1>2, <2>1
  <2>4. Len(y) = 0 /\ Head(x) = n
    <3>1. PICK u : u = <<n>> /\ Len(u) = 1 /\ u[1] = n
      <4>1. Len(<<n>>) = 1 /\ <<n>>[1] = n
        OBVIOUS
      <4> QED BY <4>1
    <3>2. Len(x \o y) = Len(x) + Len(y) /\ (x \o y)[1] = x[1]
      BY <2>2, Elements
    <3>3. Len(y) \in Nat
      OBVIOUS
    <3> QED BY <2>2, <2>3, <3>1, <3>2, <3>3
  <2> QED BY <1>4, <2>2, <2>4, EmptySeq
<1> QED BY <1>1, <1>3, <1>4

LEMMA UttersMoves ==
    ASSUME Utters, TypeOK, UNCHANGED kind, NEW e \in Ends, Transfer(e)
    PROVE  Utters'
<1>1. PICK w \in Ops, x \in Seq(Words), y \in Seq(Words) : Moves(e, w, x, y)
  BY TransferMoves
<1>2. PICK C : C = SpeechOps \cup NumberOps
  OBVIOUS
<1>3. PICK s \in Seq(C) : s = writes[e] /\ s # <<>>
  BY <1>1, <1>2 DEF Utters, Moves
<1>4. PICK r \in Seq(C) : r = Tail(s)
  <2>1. Tail(s) \in Seq(C)
    BY <1>3
  <2> QED BY <2>1
<1>5. PICK z : z = [op |-> w.op, words |-> y]
  OBVIOUS
<1>6. y # <<>> => Append(r, z) \in Seq(C)
  <2>1. y # <<>> => z \in C
    BY <1>1, <1>2, <1>5, MovesKind
  <2> QED BY <2>1
<1>7. writes'[e] \in Seq(C)
  BY <1>1, <1>3, <1>4, <1>5, <1>6 DEF Moves, TypeOK
<1>8. ASSUME NEW d \in Ends, d # e PROVE writes'[d] \in Seq(C)
  <2>1. writes'[d] = writes[d]
    BY <1>1, <1>8 DEF Moves, TypeOK
  <2> QED BY <1>2, <2>1 DEF Utters
<1>9. SpeechOps' = SpeechOps
  BY SpeechKept
<1> QED BY <1>2, <1>7, <1>8, <1>9 DEF Utters

LEMMA NumberBegins ==
    ASSUME NEW e \in Ends, NEW name \in Handshake, NEW n \in Numbers, Start(e, name, <<n>>)
    PROVE  \E w \in NumberOps : w.op = name /\ w.words = <<n>> /\ Begins(e, w)
<1>1. PICK w : w = [op |-> name, words |-> <<n>>]
  OBVIOUS
<1>2. w \in NumberOps
  BY <1>1 DEF NumberOps
<1> QED BY <1>1, <1>2 DEF Start, Begins

LEMMA ReadChallengeBegins ==
    ASSUME TypeOK, ReadChallenge
    PROVE  \E w \in NumberOps : w.op = "response" /\ Begins("client", w)
<1>1. m_nValidationOut' \in Numbers /\ "response" \in Handshake /\ "client" \in Ends
  BY DEF ReadChallenge, CalculateValidation, Numbers, Handshake, Ends
<1>2. Start("client", "response", <<m_nValidationOut'>>)
  BY DEF ReadChallenge
<1> QED BY <1>1, <1>2, NumberBegins

LEMMA UttersInit == Init => Utters
<1>1. PICK C : C = SpeechOps \cup NumberOps
  OBVIOUS
<1>2. <<>> \in Seq(C)
  OBVIOUS
<1> QED BY <1>1, <1>2 DEF Init, Utters

\* What has shut, end by end.
LEMMA WritesShut ==
    ASSUME TypeOK, NEW d \in Ends, Shuts(d)
    PROVE  /\ \A e \in Ends : \/ writes'[e] = writes[e] \/ writes'[e] = <<>>
                              \/ writes[e] # <<>> /\ writes'[e] = Tail(writes[e])
           /\ \A e \in Ends : done'[e] = done[e] \/ done'[e] = <<>>
<1>1. writes \in [Ends -> Seq(Ops)] /\ done \in [Ends -> Seq(OpNames)]
  BY DEF TypeOK
<1>2. \/ writes' = writes
      \/ writes[d] # <<>> /\ writes' = [writes EXCEPT ![d] = Tail(writes[d])]
      \/ writes' = [writes EXCEPT ![d] = <<>>]
  BY DEF Shuts
<1>3. done' = done \/ done' = [done EXCEPT ![d] = <<>>]
  BY DEF Shuts
<1>4. \A e \in Ends : \/ writes'[e] = writes[e] \/ writes'[e] = <<>>
                      \/ writes[e] # <<>> /\ writes'[e] = Tail(writes[e])
  <2>1. CASE writes' = writes
    BY <2>1
  <2>2. CASE writes[d] # <<>> /\ writes' = [writes EXCEPT ![d] = Tail(writes[d])]
    <3>1. writes'[d] = Tail(writes[d]) /\ \A e \in Ends : e # d => writes'[e] = writes[e]
      BY <1>1, <2>2
    <3> QED BY <2>2, <3>1
  <2>3. CASE writes' = [writes EXCEPT ![d] = <<>>]
    BY <1>1, <2>3
  <2> QED BY <1>2, <2>1, <2>2, <2>3
<1>5. \A e \in Ends : done'[e] = done[e] \/ done'[e] = <<>>
  BY <1>1, <1>3
<1> QED BY <1>4, <1>5

LEMMA UttersStep == TypeOK /\ Born /\ WritersOK /\ Utters /\ [Next]_vars => Utters'
<1> SUFFICES ASSUME TypeOK, Born, WritersOK, Utters, [Next]_vars PROVE Utters'
  OBVIOUS
<1> USE DEF userVars, writeVars, readVars
<1>0. UNCHANGED kind
  BY KindStays
<1>1. ASSUME UNCHANGED writes PROVE Utters'
  BY <1>0, <1>1, UttersLess
<1>2. ASSUME NEW d \in Ends, Shuts(d) PROVE Utters'
  <2>1. \A e \in Ends : \/ writes'[e] = writes[e] \/ writes'[e] = <<>>
                        \/ writes[e] # <<>> /\ writes'[e] = Tail(writes[e])
    BY <1>2, WritesShut
  <2> QED BY <1>0, <2>1, UttersLess
<1>3. ASSUME NEW d \in Ends, Transfer(d) PROVE Utters'
  BY <1>0, <1>3, UttersMoves
<1>4. ASSUME NEW d \in Ends, HeaderWritten(d) \/ BodyWritten(d) \/ RawWritten(d) PROVE Utters'
  BY <1>0, <1>1, <1>4, WrittenBegins, UttersBegin
<1>5. ASSUME NEW d \in Ends, RunPosted(d) PROVE Utters'
  <2>1. ASSUME NEW m \in Sendable, Queues(d, m) PROVE Utters'
    BY <1>0, <1>1, <2>1, WriteMsgBegins, UttersBegin DEF Queues
  <2> QED BY <1>2, <1>5, <2>1, LambdaRuns
<1>6. ASSUME ConnectToClient PROVE Utters'
  <2>1. CASE CloseSocket("server")
    BY <1>2, <2>1, CloseShuts DEF Ends
  <2>2. CASE Start("server", "challenge", <<Nonce>>)
    <3>1. "challenge" \in Handshake /\ Nonce \in Numbers /\ "server" \in Ends
      BY DEF Handshake, Numbers, Ends
    <3> QED BY <1>0, <2>2, <3>1, NumberBegins, UttersBegin
  <2> QED BY <1>1, <1>6, <2>1, <2>2 DEF ConnectToClient
<1>7. ASSUME ConnectToServer PROVE Utters'
  BY <1>1, <1>2, <1>7, CloseShuts DEF ConnectToServer, Ends
<1>8. ASSUME ReadChallenge PROVE Utters'
  BY <1>0, <1>8, ReadChallengeBegins, UttersBegin DEF Ends
<1>9. ASSUME ReadResponse PROVE Utters'
  <2>1. CASE Shuts("server")
    BY <1>2, <2>1 DEF Ends
  <2>2. CASE Start("server", "notify", <<Proof>>)
    <3>1. "notify" \in Handshake /\ Proof \in Numbers /\ "server" \in Ends
      BY DEF Handshake, Numbers, Ends
    <3> QED BY <1>0, <2>2, <3>1, NumberBegins, UttersBegin
  <2> QED BY <1>9, <2>1, <2>2, Response DEF Validates
<1>10. ASSUME NEW d \in Ends, \/ ValidationWritten(d) \/ ReadHeader(d) \/ ReadBody(d)
                              \/ BodyRead(d) \/ ReadRaw(d) \/ User(d)
       PROVE  Utters'
  BY <1>1, <1>10 DEF ValidationWritten, ReadHeader, ReadBody, BodyRead, ReadRaw, User, Send,
                     Disconnect
<1>11. ASSUME WaitForValidation PROVE Utters'
  BY <1>1, <1>11 DEF WaitForValidation
<1>12. ASSUME DestroyConnection PROVE Utters'
  BY <1>2, <1>12, EndShuts DEF Ends
<1>14. ASSUME NEW d \in Ends, Aborted(d) \/ PeerClosed(d) \/ ConnectionLost(d) PROVE Utters'
  BY <1>2, <1>14, FailureShuts
<1>13. ASSUME UNCHANGED vars PROVE Utters'
  BY <1>1, <1>13 DEF vars
<1> QED BY <1>3, <1>4, <1>5, <1>6, <1>7, <1>8, <1>9, <1>10, <1>11, <1>12, <1>13, <1>14
        DEF Next, Handler

-----------------------------------------------------------------------------
(* How many numbers of the handshake are under way.                         *)

Count(s, S) == Len(Picked(s, S))

ResponseOps == [op : {"response"}, words : {<<n>> : n \in Numbers}]

\* Numbers that e has sent or is to send, and answers of the client whose
\* handler has not run.
Pending(e) == Count(wire[Peer(e)], Numbers) + Count(writes[e], NumberOps)
Responses == Count(writes["client"], ResponseOps) + Count(done["client"], {"response"})

LEMMA CountType ==
    ASSUME NEW A, NEW S, NEW s \in Seq(A) PROVE Count(s, S) \in Nat
<1>1. PICK B : B = A \cap S
  OBVIOUS
<1>2. PICK t \in Seq(B) : t = Picked(s, S)
  BY <1>1, PickedType
<1> QED BY <1>2 DEF Count

LEMMA CountEmpty == ASSUME NEW S PROVE Count(<<>>, S) = 0
BY PickedEmpty DEF Count

LEMMA CountAppend ==
    ASSUME NEW A, NEW S, NEW s \in Seq(A), NEW x \in A
    PROVE  Count(Append(s, x), S) = Count(s, S) + (IF x \in S THEN 1 ELSE 0)
<1>1. PICK B : B = A \cap S
  OBVIOUS
<1>2. PICK t \in Seq(B) : t = Picked(s, S)
  BY <1>1, PickedType
<1>3. CASE x \in S
  <2>1. Picked(Append(s, x), S) = Append(t, x)
    BY <1>2, <1>3, PickedAppend
  <2>2. Len(Append(t, x)) = Len(t) + 1
    OBVIOUS
  <2> QED BY <1>2, <1>3, <2>1, <2>2 DEF Count
<1>4. CASE x \notin S
  <2>1. Picked(Append(s, x), S) = t /\ Len(t) \in Nat
    BY <1>2, <1>4, PickedAppend
  <2> QED BY <1>2, <1>4, <2>1 DEF Count
<1> QED BY <1>3, <1>4

LEMMA CountHead ==
    ASSUME NEW A, NEW S, NEW s \in Seq(A), s # <<>>
    PROVE  Count(s, S) = Count(Tail(s), S) + (IF Head(s) \in S THEN 1 ELSE 0)
<1>1. PICK B : B = A \cap S
  OBVIOUS
<1>2. PICK t \in Seq(B) : t = Picked(s, S)
  BY <1>1, PickedType
<1>3. CASE Head(s) \in S
  <2>1. t # <<>> /\ Tail(t) = Picked(Tail(s), S)
    BY <1>2, <1>3, PickedHead
  <2>2. Len(Tail(t)) = Len(t) - 1 /\ Len(t) \in Nat
    BY <2>1
  <2>3. Count(s, S) = Len(t) /\ Count(Tail(s), S) = Len(Tail(t))
    BY <1>2, <2>1 DEF Count
  <2> QED BY <1>3, <2>2, <2>3
<1>4. CASE Head(s) \notin S
  <2>1. t = Picked(Tail(s), S) /\ Len(t) \in Nat
    BY <1>2, <1>4, PickedHead
  <2> QED BY <1>2, <1>4, <2>1 DEF Count
<1> QED BY <1>3, <1>4

\* Of a queue from which the first element, or everything, goes.
LEMMA CountLess ==
    ASSUME NEW A, NEW S, NEW s \in Seq(A), NEW t,
           t = s \/ t = <<>> \/ (s # <<>> /\ t = Tail(s))
    PROVE  Count(t, S) \in Nat /\ Count(s, S) \in Nat /\ Count(t, S) <= Count(s, S)
<1>1. Count(s, S) \in Nat /\ Count(<<>>, S) = 0
  BY CountType, CountEmpty
<1>2. CASE s # <<>> /\ t = Tail(s)
  <2>1. Tail(s) \in Seq(A)
    BY <1>2
  <2>2. Count(Tail(s), S) \in Nat
    BY <2>1, CountType
  <2>3. Count(s, S) = Count(Tail(s), S) + (IF Head(s) \in S THEN 1 ELSE 0)
    BY <1>2, CountHead
  <2> QED BY <1>1, <1>2, <2>2, <2>3
<1> QED BY <1>1, <1>2

LEMMA CountConcat ==
    ASSUME NEW A, NEW S, NEW s \in Seq(A), NEW t \in Seq(A)
    PROVE  Count(s \o t, S) = Count(s, S) + Count(t, S)
<1>1. PICK B : B = A \cap S
  OBVIOUS
<1>2. PICK u \in Seq(B), v \in Seq(B) : u = Picked(s, S) /\ v = Picked(t, S)
  <2>1. Picked(s, S) \in Seq(B) /\ Picked(t, S) \in Seq(B)
    BY <1>1, PickedType
  <2> QED BY <2>1
<1>3. Picked(s \o t, S) = u \o v
  BY <1>2, PickedConcat
<1> QED BY <1>2, <1>3, Elements DEF Count

LEMMA CountTypes ==
    ASSUME TypeOK
    PROVE  /\ \A e \in Ends : /\ Count(wire[e], Numbers) \in Nat
                              /\ Count(writes[e], NumberOps) \in Nat /\ Pending(e) \in Nat
           /\ Count(writes["client"], ResponseOps) \in Nat
           /\ Count(done["client"], {"response"}) \in Nat
           /\ Responses \in Nat
<1>1. ASSUME NEW e \in Ends
      PROVE  /\ Count(wire[e], Numbers) \in Nat
             /\ Count(writes[e], NumberOps) \in Nat /\ Count(writes[e], ResponseOps) \in Nat
             /\ Count(done[e], {"response"}) \in Nat
  <2>1. wire[e] \in Seq(Words) /\ writes[e] \in Seq(Ops) /\ done[e] \in Seq(OpNames)
    BY DEF TypeOK
  <2> QED BY <2>1, CountType
<1>2. "client" \in Ends /\ \A e \in Ends : Peer(e) \in Ends
  BY DEF Ends, Peer
<1> QED BY <1>1, <1>2 DEF Pending, Responses

LEMMA CountTypesNext ==
    ASSUME TypeOK'
    PROVE  (\A e \in Ends : Pending(e)' \in Nat) /\ Responses' \in Nat
<1>1. PICK W, O, N : W = Words' /\ O = Ops' /\ N = OpNames'
  OBVIOUS
<1>2. ASSUME NEW e \in Ends
      PROVE  /\ Count(wire'[e], Numbers) \in Nat
             /\ Count(writes'[e], NumberOps) \in Nat /\ Count(writes'[e], ResponseOps) \in Nat
             /\ Count(done'[e], {"response"}) \in Nat
  <2>1. wire'[e] \in Seq(W) /\ writes'[e] \in Seq(O) /\ done'[e] \in Seq(N)
    BY <1>1 DEF TypeOK
  <2> QED BY <2>1, CountType
<1>3. "client" \in Ends /\ \A e \in Ends : Peer(e) \in Ends
  BY DEF Ends, Peer
<1> QED BY <1>2, <1>3 DEF Pending, Responses

\* A word is taken.
LEMMA TakenCounts ==
    ASSUME TypeOK, NEW p \in Ends, wire[p] # <<>>, Taken(p)
    PROVE  /\ Count(wire[p], Numbers)
                = Count(wire'[p], Numbers) + (IF Head(wire[p]) \in Numbers THEN 1 ELSE 0)
           /\ Count(wire'[p], Numbers) \in Nat
           /\ \A d \in Ends : d # p => wire'[d] = wire[d]
<1>1. PICK s \in Seq(Words) : s = wire[p] /\ s # <<>>
  BY DEF TypeOK
<1>2. PICK t \in Seq(Words) : t = Tail(s)
  <2>1. Tail(s) \in Seq(Words)
    BY <1>1
  <2> QED BY <2>1
<1>3. wire'[p] = t /\ \A d \in Ends : d # p => wire'[d] = wire[d]
  BY <1>1, <1>2 DEF Taken, TypeOK
<1>4. Count(t, Numbers) \in Nat
  BY CountType
<1> QED BY <1>1, <1>2, <1>3, <1>4, CountHead

\* A write begins.
LEMMA BeginsCounts ==
    ASSUME TypeOK, Utters, NEW e \in Ends, NEW w \in SpeechOps \cup NumberOps, Begins(e, w)
    PROVE  /\ Count(writes'[e], NumberOps)
                = Count(writes[e], NumberOps) + (IF w \in NumberOps THEN 1 ELSE 0)
           /\ Count(writes'[e], ResponseOps)
                = Count(writes[e], ResponseOps) + (IF w.op = "response" THEN 1 ELSE 0)
           /\ \A d \in Ends : d # e => writes'[d] = writes[d]
<1>1. PICK C : C = SpeechOps \cup NumberOps
  OBVIOUS
<1>2. PICK s \in Seq(C) : s = writes[e]
  BY <1>1 DEF Utters
<1>3. writes'[e] = Append(s, w) /\ \A d \in Ends : d # e => writes'[d] = writes[d]
  BY <1>2 DEF Begins, TypeOK
<1>4. w \in ResponseOps <=> w.op = "response"
  BY DEF ResponseOps, NumberOps, SpeechOps, MessageOps
<1> QED BY <1>1, <1>2, <1>3, <1>4, CountAppend

\* A step of a write moves a number, or none.
LEMMA TransferCounts ==
    ASSUME TypeOK, Utters, NEW e \in Ends, Transfer(e)
    PROVE  Responses' = Responses /\ \A d \in Ends : Pending(d)' = Pending(d)
<1>1. PICK w \in Ops, x \in Seq(Words), y \in Seq(Words) : Moves(e, w, x, y)
  BY TransferMoves
<1>2. PICK p \in Ends : p = Peer(e) /\ p # e /\ Peer(p) = e /\ \A d \in Ends : d = e \/ d = p
  BY DEF Peer, Ends
<1>3. PICK C : C = SpeechOps \cup NumberOps
  OBVIOUS
<1>4. PICK s \in Seq(C) : s = writes[e] /\ s # <<>> /\ w = Head(s)
  BY <1>1, <1>3 DEF Utters, Moves
<1>5. PICK r \in Seq(C) : r = Tail(s)
  <2>1. Tail(s) \in Seq(C)
    BY <1>4
  <2> QED BY <2>1
<1>6. PICK v \in Seq(Words) : v = wire[p] /\ wire'[p] = v \o x
  BY <1>1, <1>2 DEF Moves, TypeOK
<1>7. PICK f \in Seq(OpNames) : f = done[e]
  BY DEF TypeOK
<1>8. PICK z : z = [op |-> w.op, words |-> y]
  OBVIOUS
<1>9. \/ y # <<>> /\ writes'[e] = Append(r, z) /\ done'[e] = f
      \/ y = <<>> /\ writes'[e] = r /\ done'[e] = Append(f, w.op)
  BY <1>1, <1>4, <1>5, <1>7, <1>8 DEF Moves, TypeOK
<1>10. wire'[e] = wire[e] /\ writes'[p] = writes[p] /\ done'[p] = done[p]
  BY <1>1, <1>2 DEF Moves, TypeOK
<1>11. /\ Count(s, NumberOps) = Count(r, NumberOps) + (IF w \in NumberOps THEN 1 ELSE 0)
       /\ Count(s, ResponseOps) = Count(r, ResponseOps) + (IF w \in ResponseOps THEN 1 ELSE 0)
       /\ Count(r, NumberOps) \in Nat /\ Count(r, ResponseOps) \in Nat
  BY <1>4, <1>5, CountHead, CountType
<1>12. /\ Count(v \o x, Numbers) = Count(v, Numbers) + Count(x, Numbers)
       /\ Count(v, Numbers) \in Nat /\ Count(f, {"response"}) \in Nat
  BY CountConcat, CountType
<1>13. w.op \in OpNames
  BY <1>1 DEF Moves
<1>14. Count(Append(f, w.op), {"response"})
          = Count(f, {"response"}) + (IF w.op \in {"response"} THEN 1 ELSE 0)
  BY <1>13, CountAppend
<1> DEFINE a == Count(v, Numbers)
           b == Count(r, NumberOps)
           c == Count(r, ResponseOps)
           d == Count(f, {"response"})
        R == {"response"}
<1>15. \/ /\ y # <<>> /\ Count(done'[e], R) = d
          /\ Count(writes'[e], NumberOps) = Count(Append(r, z), NumberOps)
          /\ Count(writes'[e], ResponseOps) = Count(Append(r, z), ResponseOps)
       \/ /\ y = <<>> /\ Count(done'[e], R) = Count(Append(f, w.op), R)
          /\ Count(writes'[e], NumberOps) = b
          /\ Count(writes'[e], ResponseOps) = c
  BY <1>9
<1>16. Count(Append(f, w.op), R) = IF w.op = "response" THEN d + 1 ELSE d
  BY <1>12, <1>14
<1>17. /\ Count(wire'[p], Numbers) + Count(writes'[e], NumberOps)
             = Count(v, Numbers) + Count(s, NumberOps)
       /\ Count(writes'[e], ResponseOps) + Count(done'[e], {"response"})
             = Count(s, ResponseOps) + Count(f, {"response"})
  <2>1. CASE w \in SpeechOps /\ x \in Seq(Speech) /\ z \in SpeechOps
    <3>1. Count(x, Numbers) = 0
      <4>1. Speech \cap Numbers = {}
        BY Apart
      <4>2. Picked(x, Numbers) = <<>>
        BY <2>1, <4>1, PickedNothing
      <4> QED BY <4>2 DEF Count
    <3>2. w \notin NumberOps /\ z \notin NumberOps /\ w.op # "response"
      BY <2>1, Apart DEF MessageOps
    <3>3. w \notin ResponseOps /\ z \notin ResponseOps
      BY <3>2, <1>8 DEF ResponseOps
    <3>4. /\ Count(Append(r, z), NumberOps) = Count(r, NumberOps)
          /\ Count(Append(r, z), ResponseOps) = Count(r, ResponseOps)
      <4>1. z \in C
        BY <1>3, <2>1
      <4> QED BY <1>11, <3>2, <3>3, <4>1, CountAppend
    <3>5. Count(wire'[p], Numbers) = a
      BY <1>6, <1>12, <3>1
    <3>6. /\ Count(writes'[e], NumberOps) = b /\ Count(s, NumberOps) = b
          /\ Count(writes'[e], ResponseOps) = c /\ Count(s, ResponseOps) = c
      <4>1. Count(s, NumberOps) = b /\ Count(s, ResponseOps) = c
        BY <1>11, <3>2, <3>3
      <4> QED BY <1>15, <3>4, <4>1
    <3>7. Count(done'[e], {"response"}) = d
      BY <1>15, <1>16, <3>2
    <3> QED BY <3>5, <3>6, <3>7
  <2>2. CASE w \in NumberOps /\ y = <<>> /\ \E n \in Numbers : x = <<n>>
    <3>1. PICK n \in Numbers : x = <<n>>
      BY <2>2
    <3>2. Count(x, Numbers) = 1
      <4>1. Append(<<>>, n) = <<n>> /\ <<>> \in Seq(Numbers)
        OBVIOUS
      <4>2. Count(Append(<<>>, n), Numbers) = Count(<<>>, Numbers) + 1
        BY <4>1, CountAppend
      <4> QED BY <3>1, <4>1, <4>2, CountEmpty
    <3>3. w \in ResponseOps <=> w.op = "response"
      BY <2>2 DEF ResponseOps, NumberOps
    <3>4. Count(wire'[p], Numbers) = a + 1 /\ a \in Nat
      BY <1>6, <1>12, <3>2
    <3>5. Count(writes'[e], NumberOps) = b /\ Count(s, NumberOps) = b + 1 /\ b \in Nat
      BY <1>9, <1>11, <2>2
    <3>6. Count(writes'[e], ResponseOps) = c /\ c \in Nat /\ d \in Nat
      BY <1>9, <1>11, <1>12, <2>2
    <3>7. CASE w.op = "response"
      <4>1. Count(s, ResponseOps) = c + 1
        BY <1>11, <3>3, <3>7
      <4>2. Count(done'[e], {"response"}) = d + 1
        BY <1>15, <1>16, <2>2, <3>7
      <4>3. /\ Count(writes'[e], ResponseOps) + Count(done'[e], {"response"}) = c + (d + 1)
            /\ Count(s, ResponseOps) + d = (c + 1) + d
        BY <3>6, <4>1, <4>2
      <4>4. \A i, j \in Nat : i + (j + 1) = (i + 1) + j
        OBVIOUS
      <4> QED BY <3>4, <3>5, <3>6, <4>3, <4>4
    <3>8. CASE w.op # "response"
      <4>1. Count(s, ResponseOps) = c
        BY <1>11, <3>3, <3>8
      <4>2. Count(done'[e], {"response"}) = d
        BY <1>15, <1>16, <2>2, <3>8
      <4> QED BY <3>4, <3>5, <3>6, <4>1, <4>2
    <3> QED BY <3>7, <3>8
  <2> QED BY <1>1, <1>8, <2>1, <2>2, MovesKind
<1>18. Pending(e)' = Pending(e)
  BY <1>2, <1>4, <1>6, <1>17 DEF Pending
<1>19. Pending(p)' = Pending(p)
  BY <1>2, <1>10 DEF Pending
<1>20. Responses' = Responses
  <2>1. CASE e = "client"
    BY <1>4, <1>7, <1>17, <2>1 DEF Responses
  <2>2. CASE e # "client"
    BY <1>2, <1>10, <2>2 DEF Responses, Ends
  <2> QED BY <2>1, <2>2
<1> QED BY <1>2, <1>18, <1>19, <1>20

-----------------------------------------------------------------------------
(* Whose turn it is.                                                        *)

(***************************************************************************)
(* In a handshake one number at most is on its way in either direction:    *)
(* the client answers one challenge, the server notifies one client, and   *)
(* an end that reads messages is owed no number.                           *)
(***************************************************************************)
Turns ==
    /\ reading["server"] = "response" => ~validated["server"]
    /\ Responses <= 1 /\ (Asking \/ reading["client"] # "none" => Responses = 0)
    /\ \A e \in Ends : Pending(e) <= 1
    /\ Asking => Pending("client") = 0
    /\ m_nValidationOut = Proof => socket["server"] # "unborn"
    /\ m_nValidationOut = Proof /\ ~validated["server"] => Pending("server") = 0
    /\ reading["client"] \in {"header", "body"} => Pending("server") = 0
    /\ reading["server"] \in {"header", "body"} => Pending("client") = 0

TurnsInv == kind = "framed" => Turns

\* A step that adds no number and asks for none.
Quiet ==
    /\ UNCHANGED <<m_nValidationOut, validated>>
    /\ \A e \in Ends : Pending(e)' <= Pending(e)
    /\ Responses' <= Responses
    /\ \A e \in Ends : \/ reading'[e] = reading[e] \/ reading'[e] = "none"
                       \/ reading[e] \in {"header", "body"} /\ reading'[e] \in {"header", "body"}
    /\ Asking' => Asking
    /\ socket'["server"] = "unborn" => socket["server"] = "unborn"

LEMMA QuietTurns ==
    ASSUME TypeOK, TypeOK', Turns, Quiet PROVE Turns'
<1>1. /\ \A e \in Ends : Pending(e) \in Nat /\ Pending(e)' \in Nat /\ Peer(e) \in Ends
      /\ Responses \in Nat /\ Responses' \in Nat
      /\ "client" \in Ends /\ "server" \in Ends
  BY CountTypes, CountTypesNext DEF Peer, Ends
<1>2. \A e \in Ends : Pending(e) = 0 => Pending(e)' = 0
  BY <1>1 DEF Quiet
<1>3. Responses = 0 => Responses' = 0
  BY <1>1 DEF Quiet
<1>4. \A e \in Ends : Pending(e)' <= 1
  BY <1>1 DEF Quiet, Turns
<1>5. Responses' <= 1
  BY <1>1 DEF Quiet, Turns
<1>6. reading'["server"] = "response" => reading["server"] = "response"
  BY <1>1 DEF Quiet
<1>7. reading'["client"] # "none" => reading["client"] # "none"
  BY <1>1 DEF Quiet
<1>8. \A e \in Ends : reading'[e] \in {"header", "body"} => reading[e] \in {"header", "body"}
  BY DEF Quiet
<1> QED BY <1>1, <1>2, <1>3, <1>4, <1>5, <1>6, <1>7, <1>8 DEF Quiet, Turns

LEMMA TurnsInit == Init => TurnsInv
<1> SUFFICES ASSUME Init PROVE Turns
  BY DEF TurnsInv
<1>1. /\ \A e \in Ends : wire[e] = <<>> /\ writes[e] = <<>> /\ done[e] = <<>> /\ reading[e] = "none"
      /\ m_nValidationOut = Garbage /\ "client" \in Ends /\ "server" \in Ends
      /\ \A e \in Ends : Peer(e) \in Ends /\ ~validated[e]
  BY DEF Init, Ends, Peer
<1>2. \A e \in Ends : Pending(e) = 0
  BY <1>1, CountEmpty DEF Pending
<1>3. Responses = 0
  BY <1>1, CountEmpty DEF Responses
<1> QED BY <1>1, <1>2, <1>3 DEF Turns, Garbage, Proof

\* What a step does to the numbers when it takes or adds no word of them.
LEMMA NumbersKept ==
    ASSUME UNCHANGED <<wire, writes>> PROVE \A e \in Ends : Pending(e)' = Pending(e)
BY DEF Pending

LEMMA NumbersShut ==
    ASSUME TypeOK, NEW d \in Ends, Shuts(d)
    PROVE  Responses' <= Responses /\ \A e \in Ends : Pending(e)' <= Pending(e)
<1>1. ASSUME NEW e \in Ends
      PROVE  /\ \/ wire'[e] = wire[e] \/ (wire[e] # <<>> /\ wire'[e] = Tail(wire[e]))
             /\ \/ writes'[e] = writes[e] \/ writes'[e] = <<>>
                \/ writes[e] # <<>> /\ writes'[e] = Tail(writes[e])
             /\ done'[e] = done[e] \/ done'[e] = <<>>
  <2>1. wire' = wire \/ (wire[d] # <<>> /\ wire' = [wire EXCEPT ![d] = Tail(wire[d])])
    BY DEF Shuts, Taken
  <2>2. wire \in [Ends -> Seq(Words)]
    BY DEF TypeOK
  <2>3. wire'[e] = wire[e] \/ (wire[e] # <<>> /\ wire'[e] = Tail(wire[e]))
    BY <2>1, <2>2
  <2>4. /\ \A i \in Ends : \/ writes'[i] = writes[i] \/ writes'[i] = <<>>
                           \/ writes[i] # <<>> /\ writes'[i] = Tail(writes[i])
        /\ \A i \in Ends : done'[i] = done[i] \/ done'[i] = <<>>
    BY WritesShut
  <2> QED BY <2>3, <2>4
<1>2. /\ \A e \in Ends : Peer(e) \in Ends /\ wire[e] \in Seq(Words) /\ writes[e] \in Seq(Ops)
                          /\ done[e] \in Seq(OpNames)
      /\ "client" \in Ends
  BY DEF TypeOK, Peer, Ends
<1>3. ASSUME NEW e \in Ends PROVE Pending(e)' <= Pending(e)
  <2>1. PICK p \in Ends : p = Peer(e)
    BY <1>2
  <2>2. /\ Count(wire'[p], Numbers) <= Count(wire[p], Numbers)
        /\ Count(wire'[p], Numbers) \in Nat /\ Count(wire[p], Numbers) \in Nat
    BY <1>1, <1>2, CountLess
  <2>3. /\ Count(writes'[e], NumberOps) <= Count(writes[e], NumberOps)
        /\ Count(writes'[e], NumberOps) \in Nat /\ Count(writes[e], NumberOps) \in Nat
    BY <1>1, <1>2, CountLess
  <2>4. \A i, j, k, l \in Nat : i <= j /\ k <= l => i + k <= j + l
    OBVIOUS
  <2> QED BY <2>1, <2>2, <2>3, <2>4 DEF Pending
<1>4. Responses' <= Responses
  <2>1. /\ Count(writes'["client"], ResponseOps) <= Count(writes["client"], ResponseOps)
        /\ Count(writes'["client"], ResponseOps) \in Nat
        /\ Count(writes["client"], ResponseOps) \in Nat
    BY <1>1, <1>2, CountLess
  <2>2. /\ Count(done'["client"], {"response"}) <= Count(done["client"], {"response"})
        /\ Count(done'["client"], {"response"}) \in Nat
        /\ Count(done["client"], {"response"}) \in Nat
    BY <1>1, <1>2, CountLess
  <2>3. \A i, j, k, l \in Nat : i <= j /\ k <= l => i + k <= j + l
    OBVIOUS
  <2> QED BY <2>1, <2>2, <2>3 DEF Responses
<1> QED BY <1>3, <1>4

LEMMA ShutQuiet ==
    ASSUME TypeOK, NEW d \in Ends, Shuts(d) PROVE Quiet
<1>1. Responses' <= Responses /\ \A e \in Ends : Pending(e)' <= Pending(e)
  BY NumbersShut
<1>2. /\ \A e \in Ends : reading'[e] = reading[e] \/ reading'[e] = "none"
      /\ UNCHANGED <<m_nValidationOut, validated>>
      /\ \A e \in Ends : socket'[e] = socket[e] \/ socket'[e] = "closed"
  BY DEF Shuts, TypeOK
<1>3. Asking' => Asking
  BY <1>2 DEF Asking, Ends
<1> QED BY <1>1, <1>2, <1>3 DEF Quiet, Ends

\* A write of a message's words counts for nothing.
LEMMA SpeechCounts ==
    ASSUME TypeOK, Utters, NEW d \in Ends, UNCHANGED writes \/ \E w \in SpeechOps : Begins(d, w)
    PROVE  /\ \A e \in Ends : Count(writes'[e], NumberOps) = Count(writes[e], NumberOps)
           /\ Count(writes'["client"], ResponseOps) = Count(writes["client"], ResponseOps)
<1>1. CASE UNCHANGED writes
  BY <1>1
<1>2. CASE \E w \in SpeechOps : Begins(d, w)
  <2>1. PICK w \in SpeechOps : Begins(d, w)
    BY <1>2
  <2>2. w \notin NumberOps /\ w.op # "response"
    BY Apart DEF MessageOps
  <2>3. /\ Count(writes'[d], NumberOps) = Count(writes[d], NumberOps) + 0
        /\ Count(writes'[d], ResponseOps) = Count(writes[d], ResponseOps) + 0
        /\ \A e \in Ends : e # d => writes'[e] = writes[e]
    BY <2>1, <2>2, BeginsCounts
  <2>4. /\ \A e \in Ends : Count(writes[e], NumberOps) \in Nat
        /\ Count(writes["client"], ResponseOps) \in Nat /\ "client" \in Ends
    BY CountTypes DEF Ends
  <2> QED BY <2>3, <2>4
<1> QED BY <1>1, <1>2

LEMMA WrittenQuiet ==
    ASSUME TypeOK, WritersOK, Utters, NEW d \in Ends,
           HeaderWritten(d) \/ BodyWritten(d) \/ RawWritten(d)
    PROVE  Quiet
<1>1. /\ UNCHANGED <<socket, wire, reading, m_nValidationOut, validated>>
      /\ done[d] # <<>> /\ Head(done[d]) \in MessageOps
      /\ done' = [done EXCEPT ![d] = Tail(@)]
      /\ UNCHANGED writes \/ \E w \in SpeechOps : Begins(d, w)
  BY WrittenBegins
<1>2. /\ \A e \in Ends : Count(writes'[e], NumberOps) = Count(writes[e], NumberOps)
      /\ Count(writes'["client"], ResponseOps) = Count(writes["client"], ResponseOps)
  BY <1>1, SpeechCounts
<1>3. Count(done'["client"], {"response"}) = Count(done["client"], {"response"})
  <2>1. CASE d = "client"
    <3>1. PICK s \in Seq(OpNames) : s = done[d] /\ s # <<>> /\ done'[d] = Tail(s)
      BY <1>1 DEF TypeOK
    <3>2. Head(s) \notin {"response"}
      BY <1>1, <3>1 DEF MessageOps
    <3>3. Count(s, {"response"}) = Count(Tail(s), {"response"}) + 0
      BY <3>1, <3>2, CountHead
    <3>4. Count(Tail(s), {"response"}) \in Nat
      <4>1. Tail(s) \in Seq(OpNames)
        BY <3>1
      <4> QED BY <4>1, CountType
    <3> QED BY <2>1, <3>1, <3>3, <3>4
  <2>2. CASE d # "client"
    BY <1>1, <2>2 DEF TypeOK
  <2> QED BY <2>1, <2>2
<1>4. /\ \A e \in Ends : Pending(e)' = Pending(e) /\ Pending(e) \in Nat
      /\ Responses' = Responses /\ Responses \in Nat
  BY <1>1, <1>2, <1>3, CountTypes DEF Pending, Responses
<1> QED BY <1>1, <1>4 DEF Quiet, Asking

LEMMA QueuesQuiet ==
    ASSUME TypeOK, Utters, NEW d \in Ends, NEW m \in Sendable, Queues(d, m)
    PROVE  Quiet
<1>1. /\ UNCHANGED <<socket, wire, reading, m_nValidationOut, validated, done>>
      /\ UNCHANGED writes \/ \E w \in SpeechOps : Begins(d, w)
  BY WriteMsgBegins DEF Queues, readVars
<1>2. /\ \A e \in Ends : Count(writes'[e], NumberOps) = Count(writes[e], NumberOps)
      /\ Count(writes'["client"], ResponseOps) = Count(writes["client"], ResponseOps)
  BY <1>1, SpeechCounts
<1>3. /\ \A e \in Ends : Pending(e)' = Pending(e) /\ Pending(e) \in Nat
      /\ Responses' = Responses /\ Responses \in Nat
  BY <1>1, <1>2, CountTypes DEF Pending, Responses
<1> QED BY <1>1, <1>3 DEF Quiet, Asking

\* A message's word, or a part of it, is read.
LEMMA ReadQuiet ==
    ASSUME TypeOK, kind = "framed", NEW d \in Ends, ReadHeader(d) \/ ReadBody(d) \/ BodyRead(d)
    PROVE  Quiet
<1>1. UNCHANGED <<socket, m_nValidationOut, validated, writes, done>>
  BY DEF ReadHeader, ReadBody, BodyRead, writeVars
<1>2. \A e \in Ends : \/ reading'[e] = reading[e] \/ reading'[e] = "none"
                      \/ reading[e] \in {"header", "body"} /\ reading'[e] \in {"header", "body"}
  <2>1. CASE ReadBody(d)
    BY <2>1 DEF ReadBody
  <2>2. CASE ReadHeader(d)
    <3>1. \/ \E m : AddToIncomingMessageQueue(d, m)
          \/ \E nothing : ReadOn(d, "body", nothing)
      BY <2>2 DEF ReadHeader
    <3>2. /\ \A e \in Ends : e # d => reading'[e] = reading[e]
          /\ reading'[d] \in {"header", "body", "none"}
      BY <3>1, ReadingOn, ReadingNext
    <3>3. reading[d] = "header"
      BY <2>2 DEF ReadHeader, Arrives
    <3> QED BY <3>2, <3>3
  <2>3. CASE BodyRead(d)
    <3>1. reading[d] = "body" /\ \E m : AddToIncomingMessageQueue(d, m)
      BY <2>3 DEF BodyRead
    <3>2. /\ \A e \in Ends : e # d => reading'[e] = reading[e]
          /\ reading'[d] \in {"header", "none"}
      BY <3>1, ReadingNext
    <3> QED BY <3>1, <3>2
  <2> QED BY <2>1, <2>2, <2>3
<1>3. Responses' = Responses
  BY <1>1 DEF Responses
<1>4. \A e \in Ends : Peer(e) \in Ends /\ Count(wire[e], Numbers) \in Nat
                      /\ Count(writes[e], NumberOps) \in Nat /\ Responses \in Nat
  BY CountTypes DEF Peer, Ends
<1>5. \A e \in Ends : Count(wire'[e], Numbers) <= Count(wire[e], Numbers)
                      /\ Count(wire'[e], Numbers) \in Nat
  <2>1. CASE UNCHANGED wire
    BY <1>4, <2>1
  <2>2. CASE wire[d] # <<>> /\ Taken(d)
    <3>1. PICK n \in {0, 1} : /\ Count(wire[d], Numbers) = Count(wire'[d], Numbers) + n
                              /\ Count(wire'[d], Numbers) \in Nat
                              /\ \A e \in Ends : e # d => wire'[e] = wire[e]
      BY <2>2, TakenCounts
    <3> QED BY <1>4, <3>1
  <2> QED BY <2>1, <2>2 DEF ReadHeader, ReadBody, BodyRead, Arrives
<1>6. ASSUME NEW e \in Ends PROVE Pending(e)' <= Pending(e)
  <2>1. PICK p \in Ends : p = Peer(e)
    BY <1>4
  <2>2. \A i, j, k \in Nat : i <= j => i + k <= j + k
    OBVIOUS
  <2>3. Count(wire'[p], Numbers) + Count(writes[e], NumberOps)
            <= Count(wire[p], Numbers) + Count(writes[e], NumberOps)
    BY <1>4, <1>5, <2>2
  <2> QED BY <1>1, <2>1, <2>3 DEF Pending
<1> QED BY <1>1, <1>2, <1>3, <1>4, <1>6 DEF Quiet, Asking, Ends

\* The server challenges a client to which nothing has been said.
LEMMA TurnsBegin ==
    ASSUME TypeOK, TypeOK', Born, HandshakeOK, Utters, Turns, kind = "framed", ConnectToClient
    PROVE  Turns'
<1>1. CASE CloseSocket("server")
  BY <1>1, CloseShuts, ShutQuiet, QuietTurns DEF Ends
<1>2. CASE ~CloseSocket("server")
  <2>1. /\ socket["server"] = "unborn" /\ socket' = [socket EXCEPT !["server"] = "open"]
        /\ Start("server", "challenge", <<Nonce>>)
        /\ reading' = [reading EXCEPT !["server"] = "response"]
        /\ UNCHANGED <<validated, wire, done, m_nValidationOut>>
    BY <1>2 DEF ConnectToClient
  <2>2. PICK w \in NumberOps : w.op = "challenge" /\ Begins("server", w)
    <3>1. "challenge" \in Handshake /\ Nonce \in Numbers /\ "server" \in Ends
      BY DEF Handshake, Numbers, Ends
    <3> QED BY <2>1, <3>1, NumberBegins
  <2>3. /\ Count(writes'["server"], NumberOps) = Count(writes["server"], NumberOps) + 1
        /\ writes'["client"] = writes["client"]
    BY <2>2, BeginsCounts DEF Ends
  <2>4. /\ writes["server"] = <<>> /\ wire["client"] = <<>> /\ ~validated["server"]
        /\ socket["client"] # "unborn"
    BY <2>1 DEF Born
  <2>5. Pending("server")' = 1
    BY <2>1, <2>3, <2>4, CountEmpty DEF Pending, Peer
  <2>6. Pending("client")' = Pending("client")
    BY <2>1, <2>3 DEF Pending, Peer
  <2>7. Responses' = Responses
    BY <2>1, <2>3 DEF Responses
  <2>8. /\ reading'["client"] = reading["client"] /\ reading'["server"] = "response"
        /\ socket'["client"] = socket["client"] /\ validated' = validated
        /\ m_nValidationOut' = m_nValidationOut /\ (Asking' <=> Asking)
    BY <2>1 DEF TypeOK, Asking, Ends
  <2>9. m_nValidationOut # Proof /\ reading["client"] \notin {"header", "body"}
    BY <2>1, <2>4 DEF Turns, HandshakeOK, Ends
  <2> QED BY <2>4, <2>5, <2>6, <2>7, <2>8, <2>9 DEF Turns, Ends
<1> QED BY <1>1, <1>2

LEMMA TurnsConnected ==
    ASSUME TypeOK, TypeOK', Turns, kind = "framed", ConnectToServer
    PROVE  Turns'
<1>1. CASE CloseSocket("client")
  BY <1>1, CloseShuts, ShutQuiet, QuietTurns DEF Ends
<1>2. CASE ~CloseSocket("client")
  <2>1. /\ socket["client"] = "connecting" /\ socket' = [socket EXCEPT !["client"] = "open"]
        /\ reading' = [reading EXCEPT !["client"] = "challenge"]
        /\ UNCHANGED <<validated, wire, writes, done, m_nValidationOut>>
    BY <1>2 DEF ConnectToServer, writeVars
  <2>2. /\ \A e \in Ends : Pending(e)' = Pending(e)
        /\ Responses' = Responses
    BY <2>1 DEF Pending, Responses
  <2>3. /\ reading'["server"] = reading["server"] /\ reading'["client"] = "challenge"
        /\ socket'["server"] = socket["server"] /\ Asking
    BY <2>1 DEF TypeOK, Asking, Ends
  <2> QED BY <2>1, <2>2, <2>3 DEF Turns, Ends
<1> QED BY <1>1, <1>2

\* The client answers: a challenge, or a word that was none.
LEMMA TurnsAnswer ==
    ASSUME TypeOK, TypeOK', Born, HandshakeOK, Utters, Turns, kind = "framed", ReadChallenge
    PROVE  Turns'
<1>1. /\ reading["client"] = "challenge" /\ wire["client"] # <<>>
      /\ Taken("client") /\ reading' = [reading EXCEPT !["client"] = "none"]
      /\ UNCHANGED <<socket, done, validated>>
      /\ m_nValidationOut' = CalculateValidation(Head(wire["client"]))
  BY DEF ReadChallenge, Arrives
<1>2. PICK w \in NumberOps : w.op = "response" /\ Begins("client", w)
  BY ReadChallengeBegins
<1>3. /\ Count(writes'["client"], NumberOps) = Count(writes["client"], NumberOps) + 1
      /\ Count(writes'["client"], ResponseOps) = Count(writes["client"], ResponseOps) + 1
      /\ writes'["server"] = writes["server"]
  BY <1>2, BeginsCounts DEF Ends
<1>4. /\ Count(wire["client"], Numbers)
            = Count(wire'["client"], Numbers) + (IF Head(wire["client"]) \in Numbers THEN 1 ELSE 0)
      /\ Count(wire'["client"], Numbers) \in Nat /\ wire'["server"] = wire["server"]
  BY <1>1, TakenCounts DEF Ends
<1>5. /\ \A e \in Ends : Count(wire[e], Numbers) \in Nat /\ Count(writes[e], NumberOps) \in Nat
      /\ Count(writes["client"], ResponseOps) \in Nat /\ Count(done["client"], {"response"}) \in Nat
      /\ "client" \in Ends /\ "server" \in Ends
  BY CountTypes DEF Ends
<1>6. Asking /\ ~Asking' /\ reading'["server"] = reading["server"] /\ reading'["client"] = "none"
  BY <1>1 DEF Asking, TypeOK, Born, Ends
<1>7. Pending("client")' = Pending("client") + 1 /\ Pending("client") = 0
  <2>1. Pending("client") = 0
    BY <1>6 DEF Turns
  <2> QED BY <1>3, <1>4, <1>5, <2>1 DEF Pending, Peer
<1>8. Responses' = Responses + 1 /\ Responses = 0
  <2>1. Responses = 0
    BY <1>6 DEF Turns
  <2> QED BY <1>1, <1>3, <1>5, <2>1 DEF Responses
<1>9. Pending("server")' = Pending("server") - (IF Head(wire["client"]) \in Numbers THEN 1 ELSE 0)
      /\ Pending("server")' \in Nat /\ Pending("server") <= 1 /\ Pending("server") \in Nat
  <2>1. Pending("server") <= 1
    BY <1>5 DEF Turns
  <2> QED BY <1>3, <1>4, <1>5, <2>1 DEF Pending, Peer
<1>10. ~validated["server"]
  BY <1>6 DEF HandshakeOK, Proof, Garbage
<1>11. reading["server"] \notin {"header", "body"}
  BY <1>5, <1>10 DEF HandshakeOK
<1>12. ASSUME m_nValidationOut' = Proof PROVE Pending("server")' = 0 /\ socket["server"] # "unborn"
  <2>1. Head(wire["client"]) = Nonce
    BY <1>1, <1>12 DEF CalculateValidation, Proof, Garbage
  <2>2. Nonce \in Numbers
    BY DEF Numbers
  <2>3. socket["server"] # "unborn"
    BY <1>1 DEF Born
  <2> QED BY <1>9, <2>1, <2>2, <2>3
<1>13. Pending("server")' <= 1
  BY <1>9
<1> QED BY <1>1, <1>6, <1>7, <1>8, <1>10, <1>11, <1>12, <1>13 DEF Turns, Ends

\* The server has the answer, and notifies the client.
LEMMA TurnsResponse ==
    ASSUME TypeOK, TypeOK', Born, HandshakeOK, Utters, Turns, kind = "framed", ReadResponse
    PROVE  Turns'
<1>1. CASE Shuts("server")
  BY <1>1, ShutQuiet, QuietTurns DEF Ends
<1>2. CASE Validates
  <2>1. /\ reading["server"] = "response" /\ wire["server"] # <<>> /\ Head(wire["server"]) = Proof
        /\ Taken("server") /\ Start("server", "notify", <<Proof>>)
        /\ validated' = [validated EXCEPT !["server"] = TRUE]
        /\ reading'["client"] = reading["client"] /\ reading'["server"] \in {"header", "none"}
        /\ UNCHANGED <<socket, done, m_nValidationOut>>
    BY <1>2, ReadingOn DEF Validates, Arrives, Ends
  <2>2. PICK w \in NumberOps : w.op = "notify" /\ Begins("server", w)
    <3>1. "notify" \in Handshake /\ Proof \in Numbers /\ "server" \in Ends
      BY DEF Handshake, Numbers, Ends
    <3> QED BY <2>1, <3>1, NumberBegins
  <2>3. /\ Count(writes'["server"], NumberOps) = Count(writes["server"], NumberOps) + 1
        /\ writes'["client"] = writes["client"]
    BY <2>2, BeginsCounts DEF Ends
  <2>4. /\ Count(wire["server"], Numbers) = Count(wire'["server"], Numbers) + 1
        /\ wire'["client"] = wire["client"] /\ Count(wire'["server"], Numbers) \in Nat
    <3>1. Proof \in Numbers
      BY DEF Numbers
    <3> QED BY <2>1, <3>1, TakenCounts DEF Ends
  <2>5. ~validated["server"]
    BY <2>1 DEF Turns
  <2>6. m_nValidationOut = Proof /\ ~Asking
    <3>1. Proof \in ClientWords
      BY <2>1 DEF HandshakeOK, SaysOnly, Peer
    <3> QED BY <3>1 DEF ClientWords
  <2>7. reading["client"] \notin {"header", "body"}
    BY <2>5 DEF HandshakeOK, Ends
  <2>8. /\ \A e \in Ends : Count(wire[e], Numbers) \in Nat /\ Count(writes[e], NumberOps) \in Nat
        /\ "client" \in Ends /\ "server" \in Ends
    BY CountTypes DEF Ends
  <2>9. Pending("server")' = 1
    <3>1. Pending("server") = 0
      BY <2>5, <2>6 DEF Turns
    <3> QED BY <2>3, <2>4, <2>8, <3>1 DEF Pending, Peer
  <2>10. Pending("client")' = 0
    <3>1. Pending("client") <= 1
      BY <2>8 DEF Turns
    <3> QED BY <2>3, <2>4, <2>8, <3>1 DEF Pending, Peer
  <2>11. Responses' = Responses
    BY <2>1, <2>3 DEF Responses
  <2>12. /\ (Asking' <=> Asking) /\ validated'["server"]
    BY <2>1 DEF TypeOK, Asking, Ends
  <2> QED BY <2>1, <2>6, <2>7, <2>9, <2>10, <2>11, <2>12 DEF Turns, Ends
<1> QED BY <1>1, <1>2, Response

\* The client is notified, or reads something else.
LEMMA TurnsNotified ==
    ASSUME TypeOK, TypeOK', HandshakeOK, Turns, kind = "framed", WaitForValidation
    PROVE  Turns'
<1>1. /\ reading["client"] = "notify" /\ wire["client"] # <<>> /\ Taken("client")
      /\ UNCHANGED <<socket, writes, done, m_nValidationOut>>
      /\ \/ /\ Head(wire["client"]) = m_nValidationOut
            /\ validated' = [validated EXCEPT !["client"] = TRUE]
            /\ reading'["client"] \in {"header", "none"}
         \/ /\ validated' = validated
            /\ reading'["client"] = "none"
      /\ reading'["server"] = reading["server"]
  <2>1. /\ reading["client"] = "notify" /\ wire["client"] # <<>> /\ Taken("client")
        /\ UNCHANGED <<socket, writes, done, m_nValidationOut>>
    BY DEF WaitForValidation, Arrives, writeVars
  <2>2. reading \in [Ends -> Reads] /\ "client" \in Ends /\ "server" \in Ends
    BY DEF TypeOK, Ends
  <2>3. ASSUME ReadOn("client", "header", FALSE)
        PROVE  reading'["client"] \in {"header", "none"} /\ reading'["server"] = reading["server"]
    <3>1. PICK e \in Ends : e = "client" /\ ReadOn(e, "header", FALSE)
      BY <2>2, <2>3
    <3>2. reading'[e] \in {"header", "none"} /\ \A d \in Ends : d # e => reading'[d] = reading[d]
      BY <3>1, ReadingOn
    <3> QED BY <2>2, <3>1, <3>2
  <2>4. \/ /\ Head(wire["client"]) = m_nValidationOut
           /\ validated' = [validated EXCEPT !["client"] = TRUE]
           /\ ReadOn("client", "header", FALSE)
        \/ validated' = validated /\ reading' = [reading EXCEPT !["client"] = "none"]
    BY DEF WaitForValidation
  <2> QED BY <2>1, <2>2, <2>3, <2>4
<1>2. PICK n \in {0, 1} :
         /\ Count(wire["client"], Numbers) = Count(wire'["client"], Numbers) + n
         /\ Count(wire'["client"], Numbers) \in Nat /\ wire'["server"] = wire["server"]
         /\ Head(wire["client"]) \in Numbers => n = 1
  BY <1>1, TakenCounts DEF Ends
<1>3. /\ \A e \in Ends : Count(wire[e], Numbers) \in Nat /\ Count(writes[e], NumberOps) \in Nat
      /\ "client" \in Ends /\ "server" \in Ends /\ \A e \in Ends : Pending(e) \in Nat
  BY CountTypes DEF Ends
<1>4. Pending("server")' = Pending("server") - n /\ Pending("server")' \in Nat
      /\ Pending("client")' = Pending("client")
  <2>1. /\ Pending("server") = Count(wire["client"], Numbers) + Count(writes["server"], NumberOps)
        /\ Pending("server")' = Count(wire'["client"], Numbers) + Count(writes["server"], NumberOps)
    BY <1>1 DEF Pending, Peer
  <2>2. Pending("client")' = Pending("client")
    BY <1>1, <1>2 DEF Pending, Peer
  <2> QED BY <1>2, <1>3, <2>1, <2>2
<1>5. Responses' = Responses
  BY <1>1 DEF Responses
<1>6. Responses = 0 /\ Pending("server") <= 1
  BY <1>1, <1>3 DEF Turns
<1>7. /\ reading'["server"] = reading["server"] /\ validated'["server"] = validated["server"]
      /\ (Asking' => Asking)
  BY <1>1 DEF TypeOK, Asking, Ends
<1>8. reading'["client"] = "header" => Pending("server")' = 0
  <2>1. ASSUME reading'["client"] = "header" PROVE Pending("server")' = 0
    <3>1. Head(wire["client"]) = m_nValidationOut
      BY <1>1, <2>1 DEF TypeOK, Ends
    <3>2. m_nValidationOut \in Numbers
      BY DEF TypeOK, Numbers
    <3> QED BY <1>2, <1>3, <1>4, <1>6, <3>1, <3>2
  <2> QED BY <2>1
<1>9. reading'["client"] \in {"header", "none"}
  BY <1>1 DEF TypeOK, Ends
<1>10. Pending("server")' <= 1 /\ (Pending("server") = 0 => Pending("server")' = 0)
  BY <1>3, <1>4, <1>6
<1> QED BY <1>1, <1>4, <1>5, <1>6, <1>7, <1>8, <1>9, <1>10 DEF Turns, Ends

\* The handler of a write of the handshake: after its answer the client waits.
LEMMA TurnsWritten ==
    ASSUME TypeOK, TypeOK', Born, Turns, kind = "framed", NEW d \in Ends, ValidationWritten(d)
    PROVE  Turns'
<1>1. /\ UNCHANGED <<socket, wire, writes, m_nValidationOut, validated>>
      /\ done[d] # <<>> /\ done' = [done EXCEPT ![d] = Tail(@)]
      /\ \A e \in Ends : e # d => reading'[e] = reading[e]
      /\ IF Head(done[d]) = "response" THEN reading'[d] \in {"notify", "none"}
                                       ELSE reading' = reading
  BY ReadingOn DEF ValidationWritten, Finished
<1>2. PICK s \in Seq(OpNames) : s = done[d] /\ s # <<>> /\ done'[d] = Tail(s)
  BY <1>1 DEF TypeOK
<1>3. PICK n \in {0, 1} : /\ Count(s, {"response"}) = Count(Tail(s), {"response"}) + n
                          /\ Head(s) = "response" => n = 1
  BY <1>2, CountHead
<1>4. Count(Tail(s), {"response"}) \in Nat /\ Count(s, {"response"}) \in Nat
  <2>1. Tail(s) \in Seq(OpNames)
    BY <1>2
  <2> QED BY <2>1, CountType
<1>5. \A e \in Ends : Pending(e)' = Pending(e)
  BY <1>1 DEF Pending
<1>6. Responses' \in Nat /\ Responses \in Nat
      /\ Count(writes["client"], ResponseOps) \in Nat
  BY CountTypes, CountTypesNext
<1>7. CASE d = "client"
  <2>1. Responses = Responses' + n
    BY <1>1, <1>2, <1>3, <1>4, <1>6, <1>7 DEF Responses
  <2>2. Responses' <= 1 /\ (Responses = 0 => Responses' = 0) /\ (n = 1 => Responses' = 0)
    <3>1. Responses <= 1
      BY DEF Turns
    <3>2. \A i, j \in Nat : \A k \in {0, 1} :
             i <= 1 /\ i = j + k => j <= 1 /\ (i = 0 => j = 0) /\ (k = 1 => j = 0)
      OBVIOUS
    <3> QED BY <1>6, <2>1, <3>1, <3>2
  <2>3. reading'["server"] = reading["server"]
    BY <1>1, <1>7 DEF TypeOK, Ends
  <2>4. CASE Head(s) = "response"
    <3>1. reading'["client"] \in {"notify", "none"} /\ Responses' = 0
      <4>1. Responses' = 0
        BY <1>3, <2>2, <2>4
      <4> QED BY <1>1, <1>2, <1>7, <2>4, <4>1 DEF TypeOK
    <3>2. Asking' => Asking
      BY <1>1, <3>1 DEF Asking
    <3> QED BY <1>1, <1>5, <2>3, <3>1, <3>2 DEF Turns, Ends
  <2>5. CASE Head(s) # "response"
    <3>1. reading' = reading /\ (Asking' <=> Asking)
      BY <1>1, <1>2, <2>5 DEF Asking
    <3> QED BY <1>1, <1>5, <2>2, <3>1 DEF Turns, Ends
  <2> QED BY <2>4, <2>5
<1>8. CASE d # "client"
  <2>1. Responses' = Responses
    BY <1>1, <1>8 DEF Responses, TypeOK, Ends
  <2>2. reading'["client"] = reading["client"] /\ (Asking' <=> Asking)
    BY <1>1, <1>8 DEF Asking, TypeOK, Ends
  <2>3. reading'["server"] \in {reading["server"], "notify", "none"}
    BY <1>1 DEF TypeOK, Ends
  <2> QED BY <1>1, <1>5, <2>1, <2>2, <2>3 DEF Turns, Ends
<1> QED BY <1>7, <1>8

LEMMA TurnsStep ==
    TypeOK /\ TypeOK' /\ Born /\ WritersOK /\ AgreementInv /\ Utters /\ TurnsInv /\ [Next]_vars
        => TurnsInv'
<1> SUFFICES ASSUME TypeOK, TypeOK', Born, WritersOK, HandshakeOK, Utters, Turns, [Next]_vars,
                    kind = "framed"
             PROVE  Turns'
  BY KindStays DEF AgreementInv, TurnsInv
<1> USE DEF userVars, writeVars, readVars
<1>1. ASSUME UNCHANGED <<wire, writes, done, socket, reading, m_nValidationOut, validated>>
      PROVE  Turns'
  <2>1. Responses' = Responses /\ \A e \in Ends : Pending(e)' = Pending(e)
    BY <1>1 DEF Responses, Pending
  <2> QED BY <1>1, <2>1 DEF Turns, Asking, Ends
<1>2. ASSUME NEW d \in Ends, \/ Shuts(d)
                              \/ Aborted(d) \/ PeerClosed(d) \/ ConnectionLost(d)
      PROVE  Turns'
  BY <1>2, FailureShuts, ShutQuiet, QuietTurns
<1>3. ASSUME NEW d \in Ends, Transfer(d) PROVE Turns'
  <2>1. Responses' = Responses /\ \A e \in Ends : Pending(e)' = Pending(e)
    BY <1>3, TransferCounts
  <2>2. UNCHANGED <<socket, reading, m_nValidationOut, validated>>
    BY <1>3 DEF Transfer
  <2> QED BY <2>1, <2>2 DEF Turns, Asking, Ends
<1>4. ASSUME NEW d \in Ends, HeaderWritten(d) \/ BodyWritten(d) \/ RawWritten(d) PROVE Turns'
  BY <1>4, WrittenQuiet, QuietTurns
<1>5. ASSUME NEW d \in Ends, RunPosted(d) PROVE Turns'
  BY <1>2, <1>5, LambdaRuns, QueuesQuiet, QuietTurns
<1>6. ASSUME NEW d \in Ends, ReadHeader(d) \/ ReadBody(d) \/ BodyRead(d) PROVE Turns'
  BY <1>6, ReadQuiet, QuietTurns
<1>7. ASSUME NEW d \in Ends, ReadRaw(d) PROVE Turns'
  BY <1>7 DEF ReadRaw, Arrives, TypeOK, Reads, OpNames
<1>8. ASSUME NEW d \in Ends, User(d) PROVE Turns'
  BY <1>1, <1>8 DEF User, Send, Disconnect
<1>9. ASSUME DestroyConnection PROVE Turns'
  BY <1>2, <1>9, EndShuts DEF Ends
<1>10. ASSUME UNCHANGED vars PROVE Turns'
  BY <1>1, <1>10 DEF vars
<1> QED BY <1>2, <1>3, <1>4, <1>5, <1>6, <1>7, <1>8, <1>9, <1>10, TurnsBegin, TurnsConnected,
           TurnsAnswer, TurnsResponse, TurnsNotified, TurnsWritten
        DEF Next, Handler

\* Only a client answers.
Asks == /\ \A i \in DOMAIN writes["server"] : writes["server"][i].op # "response"
        /\ \A i \in DOMAIN done["server"] : done["server"][i] # "response"

LEMMA AsksInit == Init => Asks
BY DEF Init, Asks, Ends

LEMMA AsksBegin ==
    ASSUME TypeOK, Asks, NEW e \in Ends, NEW w, w.op # "response" \/ e = "client", Begins(e, w),
           done'["server"] = done["server"]
    PROVE  Asks'
<1>1. "server" \in Ends
  BY DEF Ends
<1>2. PICK s \in Seq(Ops) : s = writes["server"]
  BY <1>1 DEF TypeOK
<1>3. writes'["server"] = s \/ (w.op # "response" /\ writes'["server"] = Append(s, w))
  BY <1>1, <1>2 DEF Begins, TypeOK
<1>4. \A i \in DOMAIN s : s[i].op # "response"
  BY <1>2 DEF Asks
<1>5. w.op # "response" => \A i \in DOMAIN Append(s, w) : Append(s, w)[i].op # "response"
  <2>1. \A i \in DOMAIN Append(s, w) :
            (i \in DOMAIN s /\ Append(s, w)[i] = s[i]) \/ Append(s, w)[i] = w
    OBVIOUS
  <2> QED BY <1>4, <2>1
<1>6. \A i \in DOMAIN writes'["server"] : writes'["server"][i].op # "response"
  BY <1>2, <1>3, <1>4, <1>5
<1> QED BY <1>6 DEF Asks

LEMMA AsksMoves ==
    ASSUME TypeOK, Asks, NEW e \in Ends, Transfer(e) PROVE Asks'
<1>1. PICK w \in Ops, x \in Seq(Words), y \in Seq(Words) : Moves(e, w, x, y)
  BY TransferMoves
<1>2. CASE e # "server"
  BY <1>1, <1>2 DEF Asks, Moves, TypeOK, Ends
<1>3. CASE e = "server"
  <2>1. PICK s \in Seq(Ops), f \in Seq(OpNames) :
           /\ s = writes["server"] /\ s # <<>> /\ w = Head(s) /\ f = done["server"]
    BY <1>1, <1>3 DEF Moves, TypeOK
  <2>2. PICK z : z = [op |-> w.op, words |-> y]
    OBVIOUS
  <2>3. /\ writes'["server"] = Tail(s) \/ writes'["server"] = Append(Tail(s), z)
        /\ done'["server"] = f \/ done'["server"] = Append(f, w.op)
    BY <1>1, <1>3, <2>1, <2>2 DEF Moves, TypeOK
  <2>4. w.op # "response" /\ z.op # "response"
    BY <2>1, <2>2 DEF Asks
  <2>5. \A i \in DOMAIN Tail(s) : i + 1 \in DOMAIN s /\ Tail(s)[i] = s[i + 1]
    BY <2>1
  <2>6. \A i \in DOMAIN Tail(s) : Tail(s)[i].op # "response"
    BY <2>1, <2>5 DEF Asks
  <2>7. PICK r \in Seq(Ops) : r = Tail(s)
    <3>1. Tail(s) \in Seq(Ops)
      BY <2>1
    <3> QED BY <3>1
  <2>8. \A i \in DOMAIN Append(r, z) :
            (i \in DOMAIN r /\ Append(r, z)[i] = r[i]) \/ Append(r, z)[i] = z
    OBVIOUS
  <2>9. \A i \in DOMAIN Append(r, z) : Append(r, z)[i].op # "response"
    BY <2>4, <2>6, <2>7, <2>8
  <2>10. \A i \in DOMAIN Append(f, w.op) :
             (i \in DOMAIN f /\ Append(f, w.op)[i] = f[i]) \/ Append(f, w.op)[i] = w.op
    OBVIOUS
  <2>11. \A i \in DOMAIN Append(f, w.op) : Append(f, w.op)[i] # "response"
    BY <2>1, <2>4, <2>10 DEF Asks
  <2>12. \A i \in DOMAIN writes'["server"] : writes'["server"][i].op # "response"
    BY <2>3, <2>6, <2>7, <2>9
  <2>13. \A i \in DOMAIN done'["server"] : done'["server"][i] # "response"
    BY <2>1, <2>3, <2>11 DEF Asks
  <2> QED BY <2>12, <2>13 DEF Asks
<1> QED BY <1>2, <1>3

\* A finished write is taken from done.
LEMMA AsksTaken ==
    ASSUME TypeOK, Asks, NEW e \in Ends, done[e] # <<>>, done' = [done EXCEPT ![e] = Tail(@)]
    PROVE  \A i \in DOMAIN done'["server"] : done'["server"][i] # "response"
<1>1. CASE e # "server"
  BY <1>1 DEF Asks, TypeOK, Ends
<1>2. CASE e = "server"
  <2>1. PICK f \in Seq(OpNames) : f = done["server"] /\ f # <<>> /\ done'["server"] = Tail(f)
    BY <1>2 DEF TypeOK
  <2>2. \A i \in DOMAIN Tail(f) : i + 1 \in DOMAIN f /\ Tail(f)[i] = f[i + 1]
    BY <2>1
  <2> QED BY <2>1, <2>2 DEF Asks
<1> QED BY <1>1, <1>2

LEMMA AsksStep == TypeOK /\ Born /\ WritersOK /\ Asks /\ [Next]_vars => Asks'
<1> SUFFICES ASSUME TypeOK, Born, WritersOK, Asks, [Next]_vars PROVE Asks'
  OBVIOUS
<1> USE DEF userVars, writeVars, readVars
<1>0. "server" \in Ends /\ "client" \in Ends
  BY DEF Ends
<1>1. ASSUME UNCHANGED <<writes, done>> PROVE Asks'
  BY <1>1 DEF Asks
<1>2. ASSUME NEW d \in Ends, \/ Shuts(d)
                              \/ Aborted(d) \/ PeerClosed(d) \/ ConnectionLost(d)
      PROVE  Asks'
  <2>0. Shuts(d)
    BY <1>2, FailureShuts
  <2>1. done'["server"] = done["server"] \/ done'["server"] = <<>>
    BY <1>0, <2>0, WritesShut
  <2>2. PICK s \in Seq(Ops) : s = writes["server"]
    BY <1>0 DEF TypeOK
  <2>3. writes'["server"] \in {s, <<>>} \/ (s # <<>> /\ writes'["server"] = Tail(s))
    <3>1. \A e \in Ends : \/ writes'[e] = writes[e] \/ writes'[e] = <<>>
                          \/ writes[e] # <<>> /\ writes'[e] = Tail(writes[e])
      BY <2>0, WritesShut
    <3> QED BY <1>0, <2>2, <3>1
  <2>4. s # <<>> => \A i \in DOMAIN Tail(s) : i + 1 \in DOMAIN s /\ Tail(s)[i] = s[i + 1]
    OBVIOUS
  <2>5. \A i \in DOMAIN s : s[i].op # "response"
    BY <2>2 DEF Asks
  <2>6. \A i \in DOMAIN writes'["server"] : writes'["server"][i].op # "response"
    <3>1. PICK t : t = writes'["server"]
      OBVIOUS
    <3>2. CASE t = s
      BY <2>5, <3>1, <3>2
    <3>3. CASE t = <<>>
      BY <3>1, <3>3
    <3>4. CASE s # <<>> /\ t = Tail(s)
      BY <2>4, <2>5, <3>1, <3>4
    <3> QED BY <2>3, <3>1, <3>2, <3>3, <3>4
  <2>7. \A i \in DOMAIN done'["server"] : done'["server"][i] # "response"
    BY <2>1 DEF Asks
  <2> QED BY <2>6, <2>7 DEF Asks
<1>3. ASSUME NEW d \in Ends, Transfer(d) PROVE Asks'
  BY <1>3, AsksMoves
<1>4. ASSUME NEW d \in Ends, HeaderWritten(d) \/ BodyWritten(d) \/ RawWritten(d) PROVE Asks'
  <2>1. /\ done[d] # <<>> /\ done' = [done EXCEPT ![d] = Tail(@)]
        /\ UNCHANGED writes \/ \E w \in SpeechOps : Begins(d, w)
    BY <1>4, WrittenBegins
  <2>2. \A i \in DOMAIN done'["server"] : done'["server"][i] # "response"
    BY <2>1, AsksTaken
  <2>3. \A i \in DOMAIN writes'["server"] : writes'["server"][i].op # "response"
    <3>1. CASE UNCHANGED writes
      BY <3>1 DEF Asks
    <3>2. CASE \E w \in SpeechOps : Begins(d, w)
      <4>1. PICK w \in SpeechOps : Begins(d, w)
        BY <3>2
      <4>2. w.op # "response"
        BY Apart DEF MessageOps
      <4>3. PICK s \in Seq(Ops) : s = writes["server"]
        BY <1>0 DEF TypeOK
      <4>4. writes'["server"] = s \/ writes'["server"] = Append(s, w)
        BY <1>0, <4>1, <4>3 DEF Begins, TypeOK
      <4>5. \A i \in DOMAIN Append(s, w) :
               (i \in DOMAIN s /\ Append(s, w)[i] = s[i]) \/ Append(s, w)[i] = w
        OBVIOUS
      <4> QED BY <4>2, <4>3, <4>4, <4>5 DEF Asks
    <3> QED BY <2>1, <3>1, <3>2
  <2> QED BY <2>2, <2>3 DEF Asks
<1>5. ASSUME NEW d \in Ends, RunPosted(d) PROVE Asks'
  <2>1. ASSUME NEW m \in Sendable, Queues(d, m) PROVE Asks'
    <3>1. done' = done /\ (UNCHANGED writes \/ \E w \in SpeechOps : Begins(d, w))
      BY <2>1, WriteMsgBegins DEF Queues
    <3>2. \A w \in SpeechOps : w.op # "response"
      BY Apart DEF MessageOps
    <3> QED BY <1>1, <3>1, <3>2, AsksBegin
  <2> QED BY <1>2, <1>5, <2>1, LambdaRuns
<1>6. ASSUME ConnectToClient PROVE Asks'
  <2>1. CASE CloseSocket("server")
    BY <1>0, <1>2, <2>1, CloseShuts
  <2>2. CASE Start("server", "challenge", <<Nonce>>) /\ UNCHANGED done
    <3>1. "challenge" \in Handshake /\ Nonce \in Numbers
      BY DEF Handshake, Numbers
    <3>2. PICK w \in NumberOps : w.op = "challenge" /\ Begins("server", w)
      BY <1>0, <2>2, <3>1, NumberBegins
    <3> QED BY <1>0, <2>2, <3>2, AsksBegin
  <2> QED BY <1>1, <1>6, <2>1, <2>2 DEF ConnectToClient
<1>7. ASSUME ConnectToServer PROVE Asks'
  BY <1>0, <1>1, <1>2, <1>7, CloseShuts DEF ConnectToServer
<1>8. ASSUME ReadChallenge PROVE Asks'
  <2>1. PICK w \in NumberOps : Begins("client", w)
    BY <1>8, ReadChallengeBegins
  <2>2. done' = done
    BY <1>8 DEF ReadChallenge
  <2> QED BY <1>0, <2>1, <2>2, AsksBegin
<1>9. ASSUME ReadResponse PROVE Asks'
  <2>1. CASE Shuts("server")
    BY <1>0, <1>2, <2>1
  <2>2. CASE Start("server", "notify", <<Proof>>) /\ UNCHANGED done
    <3>1. "notify" \in Handshake /\ Proof \in Numbers
      BY DEF Handshake, Numbers
    <3>2. PICK w \in NumberOps : w.op = "notify" /\ Begins("server", w)
      BY <1>0, <2>2, <3>1, NumberBegins
    <3> QED BY <1>0, <2>2, <3>2, AsksBegin
  <2> QED BY <1>9, <2>1, <2>2, Response DEF Validates
<1>10. ASSUME NEW d \in Ends, ReadHeader(d) \/ ReadBody(d) \/ BodyRead(d) \/ ReadRaw(d) \/ User(d)
       PROVE  Asks'
  BY <1>1, <1>10 DEF ReadHeader, ReadBody, BodyRead, ReadRaw, User, Send, Disconnect
<1>11. ASSUME WaitForValidation PROVE Asks'
  BY <1>1, <1>11 DEF WaitForValidation
<1>12. ASSUME DestroyConnection PROVE Asks'
  BY <1>0, <1>2, <1>12, EndShuts
<1>13. ASSUME NEW d \in Ends, ValidationWritten(d) PROVE Asks'
  <2>1. done[d] # <<>> /\ done' = [done EXCEPT ![d] = Tail(@)] /\ UNCHANGED writes
    BY <1>13 DEF ValidationWritten, Finished
  <2> QED BY <2>1, AsksTaken DEF Asks
<1>14. ASSUME UNCHANGED vars PROVE Asks'
  BY <1>1, <1>14 DEF vars
<1> QED BY <1>2, <1>3, <1>4, <1>5, <1>6, <1>7, <1>8, <1>9, <1>10, <1>11, <1>12, <1>13, <1>14
        DEF Next, Handler

-----------------------------------------------------------------------------
(* What an end has heard.                                                   *)

\* Of the message that is being read.
Partial(p) == IF reading[p] = "body"
              THEN <<HeaderOf(m_msgTemporaryIn[p])>> \o BodyOf(m_msgTemporaryIn[p]) ELSE <<>>

\* Of messages: the words that p has received, that it is reading, and that
\* are on their way to it.
Heard(p) == (WordsOf(received[p]) \o Partial(p)) \o Picked(wire[p], Speech)

\* What a client reads counts until an answer that is no answer, or no notification.
Listening(p) == \/ p = "server" \/ kind = "raw" \/ Asking
                \/ m_nValidationOut = Proof /\ (Responses = 1 \/ reading["client"] # "none")

\* The words w are of the messages q; when c is set, the others are r.
Carried(w, q, c, r) == \E rest \in Seq(Words) : WordsOf(q) = w \o rest /\ (c => rest = r)

\* What the handlers of p may still read: all that comes, or what had come
\* before p closed.
Alive(p) == socket[p] # "closed" \/ reading[p] # "none"

(***************************************************************************)
(* The words of the messages accepted at the other end are those heard,    *)
(* and while that end is connected those that it has still to write.       *)
(***************************************************************************)
Account(p) ==
    Alive(p) /\ Listening(p) =>
        Carried(Heard(p), accepted[Peer(p)], IsConnected(Peer(p)), Remaining(Peer(p)))
Accounts == \A p \in Ends : Account(p)

\* A header that has been read is one of a message.
Announced == \A p \in Ends : reading[p] = "body" => HeaderOf(m_msgTemporaryIn[p]) \in Words

LEMMA WordsOfConcat ==
    ASSUME TypeOK, NEW q \in Seq(Carriable), NEW r \in Seq(Carriable)
    PROVE  WordsOf(q \o r) = WordsOf(q) \o WordsOf(r)
<1>1. PICK F : Writes(F)
  BY WordsMapped
<1>2. Maps(F, Carriable, Words)
  BY <1>1 DEF Writes
<1>3. Mapped(F, q \o r) = Mapped(F, q) \o Mapped(F, r)
  BY <1>2, MappedConcat
<1>4. q \o r \in Seq(Carriable)
  BY Elements
<1> QED BY <1>1, <1>3, <1>4 DEF Writes

\* What is delivered in order is what can be sent.
LEMMA ReceivedCarriable ==
    ASSUME TypeOK, DeliveredInOrder, NEW p \in Ends
    PROVE  /\ received[p] \in Seq(Carriable) /\ accepted[Peer(p)] \in Seq(Carriable)
           /\ kind = "framed" =>
                  \E u \in Seq(Carriable) : accepted[Peer(p)] = received[p] \o u
<1>0. kind \in {"framed", "raw"}
  BY LimitsAssumption DEF TypeOK
<1>1. PICK e \in Ends : e = Peer(p) /\ Peer(e) = p
  BY DEF Peer, Ends
<1>2. accepted[e] \in Seq(Carriable)
  <2>1. accepted[e] \in Seq(Sendable)
    BY DEF TypeOK
  <2> QED BY <2>1, SentIsCarriable, SeqMonotone
<1>3. received[p] \in Seq(Frames)
  BY DEF TypeOK
<1>4. CASE kind = "raw"
  BY <1>1, <1>2, <1>3, <1>4 DEF Carriable
<1>5. CASE kind = "framed"
  <2>1. IsPrefix(received[p], accepted[e])
    BY <1>1, <1>5 DEF DeliveredInOrder, Contents
  <2>2. PICK S : S = Carriable \cup Frames
    OBVIOUS
  <2>3. PICK s \in Seq(S), t \in Seq(S) : s = received[p] /\ t = accepted[e]
    <3>1. Seq(Carriable) \subseteq Seq(S) /\ Seq(Frames) \subseteq Seq(S)
      BY <2>2, SeqMonotone
    <3> QED BY <1>2, <1>3, <3>1
  <2>4. PICK u \in Seq(S) : t = s \o u
    <3>1. IsPrefix(s, t)
      BY <2>1, <2>3
    <3>2. \E u \in Seq(S) : t = s \o u
      BY <3>1, PrefixIsPart
    <3> QED BY <3>2
  <2>5. s \in Seq(Carriable) /\ u \in Seq(Carriable)
    BY <1>2, <2>3, <2>4, FirstPart, SecondPart
  <2> QED BY <1>1, <1>2, <2>3, <2>4, <2>5
<1> QED BY <1>0, <1>4, <1>5

LEMMA PartialType ==
    ASSUME TypeOK, Born, Announced, NEW p \in Ends
    PROVE  /\ Partial(p) \in Seq(Words) /\ (kind = "raw" => Partial(p) = <<>>)
           /\ Picked(wire[p], Speech) \in Seq(Words)
<1>1. Picked(wire[p], Speech) \in Seq(Words)
  <2>1. PICK B : B = Words \cap Speech
    OBVIOUS
  <2>2. Picked(wire[p], Speech) \in Seq(B)
    BY <2>1, PickedType DEF TypeOK
  <2>3. Seq(B) \subseteq Seq(Words)
    BY <2>1, SeqMonotone
  <2> QED BY <2>2, <2>3
<1>2. CASE reading[p] # "body"
  <2>1. <<>> \in Seq(Words)
    OBVIOUS
  <2> QED BY <1>1, <1>2, <2>1 DEF Partial
<1>3. CASE reading[p] = "body"
  <2>1. kind = "framed"
    BY <1>3, LimitsAssumption DEF TypeOK, Reads, OpNames
  <2>2. PICK t \in Frames : t = m_msgTemporaryIn[p]
    BY <1>3 DEF Born
  <2>3. t.body \in Seq(Parts)
    BY <2>1 DEF Frames
  <2>4. BodyOf(t) \in Seq(BodyWords)
    BY <2>3, BodyType
  <2>5. BodyWords \subseteq Words
    BY DEF Words
  <2>6. BodyOf(t) \in Seq(Words)
    BY <2>4, <2>5, SeqMonotone
  <2>7. PICK h \in Words : h = HeaderOf(t)
    BY <1>3, <2>2 DEF Announced
  <2>8. <<h>> \in Seq(Words)
    OBVIOUS
  <2>9. <<h>> \o BodyOf(t) \in Seq(Words)
    BY <2>6, <2>8, Elements
  <2> QED BY <1>1, <1>3, <2>1, <2>2, <2>7, <2>9 DEF Partial
<1> QED BY <1>2, <1>3

LEMMA HeardType ==
    ASSUME TypeOK, Born, Announced, DeliveredInOrder, NEW p \in Ends
    PROVE  /\ WordsOf(received[p]) \in Seq(Words) /\ Heard(p) \in Seq(Words)
           /\ WordsOf(received[p]) \o Partial(p) \in Seq(Words)
<1>1. PICK a \in Seq(Words) : a = WordsOf(received[p])
  <2>1. received[p] \in Seq(Carriable)
    BY ReceivedCarriable
  <2> QED BY <2>1, WordsOfType
<1>2. PICK b \in Seq(Words), c \in Seq(Words) : b = Partial(p) /\ c = Picked(wire[p], Speech)
  BY PartialType
<1>3. PICK d \in Seq(Words) : d = a \o b
  BY Elements
<1>4. d \o c \in Seq(Words)
  BY Elements
<1> QED BY <1>1, <1>2, <1>3, <1>4 DEF Heard

-----------------------------------------------------------------------------
(* What is heard tells the messages that have not been read yet.            *)

\* An end that reads messages listens.
LEMMA ReadsListening ==
    ASSUME TypeOK, Born, AgreementInv, NEW p \in Ends, reading[p] \in {"header", "body", "raw"}
    PROVE  Alive(p) /\ Listening(p)
<1>0. kind \in {"framed", "raw"}
  BY LimitsAssumption DEF TypeOK
<1>1. Alive(p)
  BY DEF Alive
<1>2. CASE kind = "raw"
  BY <1>1, <1>2 DEF Listening
<1>3. CASE kind = "framed"
  <2>1. validated[p] /\ (validated["client"] => validated["server"])
        /\ (validated["server"] => m_nValidationOut = Proof)
    BY <1>3 DEF AgreementInv, HandshakeOK, TypeOK, Reads, OpNames
  <2>2. p = "server" \/ (p = "client" /\ reading["client"] # "none")
    BY DEF Ends
  <2> QED BY <1>1, <2>1, <2>2 DEF Listening
<1> QED BY <1>0, <1>2, <1>3

LEMMA Unread ==
    ASSUME TypeOK, Born, Announced, DeliveredInOrder, kind = "framed",
           NEW p \in Ends, Account(p), Alive(p), Listening(p)
    PROVE  \E u \in Seq(Msgs) : \E rest \in Seq(Words) :
              /\ accepted[Peer(p)] = received[p] \o u
              /\ WordsOf(u) = Partial(p) \o (Picked(wire[p], Speech) \o rest)
<1>1. PICK u \in Seq(Carriable) : accepted[Peer(p)] = received[p] \o u
  BY ReceivedCarriable
<1>2. PICK s \in Seq(Carriable) : s = received[p]
  BY ReceivedCarriable
<1>3. PICK rest \in Seq(Words) : WordsOf(accepted[Peer(p)]) = Heard(p) \o rest
  BY DEF Account, Carried
<1>4. PICK a \in Seq(Words), b \in Seq(Words) : a = WordsOf(s) /\ b = WordsOf(u)
  <2>1. WordsOf(s) \in Seq(Words) /\ WordsOf(u) \in Seq(Words)
    BY WordsOfType
  <2> QED BY <2>1
<1>5. PICK c \in Seq(Words), w \in Seq(Words) : c = Partial(p) /\ w = Picked(wire[p], Speech)
  BY PartialType
<1>6. a \o b = ((a \o c) \o w) \o rest
  <2>1. WordsOf(s \o u) = a \o b
    BY <1>4, WordsOfConcat
  <2>2. Heard(p) = (a \o c) \o w
    BY <1>2, <1>4, <1>5 DEF Heard
  <2> QED BY <1>1, <1>2, <1>3, <2>1, <2>2
<1>7. PICK v \in Seq(Words) : v = w \o rest
  BY Elements
<1>8. ((a \o c) \o w) \o rest = a \o (c \o v)
  <2>1. PICK d \in Seq(Words) : d = a \o c
    BY Elements
  <2>2. (d \o w) \o rest = d \o v
    <3>1. Grouped(d, w, rest)
      BY Associates
    <3> QED BY <1>7, <3>1 DEF Grouped
  <2>3. (a \o c) \o v = a \o (c \o v)
    <3>1. Grouped(a, c, v)
      BY Associates
    <3> QED BY <3>1 DEF Grouped
  <2> QED BY <2>1, <2>2, <2>3
<1>9. PICK d \in Seq(Words) : d = c \o v
  BY Elements
<1>10. b = c \o v
  <2>1. a \o b = a \o d
    BY <1>6, <1>8, <1>9
  <2>2. b = d
    BY <2>1, SameCut
  <2> QED BY <1>9, <2>2
<1>11. u \in Seq(Msgs)
  BY DEF Carriable
<1> QED BY <1>1, <1>4, <1>5, <1>7, <1>10, <1>11

\* The first message with these words.
LEMMA FirstUnread ==
    ASSUME TypeOK, kind = "framed", NEW u \in Seq(Msgs), NEW h \in Words, NEW b \in Seq(Words),
           NEW c \in Seq(Words), WordsOf(u) = (<<h>> \o b) \o c
    PROVE  /\ u # <<>> /\ Head(u) \in Msgs /\ Tail(u) \in Seq(Msgs) /\ HeaderOf(Head(u)) = h
           /\ BodyOf(Head(u)) \o WordsOf(Tail(u)) = b \o c
<1>0. Carriable = Msgs /\ Sendable = Msgs
  BY DEF Carriable, Sendable
<1>1. PICK o \in Seq(Words) : o = <<h>> /\ Len(o) = 1
  <2>1. <<h>> \in Seq(Words) /\ Len(<<h>>) = 1
    OBVIOUS
  <2> QED BY <2>1
<1>2. PICK d \in Seq(Words) : d = b \o c
  BY Elements
<1>3. WordsOf(u) = o \o d
  <2>1. (o \o b) \o c = o \o (b \o c)
    <3>1. Grouped(o, b, c)
      BY Associates
    <3> QED BY <3>1 DEF Grouped
  <2> QED BY <1>1, <1>2, <2>1
<1>4. u # <<>>
  <2>1. Len(o \o d) = Len(o) + Len(d) /\ Len(d) \in Nat
    BY Elements
  <2>2. o \o d # <<>>
    <3>1. PICK z : z = o \o d
      OBVIOUS
    <3>2. Len(z) # 0
      BY <1>1, <2>1, <3>1
    <3> QED BY <3>1, <3>2
  <2> QED BY <1>3, <2>2, WordsOfEmpty
<1>5. PICK m \in Msgs, t \in Seq(Msgs) : m = Head(u) /\ t = Tail(u)
  <2>1. Head(u) \in Msgs /\ Tail(u) \in Seq(Msgs)
    BY <1>4
  <2> QED BY <2>1
<1>6. WordsOf(u) = Whole(m) \o WordsOf(t)
  BY <1>0, <1>4, <1>5, WordsOfHead
<1>7. PICK g \in Words, e \in Seq(Words), f \in Seq(Words) :
         g = HeaderOf(m) /\ e = BodyOf(m) /\ f = WordsOf(t)
  <2>1. HeaderOf(m) \in Words /\ BodyOf(m) \in Seq(Words) /\ WordsOf(t) \in Seq(Words)
    BY <1>0, WordsType, WordsOfType
  <2> QED BY <2>1
<1>8. PICK n \in Seq(Words) : n = <<g>> /\ Len(n) = 1
  <2>1. <<g>> \in Seq(Words) /\ Len(<<g>>) = 1
    OBVIOUS
  <2> QED BY <2>1
<1>9. PICK k \in Seq(Words) : k = e \o f
  BY Elements
<1>10. WordsOf(u) = n \o k
  <2>1. Whole(m) = n \o e
    BY <1>7, <1>8 DEF Whole
  <2>2. (n \o e) \o f = n \o (e \o f)
    <3>1. Grouped(n, e, f)
      BY Associates
    <3> QED BY <3>1 DEF Grouped
  <2> QED BY <1>6, <1>7, <1>9, <2>1, <2>2
<1>11. n = o /\ k = d
  <2>1. n \o k = o \o d
    BY <1>3, <1>10
  <2> QED BY <1>1, <1>8, <2>1, SameCut
<1>12. g = h
  BY <1>1, <1>8, <1>11
<1> QED BY <1>2, <1>4, <1>5, <1>7, <1>9, <1>11, <1>12

LEMMA SameHeader ==
    ASSUME NEW m, NEW t, HeaderOf(m) = HeaderOf(t) PROVE m.type = t.type /\ m.size = t.size
<1>1. HeaderOf(m).type = m.type /\ HeaderOf(m).size = m.size
  BY DEF HeaderOf
<1>2. HeaderOf(t).type = t.type /\ HeaderOf(t).size = t.size
  BY DEF HeaderOf
<1> QED BY <1>1, <1>2

LEMMA SameBody ==
    ASSUME NEW m, NEW t, m.body \in Seq(Parts), t.body \in Seq(Parts), BodyOf(m) = BodyOf(t)
    PROVE  m.body = t.body
<1>1. PICK a \in Seq(Parts), b \in Seq(Parts) : a = m.body /\ b = t.body
  OBVIOUS
<1>2. Len(a) = Len(b)
  <2>1. Len(BodyOf(m)) = Len(a) /\ Len(BodyOf(t)) = Len(b)
    BY <1>1, BodyType
  <2> QED BY <2>1
<1>3. ASSUME NEW i \in 1..Len(a) PROVE a[i] = b[i]
  <2>1. BodyOf(m)[i] = [word |-> "body", part |-> a[i]]
    BY <1>1 DEF BodyOf
  <2>2. BodyOf(t)[i] = [word |-> "body", part |-> b[i]]
    BY <1>1, <1>2 DEF BodyOf
  <2>3. BodyOf(m)[i].part = a[i] /\ BodyOf(t)[i].part = b[i]
    BY <2>1, <2>2
  <2> QED BY <2>3
<1> QED BY <1>1, <1>2, <1>3

\* Header and body make the message.
LEMMA SameMessage ==
    ASSUME kind = "framed", NEW m \in Msgs, NEW t \in Frames, HeaderOf(m) = HeaderOf(t),
           BodyOf(m) = BodyOf(t)
    PROVE  m = t
<1>1. m = [type |-> m.type, size |-> m.size, body |-> m.body] /\ m.body \in Seq(Parts)
  BY MsgsAssumption
<1>2. t = [type |-> t.type, size |-> t.size, body |-> t.body] /\ t.body \in Seq(Parts)
  BY DEF Frames
<1>3. m.type = t.type /\ m.size = t.size
  BY SameHeader
<1>4. m.body = t.body
  BY <1>1, <1>2, SameBody
<1> QED BY <1>1, <1>2, <1>3, <1>4

-----------------------------------------------------------------------------
(* What a step does to the account.                                         *)

LEMMA AccountFrom ==
    ASSUME UNCHANGED kind, NEW p \in Ends, NEW q, accepted'[Peer(p)] = q,
           Alive(p)' /\ Listening(p)' =>
              \E rest \in Seq(Words) : /\ WordsOf(q) = Heard(p)' \o rest
                                       /\ IsConnected(Peer(p))' => rest = Remaining(Peer(p))'
    PROVE  Account(p)'
<1>1. WordsOf(q)' = WordsOf(q) /\ Words' = Words
  BY WordsKept
<1> QED BY <1>1 DEF Account, Carried

LEMMA AccountOf ==
    ASSUME NEW p \in Ends, Account(p), Alive(p), Listening(p)
    PROVE  \E rest \in Seq(Words) : /\ WordsOf(accepted[Peer(p)]) = Heard(p) \o rest
                                    /\ IsConnected(Peer(p)) => rest = Remaining(Peer(p))
BY DEF Account, Carried

\* Nothing is heard, accepted or written.
LEMMA AccountKept ==
    ASSUME UNCHANGED kind, NEW p \in Ends, Account(p),
           Alive(p)' /\ Listening(p)' =>
               Alive(p) /\ Listening(p) /\ Heard(p)' = Heard(p),
           accepted'[Peer(p)] = accepted[Peer(p)],
           IsConnected(Peer(p))' =>
               IsConnected(Peer(p)) /\ Remaining(Peer(p))' = Remaining(Peer(p))
    PROVE  Account(p)'
<1>1. PICK q : q = accepted[Peer(p)] /\ accepted'[Peer(p)] = q
  OBVIOUS
<1>2. ASSUME Alive(p)', Listening(p)'
      PROVE  \E rest \in Seq(Words) : /\ WordsOf(q) = Heard(p)' \o rest
                                      /\ IsConnected(Peer(p))' => rest = Remaining(Peer(p))'
  BY <1>1, <1>2, AccountOf
<1> QED BY <1>1, <1>2, AccountFrom

\* Words are moved from the one end to the other.
LEMMA AccountMoves ==
    ASSUME TypeOK, Born, Announced, DeliveredInOrder, UNCHANGED kind, NEW p \in Ends, Account(p),
           Alive(p)' /\ Listening(p)' => Alive(p) /\ Listening(p),
           accepted'[Peer(p)] = accepted[Peer(p)], IsConnected(Peer(p)),
           NEW x \in Seq(Words), NEW r \in Seq(Words), Heard(p)' = Heard(p) \o x,
           Remaining(Peer(p)) = x \o r, Remaining(Peer(p))' = r
    PROVE  Account(p)'
<1>1. PICK q : q = accepted[Peer(p)] /\ accepted'[Peer(p)] = q
  OBVIOUS
<1>2. ASSUME Alive(p)', Listening(p)'
      PROVE  \E rest \in Seq(Words) : /\ WordsOf(q) = Heard(p)' \o rest
                                      /\ IsConnected(Peer(p))' => rest = Remaining(Peer(p))'
  <2>1. WordsOf(q) = Heard(p) \o (x \o r)
    BY <1>1, <1>2, AccountOf
  <2>2. PICK h \in Seq(Words) : h = Heard(p)
    BY HeardType
  <2>3. Grouped(h, x, r)
    BY Associates
  <2> QED BY <2>1, <2>2, <2>3 DEF Grouped
<1> QED BY <1>1, <1>2, AccountFrom

\* A message is accepted.
LEMMA AccountQueued ==
    ASSUME TypeOK, Born, Announced, DeliveredInOrder, UNCHANGED kind, NEW p \in Ends, Account(p),
           Alive(p)' /\ Listening(p)' =>
               Alive(p) /\ Listening(p) /\ Heard(p)' = Heard(p),
           NEW m \in Sendable, accepted'[Peer(p)] = Append(accepted[Peer(p)], m),
           IsConnected(Peer(p))' =>
               IsConnected(Peer(p)) /\ Remaining(Peer(p))' = Remaining(Peer(p)) \o Whole(m)
    PROVE  Account(p)'
<1>1. PICK q \in Seq(Carriable) : q = accepted[Peer(p)]
  BY ReceivedCarriable
<1>2. PICK s : s = Append(q, m) /\ accepted'[Peer(p)] = s
  BY <1>1
<1>3. m \in Carriable
  BY SentIsCarriable
<1>4. PICK x \in Seq(Words) : x = Whole(m)
  BY <1>3, WholeType
<1>5. WordsOf(s) = WordsOf(q) \o x
  BY <1>2, <1>3, <1>4, WordsOfAppend
<1>6. ASSUME Alive(p)', Listening(p)'
      PROVE  \E rest \in Seq(Words) : /\ WordsOf(s) = Heard(p)' \o rest
                                      /\ IsConnected(Peer(p))' => rest = Remaining(Peer(p))'
  <2>1. PICK rest \in Seq(Words) : /\ WordsOf(q) = Heard(p) \o rest
                                   /\ IsConnected(Peer(p)) => rest = Remaining(Peer(p))
    BY <1>1, <1>6, AccountOf
  <2>2. PICK h \in Seq(Words) : h = Heard(p)
    BY HeardType
  <2>3. Grouped(h, rest, x)
    BY Associates
  <2>4. PICK t \in Seq(Words) : t = rest \o x
    BY Elements
  <2>5. WordsOf(s) = h \o t
    BY <1>5, <2>1, <2>2, <2>3, <2>4 DEF Grouped
  <2>6. IsConnected(Peer(p))' => t = Remaining(Peer(p))'
    BY <1>4, <2>1, <2>4
  <2> QED BY <1>6, <2>2, <2>5, <2>6
<1> QED BY <1>2, <1>6, AccountFrom

LEMMA HeardKept ==
    ASSUME UNCHANGED kind, NEW p \in Ends, wire'[p] = wire[p], received'[p] = received[p],
           Partial(p)' = Partial(p)
    PROVE  Heard(p)' = Heard(p)
<1>1. PICK q, w : q = received[p] /\ w = wire[p]
  OBVIOUS
<1>2. WordsOf(q)' = WordsOf(q) /\ Speech' = Speech
  BY WordsKept, SpeechKept
<1> QED BY <1>1, <1>2 DEF Heard

LEMMA PartialKept ==
    ASSUME NEW p \in Ends,
           \/ reading'[p] = reading[p] /\ m_msgTemporaryIn'[p] = m_msgTemporaryIn[p]
           \/ reading[p] # "body" /\ reading'[p] # "body"
    PROVE  Partial(p)' = Partial(p)
BY DEF Partial, HeaderOf, BodyOf

\* A number of the handshake is taken from what comes to p, and p reads on
\* with no message under way.
LEMMA HeardNumber ==
    ASSUME TypeOK, UNCHANGED kind, NEW p \in Ends, wire[p] # <<>>, Taken(p),
           Head(wire[p]) \in Numbers, received'[p] = received[p],
           reading[p] # "body", reading'[p] # "body"
    PROVE  Heard(p)' = Heard(p)
<1>1. PICK s \in Seq(Words) : s = wire[p] /\ s # <<>>
  BY DEF TypeOK
<1>2. wire'[p] = Tail(s)
  BY <1>1 DEF Taken, TypeOK
<1>3. Picked(s, Speech) = Picked(Tail(s), Speech)
  <2>1. Head(s) \notin Speech
    BY <1>1, Apart
  <2> QED BY <1>1, <2>1, PickedHead
<1>4. PICK q : q = received[p] /\ received'[p] = q
  OBVIOUS
<1>5. WordsOf(q)' = WordsOf(q) /\ Speech' = Speech
  BY WordsKept, SpeechKept
<1>6. Partial(p)' = Partial(p)
  BY PartialKept
<1> QED BY <1>1, <1>2, <1>3, <1>4, <1>5, <1>6 DEF Heard

\* A word is taken from the stream and added to what is being read.
LEMMA HeardTakes ==
    ASSUME TypeOK, Born, Announced, DeliveredInOrder, UNCHANGED kind, NEW p \in Ends,
           wire[p] # <<>>, Taken(p), Head(wire[p]) \in Speech, received'[p] = received[p],
           Partial(p)' = Append(Partial(p), Head(wire[p]))
    PROVE  Heard(p)' = Heard(p)
<1>1. PICK s \in Seq(Words) : s = wire[p] /\ s # <<>>
  BY DEF TypeOK
<1>2. PICK h \in Words, r \in Seq(Words) : h = Head(s) /\ r = Tail(s)
  <2>1. Head(s) \in Words /\ Tail(s) \in Seq(Words)
    BY <1>1
  <2> QED BY <2>1
<1>3. wire'[p] = r
  BY <1>1, <1>2 DEF Taken, TypeOK
<1>4. PICK t \in Seq(Words) :
          t = Picked(s, Speech) /\ t # <<>> /\ Head(t) = h /\ Tail(t) = Picked(r, Speech)
  <2>1. Picked(s, Speech) \in Seq(Words)
    BY <1>1, PartialType
  <2> QED BY <1>1, <1>2, <2>1, PickedHead
<1>5. PICK q : q = received[p] /\ received'[p] = q
  OBVIOUS
<1>6. WordsOf(q)' = WordsOf(q) /\ Speech' = Speech
  BY WordsKept, SpeechKept
<1>7. PICK a \in Seq(Words), b \in Seq(Words) : a = WordsOf(q) /\ b = Partial(p)
  BY <1>5, HeardType, PartialType
<1>8. PICK c \in Seq(Words) : c = a \o b
  BY Elements
<1>9. a \o Append(b, h) = Append(c, h)
  <2>1. a \o Append(b, h) = Append(a \o b, h)
    BY ConcatAppend
  <2> QED BY <1>8, <2>1
<1>10. c \o t = Append(c, h) \o Tail(t)
  BY <1>4, HeadMoves
<1>11. Heard(p) = c \o t
  BY <1>1, <1>4, <1>5, <1>7, <1>8 DEF Heard
<1>12. Heard(p)' = (a \o Append(b, h)) \o Tail(t)
  BY <1>1, <1>2, <1>3, <1>4, <1>5, <1>6, <1>7 DEF Heard
<1> QED BY <1>9, <1>10, <1>11, <1>12

\* Every message has the size of what it is made of.
Sized == \A m \in Msgs : m.size = full_size(m)

LEMMA SizedBody ==
    ASSUME Sized, NEW m \in Msgs
    PROVE  m.size \in Nat /\ m.size > 0 /\ m.size - 1 = Len(m.body) /\ m.body \in Seq(Parts)
<1>1. PICK b \in Seq(Parts) : b = m.body
  BY MsgsAssumption
<1>2. m.size = 1 + Len(b) /\ Len(b) \in Nat
  BY <1>1 DEF Sized, full_size, HeaderSize
<1> QED BY <1>1, <1>2

\* A header that has a size is kept until its body is there.
LEMMA HeaderKept ==
    ASSUME TypeOK, Born, Sized, NEW p \in Ends, ReadHeader(p)
    PROVE  /\ kind = "framed" /\ wire[p] # <<>> /\ Taken(p) /\ reading[p] = "header"
           /\ reading'[p] \in {"body", "none"} /\ (Alive(p)' => reading'[p] = "body")
           /\ \A d \in Ends : d # p => reading'[d] = reading[d]
           /\ UNCHANGED <<socket, writes, done, m_qMessagesOut, posted, accepted, received,
                          validated, m_nValidationOut>>
           /\ \E m \in Msgs, in \in Frames :
                 /\ Head(wire[p]) = HeaderOf(m) /\ HeaderOf(in) = HeaderOf(m) /\ in.body = <<>>
                 /\ m_msgTemporaryIn' = [m_msgTemporaryIn EXCEPT ![p] = in]
<1>1. PICK m \in Msgs, in \in Frames : HeaderMakes(p, m, in)
  BY HeaderRead
<1>2. m.size > 0
  BY SizedBody
<1>3. /\ kind = "framed" /\ wire[p] # <<>> /\ Head(wire[p]) = HeaderOf(m)
      /\ in = [type |-> m.type, size |-> m.size, body |-> <<>>]
      /\ m_msgTemporaryIn' = [m_msgTemporaryIn EXCEPT ![p] = in]
      /\ ReadOn(p, "body", m.size = 1) /\ UNCHANGED received
  BY <1>1, <1>2 DEF HeaderMakes
<1>4. in.type = m.type /\ in.size = m.size /\ in.body = <<>>
  BY <1>3
<1>5. HeaderOf(in) = HeaderOf(m)
  BY <1>4 DEF HeaderOf
<1>6. /\ Taken(p) /\ reading[p] = "header"
      /\ UNCHANGED <<socket, writes, done, m_qMessagesOut, posted, accepted, validated,
                     m_nValidationOut>>
  BY DEF ReadHeader, Arrives, writeVars, userVars
<1>7. /\ reading'[p] \in {"body", "none"} /\ (socket[p] = "open" => reading'[p] = "body")
      /\ \A d \in Ends : d # p => reading'[d] = reading[d]
  BY <1>3, ReadingOn
<1>8. socket[p] \in {"open", "closed"}
  BY <1>6 DEF Born, TypeOK
<1>9. Alive(p)' => reading'[p] = "body"
  BY <1>6, <1>7, <1>8 DEF Alive
<1> QED BY <1>3, <1>4, <1>5, <1>6, <1>7, <1>9

LEMMA HeardHeader ==
    ASSUME TypeOK, Born, Announced, DeliveredInOrder, UNCHANGED kind, Sized, NEW p \in Ends,
           ReadHeader(p), Alive(p)'
    PROVE  Heard(p)' = Heard(p)
<1>1. PICK m \in Msgs, in \in Frames :
         /\ Head(wire[p]) = HeaderOf(m) /\ HeaderOf(in) = HeaderOf(m) /\ in.body = <<>>
         /\ m_msgTemporaryIn' = [m_msgTemporaryIn EXCEPT ![p] = in]
  BY HeaderKept
<1>2. /\ kind = "framed" /\ wire[p] # <<>> /\ Taken(p) /\ reading[p] = "header"
      /\ reading'[p] = "body" /\ UNCHANGED received
  BY HeaderKept
<1>3. PICK h : h = HeaderOf(m) /\ h \in Speech
  BY <1>2, HeaderSpeaks
<1>4. BodyOf(in) = <<>>
  BY <1>1 DEF BodyOf
<1>5. reading'[p] = "body" /\ m_msgTemporaryIn'[p] = in
  BY <1>1, <1>2 DEF TypeOK
<1>6. Partial(p)' = <<h>> \o <<>>
  <2>1. Partial(p)' = <<HeaderOf(in)>> \o BodyOf(in)
    BY <1>5 DEF Partial, HeaderOf, BodyOf
  <2> QED BY <1>1, <1>3, <1>4, <2>1
<1>7. Partial(p)' = Append(Partial(p), Head(wire[p]))
  <2>1. Partial(p) = <<>>
    BY <1>2 DEF Partial
  <2>2. <<h>> \o <<>> = Append(<<>>, h)
    OBVIOUS
  <2> QED BY <1>1, <1>3, <1>6, <2>1, <2>2
<1> QED BY <1>1, <1>2, <1>3, <1>7, HeardTakes

LEMMA BodyGrows ==
    ASSUME NEW m, m.body \in Seq(Parts), NEW in, NEW part \in Parts,
           in.body = Append(m.body, part)
    PROVE  BodyOf(in) = Append(BodyOf(m), [word |-> "body", part |-> part])
<1>1. PICK b \in Seq(Parts) : b = m.body
  OBVIOUS
<1>2. PICK c \in Seq(Parts) : c = Append(b, part)
  <2>1. Append(b, part) \in Seq(Parts)
    OBVIOUS
  <2> QED BY <2>1
<1>3. /\ Len(c) = Len(b) + 1 /\ c[Len(b) + 1] = part /\ \A i \in 1..Len(b) : c[i] = b[i]
      /\ Len(b) \in Nat
  BY <1>2
<1>4. PICK w : w = [word |-> "body", part |-> part]
  OBVIOUS
<1>5. PICK f \in Seq(BodyWords), g \in Seq(BodyWords) :
         /\ f = BodyOf(m) /\ Len(f) = Len(b) /\ g = BodyOf(in) /\ Len(g) = Len(c)
  <2>1. /\ BodyOf(m) \in Seq(BodyWords) /\ Len(BodyOf(m)) = Len(b)
        /\ BodyOf(in) \in Seq(BodyWords) /\ Len(BodyOf(in)) = Len(c)
    BY <1>1, <1>2, BodyType
  <2> QED BY <2>1
<1>6. /\ \A i \in 1..Len(b) : f[i] = [word |-> "body", part |-> b[i]]
      /\ \A i \in 1..Len(c) : g[i] = [word |-> "body", part |-> c[i]]
  BY <1>1, <1>2, <1>5 DEF BodyOf
<1>7. w \in BodyWords
  BY <1>4 DEF BodyWords
<1>8. PICK k \in Seq(BodyWords) : /\ k = Append(f, w) /\ Len(k) = Len(f) + 1
                                  /\ k[Len(f) + 1] = w /\ \A i \in 1..Len(f) : k[i] = f[i]
  <2>1. /\ Append(f, w) \in Seq(BodyWords) /\ Len(Append(f, w)) = Len(f) + 1
        /\ Append(f, w)[Len(f) + 1] = w /\ \A i \in 1..Len(f) : Append(f, w)[i] = f[i]
    BY <1>7
  <2> QED BY <2>1
<1>9. ASSUME NEW i \in 1..Len(c) PROVE g[i] = k[i]
  <2>0. g[i] = [word |-> "body", part |-> c[i]]
    BY <1>6
  <2>1. CASE i \in 1..Len(b)
    <3>1. c[i] = b[i] /\ f[i] = [word |-> "body", part |-> b[i]]
      BY <1>3, <1>6, <2>1
    <3>2. k[i] = f[i]
      BY <1>5, <1>8, <2>1
    <3> QED BY <2>0, <3>1, <3>2
  <2>2. CASE i = Len(b) + 1
    <3>1. k[i] = w
      BY <1>5, <1>8, <2>2
    <3> QED BY <1>3, <1>4, <2>0, <2>2, <3>1
  <2> QED BY <1>3, <2>1, <2>2
<1>10. g = k
  BY <1>3, <1>5, <1>8, <1>9, SeqEqual
<1> QED BY <1>4, <1>5, <1>8, <1>10

LEMMA HeardPart ==
    ASSUME TypeOK, Born, Announced, DeliveredInOrder, UNCHANGED kind, NEW p \in Ends, ReadBody(p)
    PROVE  /\ Heard(p)' = Heard(p)
           /\ HeaderOf(m_msgTemporaryIn[p])' = HeaderOf(m_msgTemporaryIn[p])
<1>1. PICK part \in Parts, in \in Frames : PartMakes(p, part, in)
  BY PartRead
<1>2. PICK t \in Frames : t = m_msgTemporaryIn[p]
  BY <1>1 DEF PartMakes
<1>3. /\ kind = "framed" /\ wire[p] # <<>> /\ in = [t EXCEPT !.body = Append(t.body, part)]
      /\ m_msgTemporaryIn'[p] = in /\ reading[p] = "body" /\ reading' = reading /\ Taken(p)
      /\ received' = received
  BY <1>1, <1>2 DEF PartMakes, TypeOK, ReadBody, Arrives
<1>4. PICK w : w = [word |-> "body", part |-> part] /\ Head(wire[p]) = w
  BY <1>1 DEF PartMakes
<1>5. t.body \in Seq(Parts) /\ t = [type |-> t.type, size |-> t.size, body |-> t.body]
  BY <1>3 DEF Frames
<1>6. in.body = Append(t.body, part) /\ in.type = t.type /\ in.size = t.size
  BY <1>3, <1>5
<1>7. BodyOf(in) = Append(BodyOf(t), w)
  BY <1>4, <1>5, <1>6, BodyGrows
<1>8. HeaderOf(in) = HeaderOf(t)
  BY <1>6 DEF HeaderOf
<1>9. PICK h \in Words : h = HeaderOf(t)
  BY <1>2, <1>3 DEF Announced
<1>10. w \in BodyWords /\ w \in Speech /\ w \in Words
  BY <1>4, Apart DEF BodyWords, Speech
<1>11. PICK b \in Seq(Words) : b = BodyOf(t)
  <2>1. BodyOf(t) \in Seq(BodyWords)
    BY <1>5, BodyType
  <2>2. BodyWords \subseteq Words
    BY DEF Words
  <2> QED BY <2>1, <2>2, SeqMonotone
<1>12. PICK o \in Seq(Words) : o = <<h>>
  <2>1. <<h>> \in Seq(Words)
    OBVIOUS
  <2> QED BY <2>1
<1>13. o \o Append(b, w) = Append(o \o b, w)
  BY <1>10, ConcatAppend
<1>14. Partial(p) = o \o b
  BY <1>2, <1>3, <1>9, <1>11, <1>12 DEF Partial
<1>15. Partial(p)' = o \o Append(b, w)
  <2>1. Partial(p)' = <<HeaderOf(in)>> \o BodyOf(in)
    BY <1>3 DEF Partial, HeaderOf, BodyOf
  <2> QED BY <1>7, <1>8, <1>9, <1>11, <1>12, <2>1
<1>16. Heard(p)' = Heard(p)
  BY <1>3, <1>4, <1>10, <1>13, <1>14, <1>15, HeardTakes
<1> QED BY <1>2, <1>3, <1>8, <1>16 DEF HeaderOf

\* The message that has been read is the first one of those not delivered.
LEMMA BodyIsNext ==
    ASSUME TypeOK, Born, AgreementInv, Announced, DeliveredInOrder, Sized, NEW p \in Ends,
           Account(p), BodyRead(p)
    PROVE  /\ kind = "framed" /\ m_msgTemporaryIn[p] \in Msgs
           /\ \E t \in Seq(Msgs) :
                 accepted[Peer(p)] = Append(received[p], m_msgTemporaryIn[p]) \o t
<1>1. reading[p] = "body" /\ Len(m_msgTemporaryIn[p].body) = m_msgTemporaryIn[p].size - 1
  BY DEF BodyRead, Wanted
<1>2. kind = "framed"
  BY <1>1, LimitsAssumption DEF TypeOK, Reads, OpNames
<1>3. PICK in \in Frames : in = m_msgTemporaryIn[p]
  BY <1>1 DEF Born
<1>4. Alive(p) /\ Listening(p)
  BY <1>1, ReadsListening
<1>5. PICK u \in Seq(Msgs) : \E rest \in Seq(Words) :
         /\ accepted[Peer(p)] = received[p] \o u
         /\ WordsOf(u) = Partial(p) \o (Picked(wire[p], Speech) \o rest)
  BY <1>2, <1>4, Unread
<1>6. PICK rest \in Seq(Words) : WordsOf(u) = Partial(p) \o (Picked(wire[p], Speech) \o rest)
  BY <1>5
<1>7. PICK w \in Seq(Words) : w = Picked(wire[p], Speech)
  BY PartialType
<1>8. PICK c \in Seq(Words) : c = w \o rest
  BY Elements
<1>9. PICK h \in Words : h = HeaderOf(in)
  BY <1>1, <1>3 DEF Announced
<1>10. PICK b \in Seq(Words) : b = BodyOf(in) /\ Len(b) = Len(in.body)
  <2>1. in.body \in Seq(Parts)
    BY <1>2 DEF Frames
  <2>2. BodyOf(in) \in Seq(BodyWords) /\ Len(BodyOf(in)) = Len(in.body)
    BY <2>1, BodyType
  <2>3. BodyWords \subseteq Words
    BY DEF Words
  <2> QED BY <2>2, <2>3, SeqMonotone
<1>11. Partial(p) = <<h>> \o b
  BY <1>1, <1>3, <1>9, <1>10 DEF Partial
<1>12. WordsOf(u) = (<<h>> \o b) \o c
  BY <1>6, <1>7, <1>8, <1>11
<1>13. /\ u # <<>> /\ Head(u) \in Msgs /\ Tail(u) \in Seq(Msgs) /\ HeaderOf(Head(u)) = h
       /\ BodyOf(Head(u)) \o WordsOf(Tail(u)) = b \o c
  BY <1>2, <1>12, FirstUnread
<1>14. PICK m \in Msgs, t \in Seq(Msgs) : m = Head(u) /\ t = Tail(u)
  BY <1>13
<1>15. m.size = in.size
  BY <1>9, <1>13, <1>14, SameHeader
<1>16. Len(m.body) = Len(in.body)
  <2>1. m.size - 1 = Len(m.body)
    BY SizedBody
  <2> QED BY <1>1, <1>3, <1>15, <2>1
<1>17. PICK d \in Seq(Words), v \in Seq(Words) :
          d = BodyOf(m) /\ v = WordsOf(t) /\ Len(d) = Len(m.body)
  <2>1. m \in Sendable /\ Carriable = Msgs
    BY <1>2 DEF Sendable, Carriable
  <2>2. BodyOf(m) \in Seq(Words) /\ WordsOf(t) \in Seq(Words) /\ Len(BodyOf(m)) = Len(m.body)
    BY <2>1, WordsType, WordsOfType
  <2> QED BY <2>2
<1>18. d = b
  <2>1. d \o v = b \o c /\ Len(d) = Len(b)
    BY <1>10, <1>13, <1>14, <1>16, <1>17
  <2> QED BY <2>1, SameCut
<1>19. m = in
  <2>1. HeaderOf(m) = HeaderOf(in) /\ BodyOf(m) = BodyOf(in)
    BY <1>9, <1>10, <1>13, <1>14, <1>17, <1>18
  <2> QED BY <1>2, <2>1, SameMessage
<1>20. received[p] \in Seq(Msgs)
  <2>1. Carriable = Msgs
    BY <1>2 DEF Carriable
  <2> QED BY <2>1, ReceivedCarriable
<1>21. received[p] \o u = Append(received[p], m) \o t
  BY <1>13, <1>14, <1>20, HeadMoves
<1> QED BY <1>2, <1>3, <1>5, <1>14, <1>19, <1>21

LEMMA HeardBody ==
    ASSUME TypeOK, Born, AgreementInv, Announced, DeliveredInOrder, UNCHANGED kind, Sized,
           NEW p \in Ends, Account(p), BodyRead(p)
    PROVE  Heard(p)' = Heard(p)
<1>1. kind = "framed" /\ m_msgTemporaryIn[p] \in Msgs
  BY BodyIsNext
<1>2. PICK m \in Msgs : m = m_msgTemporaryIn[p]
  BY <1>1
<1>3. PICK q : q = received[p] /\ q \in Seq(Carriable)
  BY ReceivedCarriable
<1>4. /\ reading[p] = "body" /\ reading'[p] # "body" /\ wire' = wire
      /\ received'[p] = Append(q, m)
  <2>1. reading[p] = "body" /\ wire' = wire /\ AddToIncomingMessageQueue(p, m_msgTemporaryIn[p])
    BY DEF BodyRead
  <2>2. reading'[p] # "body"
    BY <2>1, ReadingNext
  <2>3. received'[p] = Append(q, m)
    BY <1>2, <1>3, <2>1 DEF AddToIncomingMessageQueue, TypeOK
  <2> QED BY <2>1, <2>2, <2>3
<1>5. m \in Carriable
  BY <1>1 DEF Carriable
<1>6. PICK s : s = Append(q, m) /\ received'[p] = s
  BY <1>4
<1>7. WordsOf(s) = WordsOf(q) \o Whole(m)
  BY <1>3, <1>5, <1>6, WordsOfAppend
<1>8. Partial(p) = Whole(m) /\ Partial(p)' = <<>>
  BY <1>1, <1>2, <1>4 DEF Partial, Whole
<1>9. PICK a \in Seq(Words) : a = WordsOf(s)
  <2>1. Append(q, m) \in Seq(Carriable)
    BY <1>3, <1>5
  <2> QED BY <1>6, <2>1, WordsOfType
<1>10. a \o <<>> = a
  BY ConcatEmptySeq
<1>11. WordsOf(s)' = WordsOf(s) /\ Speech' = Speech
  BY WordsKept, SpeechKept
<1>12. PICK w : w = Picked(wire[p], Speech) /\ Picked(wire[p], Speech)' = w
  BY <1>4, <1>11
<1>13. Heard(p) = a \o w
  BY <1>3, <1>7, <1>8, <1>9, <1>12 DEF Heard
<1>14. Heard(p)' = (a \o <<>>) \o w
  BY <1>6, <1>8, <1>9, <1>11, <1>12 DEF Heard
<1> QED BY <1>10, <1>13, <1>14

\* A part of what has arrived is delivered.
LEMMA HeardRaw ==
    ASSUME TypeOK, Born, Announced, DeliveredInOrder, UNCHANGED kind, NEW p \in Ends, ReadRaw(p)
    PROVE  Heard(p)' = Heard(p)
<1>0. reading[p] = "raw"
  BY DEF ReadRaw, Arrives
<1>1. kind = "raw"
  BY <1>0, LimitsAssumption DEF TypeOK, Reads, OpNames
<1>2. PICK s \in Seq(BodyWords) : s = wire[p] /\ s # <<>>
  BY <1>1 DEF TypeOK, Words, ReadRaw, Arrives
<1>3. PICK n \in 1..Len(s) : \E in :
         /\ in = [NewMsg("raw") EXCEPT !.body = [i \in 1..n |-> s[i].part]]
         /\ wire'[p] = SubSeq(s, n + 1, Len(s)) /\ received'[p] = Append(received[p], in)
         /\ reading'[p] # "body"
  <2>1. PICK n \in 1..Len(s) :
           LET in == [NewMsg("raw") EXCEPT !.body = [i \in 1..n |-> s[i].part]]
           IN /\ wire' = [wire EXCEPT ![p] = SubSeq(@, n + 1, Len(@))]
              /\ AddToIncomingMessageQueue(p, in)
    BY <1>2 DEF ReadRaw
  <2>2. PICK in : in = [NewMsg("raw") EXCEPT !.body = [i \in 1..n |-> s[i].part]]
    OBVIOUS
  <2>3. /\ wire' = [wire EXCEPT ![p] = SubSeq(@, n + 1, Len(@))]
        /\ AddToIncomingMessageQueue(p, in)
    BY <2>1, <2>2
  <2>4. wire'[p] = SubSeq(s, n + 1, Len(s))
    BY <1>2, <2>3 DEF TypeOK
  <2>5. received'[p] = Append(received[p], in)
    BY <2>3 DEF AddToIncomingMessageQueue, TypeOK
  <2>6. reading'[p] # "body"
    BY <2>3, ReadingNext
  <2> QED BY <2>2, <2>4, <2>5, <2>6
<1>4. PICK in :
         /\ in = [NewMsg("raw") EXCEPT !.body = [i \in 1..n |-> s[i].part]]
         /\ wire'[p] = SubSeq(s, n + 1, Len(s)) /\ received'[p] = Append(received[p], in)
         /\ reading'[p] # "body"
  BY <1>3
<1>5. PICK x \in Seq(BodyWords), r \in Seq(BodyWords) :
         /\ x = SubSeq(s, 1, n) /\ Len(x) = n /\ r = SubSeq(s, n + 1, Len(s)) /\ s = x \o r
  <2>1. n \in 0..Len(s)
    BY <1>2, <1>3
  <2>2. /\ SubSeq(s, 1, n) \in Seq(BodyWords) /\ Len(SubSeq(s, 1, n)) = n
        /\ SubSeq(s, n + 1, Len(s)) \in Seq(BodyWords)
        /\ s = SubSeq(s, 1, n) \o SubSeq(s, n + 1, Len(s))
    BY <1>2, <2>1, Joined
  <2> QED BY <2>2
<1>6. BodyOf(in) = x /\ in \in Frames
  <2>1. ASSUME NEW i \in 1..n PROVE s[i] \in BodyWords /\ x[i] = s[i] /\ n \in Nat
    <3>1. n \in Nat /\ i \in 1..Len(x)
      BY <1>3, <1>5
    <3>2. s[i] = x[i] /\ x[i] \in BodyWords
      BY <1>5, <3>1, Elements
    <3> QED BY <3>1, <3>2
  <2>2. \A i \in 1..n : s[i].part \in Parts /\ s[i] = [word |-> "body", part |-> s[i].part]
    BY <2>1 DEF BodyWords
  <2>3. PICK b \in Seq(Parts) : b = [i \in 1..n |-> s[i].part] /\ Len(b) = n
    <3>1. n \in Nat
      BY <1>2, <1>3
    <3>2. PICK b \in [1..n -> Parts] : b = [i \in 1..n |-> s[i].part]
      BY <2>2
    <3>3. b \in Seq(Parts) /\ Len(b) = n
      BY <3>1, <3>2
    <3> QED BY <3>2, <3>3
  <2>4. in = [type |-> "raw", size |-> 0, body |-> b]
    BY <1>4, <2>3 DEF NewMsg
  <2>5. in.body = b
    BY <2>4
  <2>6. in \in Frames
    BY <1>1, <2>4 DEF Frames
  <2>7. PICK g \in Seq(BodyWords) : g = BodyOf(in) /\ Len(g) = n
    BY <2>3, <2>5, BodyType
  <2>8. ASSUME NEW i \in 1..n PROVE g[i] = x[i]
    <3>1. g[i] = [word |-> "body", part |-> b[i]]
      BY <2>3, <2>5, <2>7, <2>8 DEF BodyOf
    <3>2. b[i] = s[i].part
      BY <2>3, <2>8
    <3>3. x[i] = s[i] /\ s[i] = [word |-> "body", part |-> s[i].part]
      BY <2>1, <2>2, <2>8
    <3> QED BY <3>1, <3>2, <3>3
  <2>9. g = x
    BY <1>5, <2>7, <2>8, SeqEqual
  <2> QED BY <2>6, <2>7, <2>9
<1>7. PICK q \in Seq(Carriable) : q = received[p]
  BY ReceivedCarriable
<1>8. PICK k : k = Append(q, in) /\ received'[p] = k
  BY <1>7, <1>4
<1>9. in \in Carriable /\ Whole(in) = x
  BY <1>1, <1>6 DEF Carriable, Whole
<1>10. WordsOf(k) = WordsOf(q) \o x
  BY <1>7, <1>8, <1>9, WordsOfAppend
<1>11. Picked(s, Speech) = s /\ Picked(r, Speech) = r
  BY Apart, PickedAll
<1>12. Partial(p) = <<>> /\ Partial(p)' = <<>>
  BY <1>0, <1>4 DEF Partial
<1>13. WordsOf(k)' = WordsOf(k) /\ Speech' = Speech
  BY WordsKept, SpeechKept
<1>14. Words = BodyWords
  BY <1>1 DEF Words
<1>15. PICK a \in Seq(Words) : a = WordsOf(q)
  BY <1>7, WordsOfType
<1>16. PICK c \in Seq(Words) : c = a \o x
  BY <1>14, Elements
<1>17. a \o <<>> = a /\ c \o <<>> = c
  BY ConcatEmptySeq
<1>18. Heard(p) = a \o s
  BY <1>2, <1>7, <1>11, <1>12, <1>15, <1>17 DEF Heard
<1>19. Heard(p)' = c \o r
  <2>1. WordsOf(received[p])' = c
    BY <1>8, <1>10, <1>13, <1>15, <1>16
  <2>2. Picked(wire[p], Speech)' = r
    BY <1>5, <1>11, <1>13, <1>4
  <2> QED BY <1>12, <1>17, <2>1, <2>2 DEF Heard
<1>20. (a \o x) \o r = a \o (x \o r)
  <2>1. Grouped(a, x, r)
    BY <1>14, Associates
  <2> QED BY <2>1 DEF Grouped
<1> QED BY <1>5, <1>16, <1>18, <1>19, <1>20

\* Only a header is followed by a body.
LEMMA ReadsNoBody ==
    ASSUME TypeOK, NEW d \in Ends, NEW name, name # "body", ReadOn(d, name, FALSE)
    PROVE  \A p \in Ends : reading'[p] = "body" => reading[p] = "body"
<1>1. reading'[d] \in {name, "none"} /\ \A p \in Ends : p # d => reading'[p] = reading[p]
  BY ReadingOn
<1> QED BY <1>1

LEMMA AnnouncedInit == Init => Announced
BY DEF Init, Announced

LEMMA AnnouncedStep ==
    TypeOK /\ Born /\ WritersOK /\ DeliveredInOrder /\ Sized /\ Announced /\ [Next]_vars
        => Announced'
<1> SUFFICES ASSUME TypeOK, Born, WritersOK, DeliveredInOrder, Sized, Announced, [Next]_vars
             PROVE  Announced'
  OBVIOUS
<1> USE DEF userVars, writeVars, readVars
<1>0. kind' = kind /\ Words' = Words
  BY KindStays, KindKept
<1>1. ASSUME \A p \in Ends : reading'[p] = "body" =>
                /\ reading[p] = "body"
                /\ HeaderOf(m_msgTemporaryIn[p])' = HeaderOf(m_msgTemporaryIn[p])
      PROVE  Announced'
  BY <1>0, <1>1 DEF Announced
<1>2. ASSUME UNCHANGED m_msgTemporaryIn, \A p \in Ends : reading'[p] = "body" => reading[p] = "body"
      PROVE  Announced'
  BY <1>1, <1>2 DEF HeaderOf
<1>3. ASSUME NEW d \in Ends, Shuts(d) PROVE Announced'
  BY <1>2, <1>3 DEF Shuts, TypeOK
<1>3a. ASSUME NEW d \in Ends, CloseSocket(d) PROVE Announced'
  BY <1>3, <1>3a, CloseShuts
<1>3b. ASSUME NEW d \in Ends, Aborted(d) \/ PeerClosed(d) \/ ConnectionLost(d) PROVE Announced'
  BY <1>3, <1>3b, FailureShuts
<1>4. ASSUME NEW d \in Ends, \/ Transfer(d) \/ HeaderWritten(d) \/ BodyWritten(d) \/ RawWritten(d)
                             \/ User(d)
      PROVE  Announced'
  <2>1. UNCHANGED <<reading, m_msgTemporaryIn>>
    BY <1>4 DEF Transfer, HeaderWritten, BodyWritten, RawWritten, Finished, User, Send, Disconnect
  <2> QED BY <1>2, <2>1
<1>5. ASSUME NEW d \in Ends, ValidationWritten(d) PROVE Announced'
  <2>1. UNCHANGED m_msgTemporaryIn /\ (ReadOn(d, "notify", FALSE) \/ UNCHANGED reading)
    BY <1>5 DEF ValidationWritten, Finished
  <2>2. \A p \in Ends : reading'[p] = "body" => reading[p] = "body"
    BY <2>1, ReadsNoBody
  <2> QED BY <1>2, <2>1, <2>2
<1>6. ASSUME NEW d \in Ends, RunPosted(d) PROVE Announced'
  <2>1. ASSUME NEW m \in Sendable, Queues(d, m) PROVE Announced'
    BY <1>2, <2>1 DEF Queues
  <2> QED BY <1>3, <1>6, <2>1, LambdaRuns
<1>7. ASSUME NEW d \in Ends, ReadHeader(d) PROVE Announced'
  <2>1. PICK m \in Msgs, in \in Frames :
           /\ HeaderOf(in) = HeaderOf(m) /\ m_msgTemporaryIn' = [m_msgTemporaryIn EXCEPT ![d] = in]
    BY <1>7, HeaderKept
  <2>2. kind = "framed" /\ \A p \in Ends : p # d => reading'[p] = reading[p]
    BY <1>7, HeaderKept
  <2>3. HeaderOf(in) \in Words
    BY <2>1, <2>2 DEF Words
  <2>4. ASSUME NEW p \in Ends, reading'[p] = "body" PROVE HeaderOf(m_msgTemporaryIn[p])' \in Words
    <3>1. CASE p = d
      <4>1. m_msgTemporaryIn'[p] = in
        BY <2>1, <3>1 DEF TypeOK
      <4>2. HeaderOf(m_msgTemporaryIn[p])' = HeaderOf(in)
        BY <4>1 DEF HeaderOf
      <4> QED BY <2>3, <4>2
    <3>2. CASE p # d
      <4>1. m_msgTemporaryIn'[p] = m_msgTemporaryIn[p] /\ reading[p] = "body"
        BY <2>1, <2>2, <2>4, <3>2 DEF TypeOK
      <4> QED BY <4>1 DEF Announced, HeaderOf
    <3> QED BY <3>1, <3>2
  <2> QED BY <1>0, <2>4 DEF Announced
<1>8. ASSUME NEW d \in Ends, ReadBody(d) PROVE Announced'
  <2>1. HeaderOf(m_msgTemporaryIn[d])' = HeaderOf(m_msgTemporaryIn[d]) /\ reading' = reading
    BY <1>0, <1>8, HeardPart DEF ReadBody
  <2>2. \A p \in Ends : p # d => m_msgTemporaryIn'[p] = m_msgTemporaryIn[p]
    BY <1>8 DEF ReadBody, TypeOK
  <2>3. \A p \in Ends : HeaderOf(m_msgTemporaryIn[p])' = HeaderOf(m_msgTemporaryIn[p])
    BY <2>1, <2>2 DEF HeaderOf
  <2> QED BY <1>1, <2>1, <2>3
<1>9. ASSUME NEW d \in Ends, BodyRead(d) PROVE Announced'
  <2>1. UNCHANGED m_msgTemporaryIn /\ AddToIncomingMessageQueue(d, m_msgTemporaryIn[d])
    BY <1>9 DEF BodyRead
  <2>2. \A p \in Ends : reading'[p] = "body" => reading[p] = "body"
    BY <2>1, ReadingNext
  <2> QED BY <1>2, <2>1, <2>2
<1>10. ASSUME NEW d \in Ends, ReadRaw(d) PROVE Announced'
  <2>1. \A p \in Ends : p # d => m_msgTemporaryIn'[p] = m_msgTemporaryIn[p]
    BY <1>10 DEF ReadRaw, TypeOK
  <2>2. PICK in : AddToIncomingMessageQueue(d, in)
    BY <1>10 DEF ReadRaw
  <2>3. reading'[d] # "body" /\ \A p \in Ends : p # d => reading'[p] = reading[p]
    BY <2>2, ReadingNext
  <2> QED BY <1>1, <2>1, <2>3 DEF HeaderOf
<1>11. ASSUME ConnectToClient PROVE Announced'
  BY <1>2, <1>3a, <1>11 DEF ConnectToClient, RawBegins, TypeOK, Ends
<1>12. ASSUME ConnectToServer PROVE Announced'
  BY <1>2, <1>3a, <1>12 DEF ConnectToServer, RawBegins, TypeOK, Ends
<1>13. ASSUME ReadChallenge PROVE Announced'
  BY <1>2, <1>13 DEF ReadChallenge, TypeOK
<1>14. ASSUME ReadResponse PROVE Announced'
  <2>1. CASE Validates
    <3>1. PICK e \in Ends : e = "server" /\ ReadOn(e, "header", FALSE)
      BY <2>1 DEF Validates, Ends
    <3>2. \A p \in Ends : reading'[p] = "body" => reading[p] = "body"
      BY <3>1, ReadsNoBody
    <3>3. UNCHANGED m_msgTemporaryIn
      BY <2>1 DEF Validates
    <3> QED BY <1>2, <3>2, <3>3
  <2> QED BY <1>3, <1>14, <2>1, Response DEF Ends
<1>15. ASSUME WaitForValidation PROVE Announced'
  <2>1. /\ UNCHANGED m_msgTemporaryIn
        /\ ReadOn("client", "header", FALSE) \/ reading' = [reading EXCEPT !["client"] = "none"]
    BY <1>15 DEF WaitForValidation
  <2>2. CASE ReadOn("client", "header", FALSE)
    <3>1. \E e \in Ends : e = "client" /\ ReadOn(e, "header", FALSE)
      <4>1. "client" \in Ends
        BY DEF Ends
      <4> QED BY <2>2, <4>1
    <3>2. \A p \in Ends : reading'[p] = "body" => reading[p] = "body"
      BY <3>1, ReadsNoBody
    <3> QED BY <1>2, <2>1, <3>2
  <2>3. CASE reading' = [reading EXCEPT !["client"] = "none"]
    BY <1>2, <2>1, <2>3 DEF TypeOK
  <2> QED BY <2>1, <2>2, <2>3
<1>16. ASSUME DestroyConnection PROVE Announced'
  BY <1>3, <1>16, EndShuts DEF Ends
<1>17. ASSUME UNCHANGED vars PROVE Announced'
  BY <1>2, <1>17 DEF vars
<1> QED BY <1>3b, <1>4, <1>5, <1>6, <1>7, <1>8, <1>9, <1>10, <1>11, <1>12, <1>13, <1>14, <1>15,
           <1>16, <1>17
        DEF Next, Handler

-----------------------------------------------------------------------------
(* Who listens has listened before.                                         *)

Stays(p) == Alive(p)' /\ Listening(p)' => Alive(p) /\ Listening(p)

LEMMA ListensOn ==
    ASSUME TypeOK, TypeOK', UNCHANGED kind, NEW p \in Ends, Turns,
           m_nValidationOut' = m_nValidationOut, Asking' => Asking,
           Responses' <= Responses,
           reading'["client"] # "none" => reading["client"] # "none" \/ Responses = 1,
           Alive(p)' => Alive(p)
    PROVE  Stays(p)
<1>1. Responses' \in Nat /\ Responses \in Nat /\ Responses <= 1
  BY CountTypes, CountTypesNext DEF Turns
<1>2. Responses' = 1 => Responses = 1
  BY <1>1
<1> QED BY <1>2 DEF Stays, Listening

LEMMA QuietStays ==
    ASSUME TypeOK, TypeOK', UNCHANGED kind, NEW p \in Ends, Turns, Quiet,
           Alive(p)' => Alive(p)
    PROVE  Stays(p)
BY ListensOn DEF Quiet, Ends

\* The client that challenges its server, or answers it, was asking.
LEMMA AskingStays ==
    ASSUME NEW p \in Ends, UNCHANGED kind, Asking, Alive(p) PROVE Stays(p)
BY DEF Stays, Listening

\* No socket is opened again, and a closed one on which nothing is read stays so.
Remains(p) == /\ socket'[p] = "closed"
              /\ reading[p] = "none" => reading'[p] = "none"

LEMMA ClosedForGood ==
    ASSUME TypeOK, [Next]_vars, NEW p \in Ends, socket[p] = "closed" PROVE Remains(p)
<1> USE DEF userVars, writeVars, readVars
<1>0. "server" \in Ends /\ "client" \in Ends
  BY DEF Ends
<1>1. ASSUME NEW d \in Ends, Shuts(d) PROVE Remains(p)
  BY <1>1 DEF Shuts, Remains, TypeOK
<1>2. ASSUME UNCHANGED <<socket, reading>> PROVE Remains(p)
  BY <1>2 DEF Remains
<1>3. ASSUME NEW d \in Ends, NEW name, ReadOn(d, name, FALSE), UNCHANGED socket PROVE Remains(p)
  <2>1. CASE p = d
    BY <1>3, <2>1 DEF ReadOn, Remains, TypeOK
  <2>2. CASE p # d
    BY <1>3, <2>2, ReadingOn DEF Remains
  <2> QED BY <2>1, <2>2
<1>4. ASSUME NEW d \in Ends, NEW r, reading' = [reading EXCEPT ![d] = r], r = "none" \/ p # d,
             UNCHANGED socket
      PROVE  Remains(p)
  BY <1>4 DEF Remains, TypeOK
<1>5. ASSUME NEW d \in Ends, NEW m, AddToIncomingMessageQueue(d, m), UNCHANGED socket
      PROVE  Remains(p)
  <2>1. \E name : ReadOn(d, name, FALSE)
    BY <1>5 DEF AddToIncomingMessageQueue
  <2> QED BY <1>3, <1>5, <2>1
<1>6. ASSUME NEW d \in Ends, RunPosted(d) PROVE Remains(p)
  <2>1. ASSUME NEW m \in Sendable, Queues(d, m) PROVE Remains(p)
    BY <1>2, <2>1 DEF Queues
  <2> QED BY <1>1, <1>6, <2>1, LambdaRuns
<1>7. ASSUME NEW d \in Ends, Aborted(d) \/ PeerClosed(d) \/ ConnectionLost(d) PROVE Remains(p)
  BY <1>1, <1>7, FailureShuts
<1>8. ASSUME NEW d \in Ends, \/ Transfer(d) \/ HeaderWritten(d) \/ BodyWritten(d) \/ RawWritten(d)
                             \/ ReadBody(d) \/ User(d)
      PROVE  Remains(p)
  <2>1. UNCHANGED <<socket, reading>>
    BY <1>8 DEF Transfer, HeaderWritten, BodyWritten, RawWritten, Finished, ReadBody, User, Send,
                Disconnect
  <2> QED BY <1>2, <2>1
<1>9. ASSUME NEW d \in Ends, ValidationWritten(d) PROVE Remains(p)
  <2>1. UNCHANGED socket /\ (ReadOn(d, "notify", FALSE) \/ UNCHANGED reading)
    BY <1>9 DEF ValidationWritten, Finished
  <2> QED BY <1>2, <1>3, <2>1
<1>10. ASSUME NEW d \in Ends, ReadHeader(d) PROVE Remains(p)
  <2>1. /\ UNCHANGED socket /\ reading[d] = "header"
        /\ (\E m : AddToIncomingMessageQueue(d, m)) \/ \E nothing : ReadOn(d, "body", nothing)
    BY <1>10 DEF ReadHeader, Arrives
  <2>2. CASE p = d
    BY <2>1, <2>2 DEF Remains
  <2>3. CASE \E nothing : p # d /\ ReadOn(d, "body", nothing)
    <3>1. reading'[p] = reading[p]
      BY <2>3, ReadingOn
    <3> QED BY <2>1, <3>1 DEF Remains
  <2> QED BY <1>5, <2>1, <2>2, <2>3
<1>11. ASSUME NEW d \in Ends, BodyRead(d) \/ ReadRaw(d) PROVE Remains(p)
  <2>1. UNCHANGED socket /\ \E m : AddToIncomingMessageQueue(d, m)
    BY <1>11 DEF BodyRead, ReadRaw
  <2> QED BY <1>5, <2>1
<1>12. ASSUME ConnectToClient PROVE Remains(p)
  <2>1. CASE CloseSocket("server")
    BY <1>0, <1>1, <2>1, CloseShuts
  <2>2. CASE ~CloseSocket("server")
    <3>1. /\ socket["server"] = "unborn" /\ socket' = [socket EXCEPT !["server"] = "open"]
          /\ \/ reading' = [reading EXCEPT !["server"] = "response"]
             \/ reading' = [reading EXCEPT !["server"] = "raw"]
      BY <1>12, <2>2 DEF ConnectToClient, RawBegins
    <3>2. p # "server"
      BY <3>1
    <3>3. socket'[p] = socket[p] /\ reading'[p] = reading[p]
      BY <3>1, <3>2 DEF TypeOK
    <3> QED BY <3>3 DEF Remains
  <2> QED BY <2>1, <2>2
<1>13. ASSUME ConnectToServer PROVE Remains(p)
  <2>1. CASE CloseSocket("client")
    BY <1>0, <1>1, <2>1, CloseShuts
  <2>2. CASE ~CloseSocket("client")
    <3>1. /\ socket["client"] = "connecting" /\ socket' = [socket EXCEPT !["client"] = "open"]
          /\ \/ reading' = [reading EXCEPT !["client"] = "challenge"]
             \/ reading' = [reading EXCEPT !["client"] = "raw"]
      BY <1>13, <2>2 DEF ConnectToServer, RawBegins
    <3>2. p # "client"
      BY <3>1
    <3>3. socket'[p] = socket[p] /\ reading'[p] = reading[p]
      BY <3>1, <3>2 DEF TypeOK
    <3> QED BY <3>3 DEF Remains
  <2> QED BY <2>1, <2>2
<1>14. ASSUME ReadChallenge PROVE Remains(p)
  <2>1. UNCHANGED socket /\ reading' = [reading EXCEPT !["client"] = "none"]
    BY <1>14 DEF ReadChallenge
  <2> QED BY <1>0, <1>4, <2>1
<1>15. ASSUME ReadResponse PROVE Remains(p)
  <2>1. CASE Validates
    <3>1. UNCHANGED socket /\ ReadOn("server", "header", FALSE)
      BY <2>1 DEF Validates
    <3> QED BY <1>0, <1>3, <3>1
  <2> QED BY <1>0, <1>1, <1>15, <2>1, Response
<1>16. ASSUME WaitForValidation PROVE Remains(p)
  <2>1. /\ UNCHANGED socket
        /\ ReadOn("client", "header", FALSE) \/ reading' = [reading EXCEPT !["client"] = "none"]
    BY <1>16 DEF WaitForValidation
  <2> QED BY <1>0, <1>3, <1>4, <2>1
<1>17. ASSUME DestroyConnection PROVE Remains(p)
  BY <1>0, <1>1, <1>17, EndShuts
<1>18. ASSUME UNCHANGED vars PROVE Remains(p)
  BY <1>2, <1>18 DEF vars
<1> QED BY <1>6, <1>7, <1>8, <1>9, <1>10, <1>11, <1>12, <1>13, <1>14, <1>15, <1>16, <1>17, <1>18
        DEF Next, Handler

\* What is dead stays dead.
LEMMA DeadForGood ==
    ASSUME TypeOK, [Next]_vars, NEW p \in Ends PROVE Alive(p)' => Alive(p)
BY ClosedForGood DEF Alive, Remains

\* After the answer the client waits, and only it does.
LEMMA WrittenWaits ==
    ASSUME TypeOK, TypeOK', Asks, Turns, kind = "framed", NEW d \in Ends, ValidationWritten(d)
    PROVE  /\ UNCHANGED <<socket, m_nValidationOut, wire, writes, received, m_msgTemporaryIn,
                          m_qMessagesOut, accepted>>
           /\ Responses' <= Responses
           /\ \/ reading' = reading
              \/ /\ d = "client" /\ Responses = 1 /\ reading["client"] = "none"
                 /\ reading' = [reading EXCEPT !["client"] = "notify"]
<1>1. /\ UNCHANGED <<socket, m_nValidationOut, wire, writes, received, m_msgTemporaryIn,
                     m_qMessagesOut, accepted>>
      /\ done[d] # <<>> /\ done' = [done EXCEPT ![d] = Tail(@)]
      /\ IF Head(done[d]) = "response" THEN ReadOn(d, "notify", FALSE) ELSE UNCHANGED reading
  BY DEF ValidationWritten, Finished, userVars
<1>2. PICK s \in Seq(OpNames) : s = done[d] /\ s # <<>> /\ done'[d] = Tail(s)
  BY <1>1 DEF TypeOK
<1>3. PICK n \in {0, 1} : /\ Count(s, {"response"}) = Count(Tail(s), {"response"}) + n
                          /\ Head(s) = "response" => n = 1
  BY <1>2, CountHead
<1>4. Count(Tail(s), {"response"}) \in Nat /\ Count(s, {"response"}) \in Nat
  <2>1. Tail(s) \in Seq(OpNames)
    BY <1>2
  <2> QED BY <2>1, CountType
<1>5. /\ Responses' \in Nat /\ Responses \in Nat /\ Responses <= 1
      /\ Count(writes["client"], ResponseOps) \in Nat
  BY CountTypes, CountTypesNext DEF Turns
<1>6. CASE d = "client"
  <2>1. Responses = Responses' + n
    <3>1. done["client"] = s /\ done'["client"] = Tail(s) /\ writes' = writes
      BY <1>1, <1>2, <1>6
    <3>2. \A i, j, k \in Nat : i + (j + k) = (i + j) + k
      OBVIOUS
    <3> QED BY <1>3, <1>4, <1>5, <3>1, <3>2 DEF Responses
  <2>2. Responses' <= Responses /\ (n = 1 => Responses = 1)
    <3>1. \A i, j \in Nat : \A k \in {0, 1} : i <= 1 /\ i = j + k => j <= i /\ (k = 1 => i = 1)
      OBVIOUS
    <3> QED BY <1>3, <1>5, <2>1, <3>1
  <2>3. CASE Head(s) = "response"
    <3>1. Responses = 1
      BY <1>3, <2>2, <2>3
    <3>2. reading["client"] = "none"
      BY <3>1 DEF Turns
    <3>3. ReadOn("client", "notify", FALSE)
      BY <1>1, <1>2, <1>6, <2>3
    <3>4. \/ reading' = [reading EXCEPT !["client"] = "notify"]
          \/ reading' = [reading EXCEPT !["client"] = "none"]
      BY <3>3 DEF ReadOn
    <3>5. reading' = [reading EXCEPT !["client"] = "none"] => reading' = reading
      BY <3>2 DEF TypeOK
    <3> QED BY <1>1, <1>6, <2>2, <3>1, <3>2, <3>4, <3>5
  <2>4. CASE Head(s) # "response"
    BY <1>1, <1>2, <2>2, <2>4
  <2> QED BY <2>3, <2>4
<1>7. CASE d = "server"
  <2>1. Responses' = Responses
    BY <1>1, <1>7 DEF Responses, TypeOK, Ends
  <2>2. Head(s) # "response"
    <3>1. 1 \in DOMAIN s /\ Head(s) = s[1]
      BY <1>2
    <3> QED BY <1>2, <1>7, <3>1 DEF Asks
  <2>3. Responses' <= Responses
    BY <1>5, <2>1
  <2> QED BY <1>1, <1>2, <2>2, <2>3
<1> QED BY <1>6, <1>7 DEF Ends

LEMMA StaysStep ==
    ASSUME TypeOK, TypeOK', Born, WritersOK, AgreementInv, Utters, Asks, TurnsInv, [Next]_vars,
           NEW p \in Ends
    PROVE  Stays(p)
<1> USE DEF userVars, writeVars, readVars
<1>0. UNCHANGED kind /\ kind \in {"framed", "raw"}
  BY KindStays, LimitsAssumption DEF TypeOK
<1>1. Alive(p)' => Alive(p)
  BY DeadForGood
<1>2. CASE kind = "raw"
  BY <1>1, <1>2 DEF Stays, Listening
<1>3. CASE kind = "framed"
  <2>0. Turns
    BY <1>3 DEF TurnsInv
  <2>1. ASSUME Quiet PROVE Stays(p)
    BY <1>0, <1>1, <2>0, <2>1, QuietStays
  <2>2. ASSUME UNCHANGED <<wire, writes, done, socket, reading, m_nValidationOut, validated>>
        PROVE  Stays(p)
    <3>1. Responses' = Responses /\ Responses \in Nat
      BY <2>2, CountTypes DEF Responses
    <3>2. Asking' => Asking
      BY <2>2 DEF Asking
    <3> QED BY <1>0, <1>1, <2>0, <2>2, <3>1, <3>2, ListensOn
  <2>3. ASSUME NEW d \in Ends, \/ Shuts(d) \/ CloseSocket(d) \/ Aborted(d) \/ PeerClosed(d)
                               \/ ConnectionLost(d)
        PROVE  Stays(p)
    <3>1. Shuts(d)
      BY <2>3, CloseShuts, FailureShuts
    <3> QED BY <2>1, <3>1, ShutQuiet
  <2>4. ASSUME NEW d \in Ends, Transfer(d) PROVE Stays(p)
    <3>1. Responses' = Responses /\ Responses \in Nat
      BY <1>3, <2>4, TransferCounts, CountTypes
    <3>2. UNCHANGED <<socket, reading, m_nValidationOut>> /\ (Asking' => Asking)
      BY <2>4 DEF Transfer, Asking
    <3> QED BY <1>0, <1>1, <2>0, <3>1, <3>2, ListensOn
  <2>5. ASSUME NEW d \in Ends, HeaderWritten(d) \/ BodyWritten(d) \/ RawWritten(d) PROVE Stays(p)
    BY <2>1, <2>5, WrittenQuiet
  <2>6. ASSUME NEW d \in Ends, RunPosted(d) PROVE Stays(p)
    BY <2>1, <2>3, <2>6, LambdaRuns, QueuesQuiet
  <2>7. ASSUME NEW d \in Ends, ReadHeader(d) \/ ReadBody(d) \/ BodyRead(d) PROVE Stays(p)
    BY <1>0, <1>3, <2>1, <2>7, ReadQuiet
  <2>8. ASSUME NEW d \in Ends, ReadRaw(d) PROVE Stays(p)
    BY <1>3, <2>8 DEF ReadRaw, Arrives, TypeOK, Reads, OpNames
  <2>9. ASSUME NEW d \in Ends, User(d) PROVE Stays(p)
    BY <2>2, <2>9 DEF User, Send, Disconnect
  <2>10. ASSUME DestroyConnection PROVE Stays(p)
    BY <2>3, <2>10, EndShuts DEF Ends
  <2>11. ASSUME ConnectToClient PROVE Stays(p)
    <3>1. CASE CloseSocket("server")
      BY <2>3, <3>1 DEF Ends
    <3>2. CASE ~CloseSocket("server")
      <4>1. /\ Start("server", "challenge", <<Nonce>>) /\ UNCHANGED <<done, m_nValidationOut>>
            /\ socket' = [socket EXCEPT !["server"] = "open"]
            /\ reading' = [reading EXCEPT !["server"] = "response"]
        BY <1>3, <2>11, <3>2 DEF ConnectToClient
      <4>2. writes'["client"] = writes["client"]
        BY <4>1 DEF Start, TypeOK, Ends
      <4>3. Responses' = Responses /\ Responses \in Nat
        BY <4>1, <4>2, CountTypes DEF Responses
      <4>4. reading'["client"] = reading["client"] /\ (Asking' => Asking)
        BY <4>1 DEF TypeOK, Ends, Asking
      <4> QED BY <1>0, <1>1, <2>0, <4>1, <4>3, <4>4, ListensOn
    <3> QED BY <3>1, <3>2
  <2>12. ASSUME ConnectToServer PROVE Stays(p)
    <3>1. Asking
      BY <2>12 DEF ConnectToServer, Asking
    <3> QED BY <1>0, <1>1, <3>1, AskingStays DEF Stays
  <2>13. ASSUME ReadChallenge PROVE Stays(p)
    <3>1. Asking
      BY <2>13 DEF ReadChallenge, Arrives, Asking
    <3> QED BY <1>0, <1>1, <3>1, AskingStays DEF Stays
  <2>14. ASSUME ReadResponse PROVE Stays(p)
    <3>1. CASE Shuts("server")
      BY <2>3, <3>1 DEF Ends
    <3>2. CASE Validates
      <4>1. /\ Start("server", "notify", <<Proof>>) /\ UNCHANGED <<done, m_nValidationOut, socket>>
            /\ ReadOn("server", "header", FALSE)
        BY <3>2 DEF Validates
      <4>2. writes'["client"] = writes["client"]
        BY <4>1 DEF Start, TypeOK, Ends
      <4>3. Responses' = Responses /\ Responses \in Nat
        BY <4>1, <4>2, CountTypes DEF Responses
      <4>4. reading'["client"] = reading["client"]
        BY <4>1 DEF ReadOn, TypeOK, Ends
      <4>5. Asking' => Asking
        BY <4>1, <4>4 DEF Asking
      <4> QED BY <1>0, <1>1, <2>0, <4>1, <4>3, <4>4, <4>5, ListensOn
    <3> QED BY <2>14, <3>1, <3>2, Response
  <2>15. ASSUME WaitForValidation PROVE Stays(p)
    <3>1. /\ reading["client"] = "notify" /\ UNCHANGED <<writes, done, m_nValidationOut, socket>>
          /\ reading'["client"] # "challenge"
      <4>1. /\ reading["client"] = "notify" /\ UNCHANGED <<writes, done, m_nValidationOut, socket>>
            /\ \/ ReadOn("client", "header", FALSE)
               \/ reading' = [reading EXCEPT !["client"] = "none"]
        BY <2>15 DEF WaitForValidation, Arrives
      <4>2. reading'["client"] # "challenge"
        BY <4>1 DEF ReadOn, TypeOK, Ends
      <4> QED BY <4>1, <4>2
    <3>2. Responses' = Responses /\ Responses \in Nat
      BY <3>1, CountTypes DEF Responses
    <3>3. Asking' => Asking
      BY <3>1 DEF Asking
    <3> QED BY <1>0, <1>1, <2>0, <3>1, <3>2, <3>3, ListensOn
  <2>16. ASSUME NEW d \in Ends, ValidationWritten(d) PROVE Stays(p)
    <3>1. /\ UNCHANGED <<socket, m_nValidationOut>> /\ Responses' <= Responses
          /\ \/ reading' = reading
             \/ /\ Responses = 1 /\ reading["client"] = "none"
                /\ reading' = [reading EXCEPT !["client"] = "notify"]
      BY <1>3, <2>0, <2>16, WrittenWaits
    <3>2. /\ reading'["client"] # "none" => reading["client"] # "none" \/ Responses = 1
          /\ (Asking' => Asking)
      BY <3>1 DEF TypeOK, Ends, Asking
    <3> QED BY <1>0, <1>1, <2>0, <3>1, <3>2, ListensOn
  <2>17. ASSUME UNCHANGED vars PROVE Stays(p)
    BY <2>2, <2>17 DEF vars
  <2> QED BY <2>3, <2>4, <2>5, <2>6, <2>7, <2>8, <2>9, <2>10, <2>11, <2>12, <2>13, <2>14, <2>15,
             <2>16, <2>17
          DEF Next, Handler
<1> QED BY <1>0, <1>2, <1>3

-----------------------------------------------------------------------------
(* The account, action by action.                                           *)

LEMMA SameWriter ==
    ASSUME UNCHANGED kind, NEW e \in Ends, socket'[e] = socket[e], writes'[e] = writes[e],
           done'[e] = done[e], m_qMessagesOut'[e] = m_qMessagesOut[e]
    PROVE  /\ IsConnected(e)' => IsConnected(e)
           /\ Remaining(e)' = Remaining(e)
<1>1. MessagesWriting(e)' = MessagesWriting(e) /\ MessagesDone(e)' = MessagesDone(e)
  BY KindKept DEF MessagesWriting, MessagesDone
<1> QED BY <1>1, RemainingKept DEF IsConnected

LEMMA SameListener ==
    ASSUME UNCHANGED kind, NEW p \in Ends, wire'[p] = wire[p], received'[p] = received[p],
           reading'[p] = reading[p], m_msgTemporaryIn'[p] = m_msgTemporaryIn[p]
    PROVE  Heard(p)' = Heard(p)
BY HeardKept, PartialKept

\* Both at once.
LEMMA AccountSame ==
    ASSUME UNCHANGED kind, NEW p \in Ends, Account(p), Stays(p),
           Alive(p)' => Heard(p)' = Heard(p), accepted'[Peer(p)] = accepted[Peer(p)],
           IsConnected(Peer(p))' => IsConnected(Peer(p)),
           Remaining(Peer(p))' = Remaining(Peer(p))
    PROVE  Account(p)'
BY AccountKept DEF Stays

LEMMA Others == \A p \in Ends : Peer(p) \in Ends /\ Peer(p) # p /\ Peer(Peer(p)) = p
BY DEF Ends, Peer

LEMMA AccountShut ==
    ASSUME TypeOK, UNCHANGED <<kind, accepted>>, NEW d \in Ends, Shuts(d),
           NEW p \in Ends, Account(p), Stays(p)
    PROVE  Account(p)'
<1>0. /\ socket \in [Ends -> {"unborn", "connecting", "open", "closed"}]
      /\ wire \in [Ends -> Seq(Words)] /\ reading \in [Ends -> Reads]
      /\ writes \in [Ends -> Seq(Ops)] /\ done \in [Ends -> Seq(OpNames)]
  BY DEF TypeOK
<1>1. \A e \in Ends : e # d =>
         /\ socket'[e] = socket[e] /\ wire'[e] = wire[e] /\ reading'[e] = reading[e]
         /\ writes'[e] = writes[e] /\ done'[e] = done[e]
  <2>1. \A e \in Ends : e # d => socket'[e] = socket[e] /\ reading'[e] = reading[e]
    BY <1>0 DEF Shuts
  <2>2. \A e \in Ends : e # d => wire'[e] = wire[e]
    BY <1>0 DEF Shuts, Taken
  <2>3. \A e \in Ends : e # d => writes'[e] = writes[e]
    BY <1>0 DEF Shuts
  <2>4. \A e \in Ends : e # d => done'[e] = done[e]
    BY <1>0 DEF Shuts
  <2> QED BY <2>1, <2>2, <2>3, <2>4
<1>2. UNCHANGED <<m_qMessagesOut, m_msgTemporaryIn, received>> /\ socket'[d] = "closed"
  BY <1>0 DEF Shuts
<1>3. CASE p = d
  <2>1. PICK e \in Ends : e = Peer(p) /\ e # d
    BY <1>3, Others
  <2>2. (IsConnected(e)' => IsConnected(e)) /\ Remaining(e)' = Remaining(e)
    BY <1>1, <1>2, <2>1, SameWriter
  <2>3. ASSUME Alive(p)' PROVE Heard(p)' = Heard(p)
    <3>1. reading'[d] # "none"
      BY <1>2, <1>3, <2>3 DEF Alive
    <3>2. reading' = reading /\ wire' = wire
      BY <1>0, <3>1 DEF Shuts
    <3> QED BY <1>2, <3>2, SameListener
  <2> QED BY <1>2, <2>1, <2>2, <2>3, AccountSame
<1>4. CASE p # d
  <2>1. Peer(p) = d
    BY <1>4 DEF Peer, Ends
  <2>2. Heard(p)' = Heard(p)
    BY <1>1, <1>2, <1>4, SameListener
  <2>3. ~IsConnected(Peer(p))'
    BY <1>2, <2>1 DEF IsConnected
  <2> QED BY <2>2, <2>3, AccountKept DEF Stays
<1> QED BY <1>3, <1>4

LEMMA HeardMore ==
    ASSUME TypeOK, Born, Announced, DeliveredInOrder, UNCHANGED kind, NEW p \in Ends,
           received'[p] = received[p], reading'[p] = reading[p],
           m_msgTemporaryIn'[p] = m_msgTemporaryIn[p],
           NEW x \in Seq(Words), wire'[p] = wire[p] \o x
    PROVE  Heard(p)' = Heard(p) \o Picked(x, Speech)
<1>1. PICK s \in Seq(Words) : s = wire[p]
  BY DEF TypeOK
<1>2. Picked(s \o x, Speech) = Picked(s, Speech) \o Picked(x, Speech)
  BY PickedConcat
<1>3. PICK t \in Seq(Words), y \in Seq(Words) : t = Picked(s, Speech) /\ y = Picked(x, Speech)
  <2>1. PICK B : B = Words \cap Speech
    OBVIOUS
  <2>2. Picked(s, Speech) \in Seq(B) /\ Picked(x, Speech) \in Seq(B)
    BY <2>1, PickedType
  <2>3. Seq(B) \subseteq Seq(Words)
    BY <2>1, SeqMonotone
  <2> QED BY <2>2, <2>3
<1>4. PICK q : q = received[p] /\ received'[p] = q
  OBVIOUS
<1>5. WordsOf(q)' = WordsOf(q) /\ Speech' = Speech /\ Partial(p)' = Partial(p)
  BY WordsKept, SpeechKept, PartialKept
<1>6. PICK a \in Seq(Words) : a = WordsOf(q) \o Partial(p)
  BY <1>4, HeardType
<1>7. Heard(p) = a \o t
  BY <1>1, <1>3, <1>4, <1>6 DEF Heard
<1>8. Heard(p)' = a \o (t \o y)
  BY <1>1, <1>2, <1>3, <1>4, <1>5, <1>6 DEF Heard
<1>9. Grouped(a, t, y)
  BY Associates
<1> QED BY <1>3, <1>7, <1>8, <1>9 DEF Grouped

LEMMA AccountTransfer ==
    ASSUME TypeOK, Born, WritersOK, Utters, Announced, DeliveredInOrder, UNCHANGED kind,
           NEW d \in Ends, Transfer(d), NEW p \in Ends, Account(p), Stays(p)
    PROVE  Account(p)'
<1>1. PICK w \in Ops, x \in Seq(Words), y \in Seq(Words) : Moves(d, w, x, y)
  BY TransferMoves
<1>2. UNCHANGED <<socket, reading, m_qMessagesOut, m_msgTemporaryIn, received, accepted>>
  BY DEF Transfer, userVars
<1>3. CASE p = d
  <2>1. PICK e \in Ends : e = Peer(p) /\ e # d
    BY <1>3, Others
  <2>2. writes'[e] = writes[e] /\ done'[e] = done[e] /\ wire'[p] = wire[p]
    BY <1>1, <1>3, <2>1, Others DEF Moves, TypeOK
  <2>3. /\ IsConnected(e)' => IsConnected(e)
        /\ Remaining(e)' = Remaining(e)
    BY <1>2, <2>2, SameWriter
  <2>4. Heard(p)' = Heard(p)
    BY <1>2, <2>2, SameListener
  <2> QED BY <1>2, <2>1, <2>3, <2>4, AccountSame
<1>4. CASE p # d
  <2>1. Peer(p) = d /\ Peer(d) = p
    BY <1>4 DEF Peer, Ends
  <2>2. wire'[p] = wire[p] \o x
    BY <1>1, <2>1 DEF Moves, TypeOK
  <2>3. Heard(p)' = Heard(p) \o Picked(x, Speech)
    BY <1>2, <2>2, HeardMore
  <2>3a. CASE ~IsConnected(d)
    <3>1. w.words = <<>>
      BY <1>1, <2>3a DEF Transfer, Moves, IsConnected
    <3>2. Picked(x, Speech) = <<>>
      BY <1>1, <3>1, PickedEmpty DEF Moves
    <3>3. PICK h \in Seq(Words) : h = Heard(p)
      BY HeardType
    <3>4. h \o <<>> = h
      BY ConcatEmptySeq
    <3>5. Heard(p)' = Heard(p)
      BY <2>3, <3>2, <3>3, <3>4
    <3>6. ~IsConnected(Peer(p))'
      BY <1>2, <2>1, <2>3a DEF IsConnected
    <3> QED BY <1>2, <3>5, <3>6, AccountKept DEF Stays
  <2>4. CASE IsConnected(d) /\ w \in SpeechOps /\ x \in Seq(Speech)
    <3>1. Picked(x, Speech) = x
      BY <2>4, PickedAll
    <3>2. PICK r \in Seq(Words) : Remaining(d) = x \o r /\ Remaining(d)' = r
      <4>1. w.op \in MessageOps
        BY <2>4, Apart
      <4> QED BY <1>1, <1>2, <2>4, <4>1, RemainingMoves
    <3> QED BY <1>2, <2>1, <2>3, <2>4, <3>1, <3>2, AccountMoves DEF Stays
  <2>5. CASE IsConnected(d) /\ w \in NumberOps /\ \E n \in Numbers : x = <<n>>
    <3>1. Picked(x, Speech) = <<>>
      <4>1. PICK n \in Numbers : x = <<n>>
        BY <2>5
      <4>2. x \in Seq(Numbers)
        BY <4>1
      <4> QED BY <4>2, Apart, PickedNothing
    <3>2. Remaining(d)' = Remaining(d)
      <4>1. w.op \notin MessageOps
        BY <2>5, Apart
      <4> QED BY <1>1, <1>2, <2>5, <4>1, RemainingMoves
    <3>3. PICK h \in Seq(Words) : h = Heard(p)
      BY HeardType
    <3>4. h \o <<>> = h
      BY ConcatEmptySeq
    <3>5. Heard(p)' = Heard(p)
      BY <2>3, <3>1, <3>3, <3>4
    <3>6. PICK e \in Ends : e = d /\ e = Peer(p)
      BY <2>1
    <3>7. (IsConnected(e)' => IsConnected(e)) /\ Remaining(e)' = Remaining(e)
      BY <1>2, <3>2, <3>6 DEF IsConnected
    <3> QED BY <1>2, <3>5, <3>6, <3>7, AccountSame
  <2>6. (w \in SpeechOps /\ x \in Seq(Speech)) \/ (w \in NumberOps /\ \E n \in Numbers : x = <<n>>)
    <3>1. \/ w \in SpeechOps /\ x \in Seq(Speech) /\ [op |-> w.op, words |-> y] \in SpeechOps
          \/ w \in NumberOps /\ y = <<>> /\ \E n \in Numbers : x = <<n>>
      BY <1>1, MovesKind
    <3> QED BY <3>1
  <2> QED BY <2>3a, <2>4, <2>5, <2>6
<1> QED BY <1>3, <1>4

LEMMA AccountWritten ==
    ASSUME TypeOK, WritersOK, UNCHANGED kind, NEW d \in Ends,
           HeaderWritten(d) \/ BodyWritten(d) \/ RawWritten(d), NEW p \in Ends, Account(p), Stays(p)
    PROVE  Account(p)'
<1>1. UNCHANGED <<socket, wire, reading, m_msgTemporaryIn, received, accepted>>
  BY WrittenBegins
<1>2. Heard(p)' = Heard(p)
  BY <1>1, SameListener
<1>3. PICK e \in Ends : e = Peer(p)
  BY Others
<1>4. Remaining(e)' = Remaining(e)
  <2>1. CASE e = d
    BY <2>1, RemainingWritten
  <2>2. CASE e # d
    BY <2>2, OthersWrite, SameWriter
  <2> QED BY <2>1, <2>2
<1> QED BY <1>1, <1>2, <1>3, <1>4, AccountSame DEF IsConnected

LEMMA AccountPosted ==
    ASSUME TypeOK, Born, WritersOK, Announced, DeliveredInOrder, UNCHANGED kind, NEW d \in Ends,
           NEW m \in Sendable, Queues(d, m), NEW p \in Ends, Account(p), Stays(p)
    PROVE  Account(p)'
<1>1. /\ m_qMessagesOut' = [m_qMessagesOut EXCEPT ![d] = Append(@, m)]
      /\ accepted' = [accepted EXCEPT ![d] = Append(@, m)]
      /\ UNCHANGED <<socket, done, reading, wire, m_msgTemporaryIn, received>>
      /\ UNCHANGED writes \/ \E w \in SpeechOps : Begins(d, w)
  BY WriteMsgBegins DEF Queues, readVars
<1>2. Heard(p)' = Heard(p)
  BY <1>1, SameListener
<1>3. CASE Peer(p) = d
  <2>1. accepted'[Peer(p)] = Append(accepted[Peer(p)], m)
    BY <1>1, <1>3 DEF TypeOK
  <2>2. /\ IsConnected(d)' => IsConnected(d)
        /\ IsConnected(d) => Remaining(d)' = Remaining(d) \o Whole(m)
    BY <1>1, RemainingQueued DEF IsConnected
  <2> QED BY <1>2, <1>3, <2>1, <2>2, AccountQueued DEF Stays
<1>4. CASE Peer(p) # d
  <2>1. PICK e \in Ends : e = Peer(p) /\ e # d
    BY <1>4, Others
  <2>2. /\ writes'[e] = writes[e] /\ m_qMessagesOut'[e] = m_qMessagesOut[e]
        /\ accepted'[e] = accepted[e]
    BY <1>1, <2>1 DEF Begins, TypeOK
  <2>3. Remaining(e)' = Remaining(e) /\ (IsConnected(e)' => IsConnected(e))
    BY <1>1, <2>2, SameWriter
  <2> QED BY <1>2, <2>1, <2>2, <2>3, AccountSame
<1> QED BY <1>3, <1>4

\* A word or a part of one message is read, or a message delivered.
LEMMA AccountRead ==
    ASSUME TypeOK, Born, AgreementInv, Announced, DeliveredInOrder, UNCHANGED kind, Sized,
           NEW d \in Ends, Account(d),
           ReadHeader(d) \/ ReadBody(d) \/ BodyRead(d) \/ ReadRaw(d),
           NEW p \in Ends, Account(p), Stays(p)
    PROVE  Account(p)'
<1> USE DEF userVars, writeVars
<1>1. UNCHANGED <<socket, writes, done, m_qMessagesOut, accepted>>
  BY DEF ReadHeader, ReadBody, BodyRead, ReadRaw
<1>2. Alive(d)' => Heard(d)' = Heard(d)
  BY HeardHeader, HeardPart, HeardBody, HeardRaw
<1>3. ASSUME p # d PROVE Heard(p)' = Heard(p)
  <2>1. ASSUME NEW m, AddToIncomingMessageQueue(d, m)
        PROVE  received'[p] = received[p] /\ reading'[p] = reading[p]
    <3>1. reading'[p] = reading[p]
      BY <1>3, <2>1, ReadingNext
    <3>2. received'[p] = received[p]
      BY <1>3, <2>1 DEF AddToIncomingMessageQueue, TypeOK
    <3> QED BY <3>1, <3>2
  <2>2. wire'[p] = wire[p] /\ m_msgTemporaryIn'[p] = m_msgTemporaryIn[p]
    BY <1>3 DEF ReadHeader, ReadBody, BodyRead, ReadRaw, Taken, TypeOK
  <2>3. received'[p] = received[p] /\ reading'[p] = reading[p]
    <3>1. ReadHeader(d) => received'[p] = received[p] /\ reading'[p] = reading[p]
      BY <1>3, HeaderKept
    <3>2. ReadBody(d) => received'[p] = received[p] /\ reading'[p] = reading[p]
      BY DEF ReadBody
    <3>3. BodyRead(d) \/ ReadRaw(d) => received'[p] = received[p] /\ reading'[p] = reading[p]
      BY <2>1 DEF BodyRead, ReadRaw
    <3> QED BY <3>1, <3>2, <3>3
  <2> QED BY <2>2, <2>3, SameListener
<1>4. PICK e \in Ends : e = Peer(p)
  BY Others
<1>5. (IsConnected(e)' => IsConnected(e)) /\ Remaining(e)' = Remaining(e)
  BY <1>1, SameWriter
<1> QED BY <1>1, <1>2, <1>3, <1>4, <1>5, AccountSame

\* An end that is told what it did not expect stops listening.
LEMMA Deaf ==
    ASSUME NEW p \in Ends, ~Listening(p)' PROVE Account(p)'
BY DEF Account

LEMMA AccountChallenge ==
    ASSUME TypeOK, Born, Announced, DeliveredInOrder, UNCHANGED kind, kind = "framed",
           ReadChallenge, NEW p \in Ends, Account(p), Stays(p)
    PROVE  Account(p)'
<1> USE DEF userVars, writeVars
<1>1. /\ UNCHANGED <<socket, done, m_qMessagesOut, m_msgTemporaryIn, received, accepted>>
      /\ reading["client"] = "challenge" /\ wire["client"] # <<>>
      /\ Taken("client") /\ reading' = [reading EXCEPT !["client"] = "none"]
      /\ m_nValidationOut' = CalculateValidation(Head(wire["client"]))
      /\ Start("client", "response", <<m_nValidationOut'>>)
  BY DEF ReadChallenge, Arrives
<1>2. /\ "client" \in Ends /\ "server" \in Ends
      /\ Peer("client") = "server" /\ Peer("server") = "client"
  BY DEF Ends, Peer
<1>3. reading'["client"] = "none"
  BY <1>1, <1>2 DEF TypeOK
<1>4. CASE p = "client"
  <2>1. CASE Head(wire["client"]) = Nonce
    <3>1. Heard("client")' = Heard("client")
      <4>1. Head(wire["client"]) \in Numbers
        BY <2>1 DEF Numbers
      <4>2. /\ received'["client"] = received["client"]
            /\ reading["client"] # "body" /\ reading'["client"] # "body"
        BY <1>1, <1>3
      <4> QED BY <1>1, <1>2, <4>1, <4>2, HeardNumber
    <3>2. writes'["server"] = writes["server"]
      BY <1>1, <1>2 DEF Start, TypeOK
    <3>3. /\ IsConnected("server")' => IsConnected("server")
          /\ Remaining("server")' = Remaining("server")
      BY <1>1, <1>2, <3>2, SameWriter
    <3> QED BY <1>1, <1>2, <1>4, <3>1, <3>3, AccountSame
  <2>2. CASE Head(wire["client"]) # Nonce
    <3>1. m_nValidationOut' # Proof
      BY <1>1, <2>2 DEF CalculateValidation, Proof, Garbage
    <3>2. ~Asking' /\ kind' # "raw"
      <4>1. socket["client"] # "connecting"
        BY <1>1, <1>2 DEF Born
      <4> QED BY <1>1, <1>3, <4>1 DEF Asking
    <3> QED BY <1>4, <3>1, <3>2, Deaf DEF Listening
  <2> QED BY <2>1, <2>2
<1>5. CASE p = "server"
  <2>1. wire'["server"] = wire["server"] /\ reading'["server"] = reading["server"]
    BY <1>1, <1>2 DEF Taken, TypeOK
  <2>2. Heard("server")' = Heard("server")
    BY <1>1, <1>2, <2>1, SameListener
  <2>3. Remaining("client")' = Remaining("client")
    <3>1. PICK n \in Words : n = m_nValidationOut'
      BY <1>1 DEF CalculateValidation, Words
    <3>2. <<n>> \in Seq(Words)
      OBVIOUS
    <3>3. "response" \in OpNames \ MessageOps
      BY DEF OpNames, MessageOps
    <3>4. MessagesWriting("client")' = MessagesWriting("client")
      BY <1>1, <1>2, <3>1, <3>2, <3>3, StartOther
    <3>5. MessagesDone("client")' = MessagesDone("client")
      BY <1>1 DEF MessagesDone
    <3> QED BY <1>1, <1>2, <3>4, <3>5, RemainingKept
  <2>4. IsConnected("client")' => IsConnected("client")
    BY <1>1 DEF IsConnected
  <2> QED BY <1>1, <1>2, <1>5, <2>2, <2>3, <2>4, AccountSame
<1> QED BY <1>4, <1>5 DEF Ends

LEMMA AccountResponse ==
    ASSUME TypeOK, Born, Announced, DeliveredInOrder, UNCHANGED kind, kind = "framed",
           ReadResponse, NEW p \in Ends, Account(p), Stays(p)
    PROVE  Account(p)'
<1> USE DEF userVars, writeVars
<1>1. CASE Shuts("server") /\ UNCHANGED userVars
  BY <1>1, AccountShut DEF Ends
<1>2. CASE Validates
  <2>0. /\ UNCHANGED <<socket, done, m_qMessagesOut, m_msgTemporaryIn, received, accepted>>
        /\ reading["server"] = "response" /\ wire["server"] # <<>> /\ Head(wire["server"]) = Proof
        /\ Taken("server") /\ ReadOn("server", "header", FALSE)
        /\ Start("server", "notify", <<Proof>>)
    BY <1>2 DEF Validates, Arrives
  <2>1. /\ UNCHANGED <<socket, done, m_qMessagesOut, m_msgTemporaryIn, received, accepted>>
        /\ reading["server"] = "response" /\ wire["server"] # <<>> /\ Head(wire["server"]) = Proof
        /\ Taken("server") /\ Start("server", "notify", <<Proof>>)
        /\ reading'["server"] # "body" /\ reading'["client"] = reading["client"]
    <3>1. reading \in [Ends -> Reads] /\ "client" \in Ends /\ "server" \in Ends
      BY DEF TypeOK, Ends
    <3>2. reading'["server"] # "body" /\ reading'["client"] = reading["client"]
      BY <2>0, <3>1 DEF ReadOn
    <3> QED BY <2>0, <3>2
  <2>2. /\ "client" \in Ends /\ "server" \in Ends
        /\ Peer("client") = "server" /\ Peer("server") = "client"
    BY DEF Ends, Peer
  <2>3. CASE p = "server"
    <3>1. Heard("server")' = Heard("server")
      <4>1. Proof \in Numbers
        BY DEF Numbers
      <4>2. /\ received'["server"] = received["server"]
            /\ reading["server"] # "body" /\ reading'["server"] # "body"
        BY <2>1, <2>2 DEF TypeOK
      <4> QED BY <2>1, <2>2, <4>1, <4>2, HeardNumber
    <3>2. writes'["client"] = writes["client"]
      BY <2>1, <2>2 DEF Start, TypeOK
    <3>3. /\ IsConnected("client")' => IsConnected("client")
          /\ Remaining("client")' = Remaining("client")
      BY <2>1, <2>2, <3>2, SameWriter
    <3> QED BY <2>1, <2>2, <2>3, <3>1, <3>3, AccountSame
  <2>4. CASE p = "client"
    <3>1. wire'["client"] = wire["client"] /\ reading'["client"] = reading["client"]
      BY <2>1, <2>2 DEF Taken, TypeOK
    <3>2. Heard("client")' = Heard("client")
      BY <2>1, <2>2, <3>1, SameListener
    <3>3. Remaining("server")' = Remaining("server")
      <4>1. <<Proof>> \in Seq(Words)
        BY DEF Words
      <4>2. "notify" \in OpNames \ MessageOps
        BY DEF OpNames, MessageOps
      <4>3. MessagesWriting("server")' = MessagesWriting("server")
        BY <2>1, <2>2, <4>1, <4>2, StartOther
      <4>4. MessagesDone("server")' = MessagesDone("server")
        BY <2>1 DEF MessagesDone
      <4> QED BY <2>1, <2>2, <4>3, <4>4, RemainingKept
    <3>4. IsConnected("server")' => IsConnected("server")
      BY <2>1 DEF IsConnected
    <3> QED BY <2>1, <2>2, <2>4, <3>2, <3>3, <3>4, AccountSame
  <2> QED BY <2>3, <2>4 DEF Ends
<1> QED BY <1>1, <1>2, Response

LEMMA AccountNotified ==
    ASSUME TypeOK, Born, HandshakeOK, Turns, Announced, DeliveredInOrder, UNCHANGED kind,
           kind = "framed", WaitForValidation, NEW p \in Ends, Account(p), Stays(p)
    PROVE  Account(p)'
<1> USE DEF userVars, writeVars
<1>1. /\ UNCHANGED <<socket, writes, done, m_qMessagesOut, m_msgTemporaryIn, m_nValidationOut,
                     received, accepted>>
      /\ reading["client"] = "notify" /\ wire["client"] # <<>> /\ Taken("client")
      /\ \/ /\ Head(wire["client"]) = m_nValidationOut
            /\ ReadOn("client", "header", FALSE)
         \/ reading' = [reading EXCEPT !["client"] = "none"]
  BY DEF WaitForValidation, Arrives
<1>2. /\ "client" \in Ends /\ "server" \in Ends
      /\ Peer("client") = "server" /\ Peer("server") = "client"
  BY DEF Ends, Peer
<1>3. PICK e \in Ends : e = Peer(p)
  BY Others
<1>4. (IsConnected(e)' => IsConnected(e)) /\ Remaining(e)' = Remaining(e)
  BY <1>1, SameWriter
<1>5. CASE p = "server"
  <2>1. wire'["server"] = wire["server"] /\ reading'["server"] = reading["server"]
    BY <1>1, <1>2 DEF Taken, ReadOn, TypeOK
  <2>2. Heard("server")' = Heard("server")
    BY <1>1, <1>2, <2>1, SameListener
  <2> QED BY <1>1, <1>3, <1>4, <1>5, <2>2, AccountSame
<1>6. CASE p = "client" /\ ReadOn("client", "header", FALSE)
           /\ Head(wire["client"]) = m_nValidationOut
  <2>1. Head(wire["client"]) \in Numbers
    BY <1>6 DEF HandshakeOK, Numbers
  <2>2. /\ received'["client"] = received["client"]
        /\ reading["client"] # "body" /\ reading'["client"] # "body"
    BY <1>1, <1>2, <1>6 DEF ReadOn, TypeOK
  <2>3. Heard("client")' = Heard("client")
    BY <1>1, <1>2, <2>1, <2>2, HeardNumber
  <2> QED BY <1>1, <1>3, <1>4, <1>6, <2>3, AccountSame
<1>7. CASE p = "client" /\ reading' = [reading EXCEPT !["client"] = "none"]
  <2>1. reading'["client"] = "none"
    BY <1>2, <1>7 DEF TypeOK
  <2>2. Responses' = 0
    <3>1. Responses = 0
      BY <1>1 DEF Turns
    <3> QED BY <1>1, <3>1 DEF Responses
  <2>3. ~Asking' /\ kind' # "raw"
    <3>1. socket["client"] # "connecting"
      BY <1>1, <1>2 DEF Born
    <3> QED BY <1>1, <2>1, <3>1 DEF Asking
  <2> QED BY <1>7, <2>1, <2>2, <2>3, Deaf DEF Listening
<1> QED BY <1>1, <1>5, <1>6, <1>7 DEF Ends

\* The handler of a write of the handshake.
LEMMA AccountValidation ==
    ASSUME TypeOK, TypeOK', Asks, TurnsInv, UNCHANGED kind, NEW d \in Ends, ValidationWritten(d),
           NEW p \in Ends, Account(p), Stays(p)
    PROVE  Account(p)'
<1>1. done[d] # <<>> /\ done' = [done EXCEPT ![d] = Tail(@)]
      /\ Head(done[d]) \in {"challenge", "response", "notify"}
  BY DEF ValidationWritten, Finished
<1>2. PICK s \in Seq(OpNames) : s = done[d] /\ s # <<>> /\ done'[d] = Tail(s)
  BY <1>1 DEF TypeOK
<1>3. kind = "framed"
  <2>1. Head(s) \in OpNames
    BY <1>2
  <2> QED BY <1>1, <1>2, <2>1, LimitsAssumption DEF TypeOK, OpNames
<1>4. /\ UNCHANGED <<socket, wire, writes, received, m_msgTemporaryIn, m_qMessagesOut, accepted>>
      /\ \/ reading' = reading
         \/ /\ reading["client"] = "none"
            /\ reading' = [reading EXCEPT !["client"] = "notify"]
  BY <1>3, WrittenWaits DEF TurnsInv
<1>5. Heard(p)' = Heard(p)
  <2>1. CASE reading' = reading
    BY <1>4, <2>1, SameListener
  <2>2. CASE reading["client"] = "none" /\ reading' = [reading EXCEPT !["client"] = "notify"]
    <3>1. CASE p = "client"
      <4>1. reading["client"] # "body" /\ reading'["client"] # "body"
        BY <2>2 DEF TypeOK, Ends
      <4>2. Partial(p)' = Partial(p)
        BY <3>1, <4>1, PartialKept
      <4> QED BY <1>4, <4>2, HeardKept
    <3>2. CASE p # "client"
      <4>1. reading'[p] = reading[p]
        BY <2>2, <3>2 DEF TypeOK
      <4> QED BY <1>4, <4>1, SameListener
    <3> QED BY <3>1, <3>2
  <2> QED BY <1>4, <2>1, <2>2
<1>6. PICK e \in Ends : e = Peer(p)
  BY Others
<1>7. Remaining(e)' = Remaining(e)
  <2>1. CASE e # d
    <3>1. done'[e] = done[e]
      BY <1>1, <2>1 DEF TypeOK
    <3> QED BY <1>4, <3>1, SameWriter
  <2>2. CASE e = d
    <3>1. Head(s) \notin MessageOps
      BY <1>1, <1>2 DEF MessageOps
    <3>2. Picked(s, MessageOps) = Picked(Tail(s), MessageOps)
      BY <1>2, <3>1, PickedHead
    <3>3. MessagesDone(e)' = MessagesDone(e)
      BY <1>2, <2>2, <3>2 DEF MessagesDone
    <3>4. MessagesWriting(e)' = MessagesWriting(e)
      BY <1>4, KindKept DEF MessagesWriting
    <3> QED BY <1>4, <3>3, <3>4, RemainingKept
  <2> QED BY <2>1, <2>2
<1>8. IsConnected(e)' => IsConnected(e)
  BY <1>4 DEF IsConnected
<1> QED BY <1>4, <1>5, <1>6, <1>7, <1>8, AccountSame

\* The server accepts: nothing has been accepted from its user, nor written.
LEMMA AccountAccepted ==
    ASSUME TypeOK, Born, Announced, DeliveredInOrder, UNCHANGED kind, ConnectToClient,
           NEW p \in Ends, Account(p), Stays(p)
    PROVE  Account(p)'
<1> USE DEF userVars
<1>0. /\ "client" \in Ends /\ "server" \in Ends
      /\ Peer("client") = "server" /\ Peer("server") = "client"
  BY DEF Ends, Peer
<1>1. CASE CloseSocket("server")
  <2>1. UNCHANGED accepted
    BY DEF ConnectToClient
  <2> QED BY <1>0, <1>1, <2>1, CloseShuts, AccountShut
<1>2. CASE ~CloseSocket("server")
  <2>1. /\ socket["server"] = "unborn" /\ socket' = [socket EXCEPT !["server"] = "open"]
        /\ UNCHANGED <<wire, done, m_qMessagesOut, m_msgTemporaryIn, received, accepted>>
        /\ \/ reading' = [reading EXCEPT !["server"] = "response"]
           \/ reading' = [reading EXCEPT !["server"] = "raw"]
        /\ (\E name, words : Start("server", name, words)) \/ UNCHANGED writes
    BY <1>2 DEF ConnectToClient, RawBegins
  <2>2. m_qMessagesOut["server"] = <<>> /\ accepted["server"] = <<>> /\ reading["server"] = "none"
    BY <1>0, <2>1 DEF Born
  <2>3. /\ reading'["server"] # "body" /\ reading'["client"] = reading["client"]
        /\ writes'["client"] = writes["client"] /\ socket'["client"] = socket["client"]
    BY <1>0, <2>1 DEF Start, TypeOK
  <2>4. CASE p = "server"
    <3>1. Heard(p)' = Heard(p)
      <4>1. Partial(p)' = Partial(p)
        BY <2>2, <2>3, <2>4, PartialKept
      <4> QED BY <2>1, <4>1, HeardKept
    <3>2. PICK e \in Ends : e = Peer(p) /\ e = "client"
      BY <1>0, <2>4
    <3>3. (IsConnected(e)' => IsConnected(e)) /\ Remaining(e)' = Remaining(e)
      BY <2>1, <2>3, <3>2, SameWriter
    <3> QED BY <2>1, <3>1, <3>2, <3>3, AccountSame
  <2>5. CASE p = "client"
    <3>1. Heard(p)' = Heard(p)
      BY <2>1, <2>3, <2>5, SameListener
    <3>2. PICK q : q = accepted[Peer(p)] /\ accepted'[Peer(p)] = q /\ q = <<>>
      BY <1>0, <2>1, <2>2, <2>5
    <3>3. Remaining(Peer(p))' = <<>>
      BY <1>0, <2>1, <2>2, <2>5 DEF Remaining, RemainingOf
    <3>4. ASSUME Alive(p)', Listening(p)'
          PROVE  \E rest \in Seq(Words) : /\ WordsOf(q) = Heard(p)' \o rest
                                          /\ IsConnected(Peer(p))' => rest = Remaining(Peer(p))'
      <4>1. PICK rest \in Seq(Words) : WordsOf(q) = Heard(p) \o rest
        BY <3>2, <3>4, AccountOf DEF Stays
      <4>2. PICK h \in Seq(Words) : h = Heard(p)
        BY HeardType
      <4>3. Len(h \o rest) = Len(h) + Len(rest)
        BY Elements
      <4>4. h \o rest = <<>>
        BY <3>2, <4>1, <4>2, WordsOfEmpty
      <4>5. Len(rest) = 0
        BY <4>3, <4>4
      <4>6. rest = <<>>
        BY <4>5, EmptySeq
      <4> QED BY <3>1, <3>3, <4>1, <4>6
    <3> QED BY <3>2, <3>4, AccountFrom
  <2> QED BY <2>4, <2>5 DEF Ends
<1> QED BY <1>1, <1>2

\* The client has connected, and begins to read.
LEMMA AccountConnected ==
    ASSUME TypeOK, Born, UNCHANGED kind, ConnectToServer, NEW p \in Ends, Account(p), Stays(p)
    PROVE  Account(p)'
<1> USE DEF userVars, writeVars
<1>0. /\ "client" \in Ends /\ "server" \in Ends
      /\ Peer("client") = "server" /\ Peer("server") = "client"
  BY DEF Ends, Peer
<1>1. CASE CloseSocket("client")
  <2>1. UNCHANGED accepted
    BY DEF ConnectToServer
  <2> QED BY <1>0, <1>1, <2>1, CloseShuts, AccountShut
<1>2. CASE ~CloseSocket("client")
  <2>1. /\ socket["client"] = "connecting" /\ socket' = [socket EXCEPT !["client"] = "open"]
        /\ UNCHANGED <<wire, writes, done, m_qMessagesOut, m_msgTemporaryIn, received, accepted>>
        /\ \/ reading' = [reading EXCEPT !["client"] = "challenge"]
           \/ reading' = [reading EXCEPT !["client"] = "raw"]
    BY <1>2 DEF ConnectToServer, RawBegins
  <2>2. reading["client"] = "none"
    BY <1>0, <2>1 DEF Born
  <2>3. /\ reading'["client"] # "body" /\ reading'["server"] = reading["server"]
        /\ socket'["server"] = socket["server"]
    BY <1>0, <2>1 DEF TypeOK
  <2>4. Heard(p)' = Heard(p)
    <3>1. Partial(p)' = Partial(p)
      BY <2>1, <2>2, <2>3, PartialKept DEF Ends
    <3> QED BY <2>1, <3>1, HeardKept
  <2>5. PICK e \in Ends : e = Peer(p)
    BY Others
  <2>6. Remaining(e)' = Remaining(e)
    <3>1. MessagesWriting(e)' = MessagesWriting(e) /\ MessagesDone(e)' = MessagesDone(e)
      BY <2>1, KindKept DEF MessagesWriting, MessagesDone
    <3> QED BY <2>1, <3>1, RemainingKept
  <2>7. IsConnected(e)' => IsConnected(e)
    <3>1. socket'["server"] = socket["server"] /\ IsConnected("client")
      BY <2>1, <2>3 DEF IsConnected
    <3> QED BY <3>1 DEF IsConnected, Ends
  <2> QED BY <2>1, <2>4, <2>5, <2>6, <2>7, AccountSame
<1> QED BY <1>1, <1>2

LEMMA AccountsInit == Init => Accounts
<1> SUFFICES ASSUME Init, NEW p \in Ends PROVE Account(p)
  BY DEF Accounts
<1>1. /\ received[p] = <<>> /\ reading[p] = "none" /\ wire[p] = <<>>
      /\ accepted[Peer(p)] = <<>> /\ m_qMessagesOut[Peer(p)] = <<>>
  BY Others DEF Init
<1>2. Heard(p) = <<>>
  <2>1. WordsOf(received[p]) = <<>> /\ Partial(p) = <<>> /\ Picked(wire[p], Speech) = <<>>
    BY <1>1, WordsOfEmpty, PickedEmpty DEF Partial
  <2>2. <<>> \in Seq(Words)
    OBVIOUS
  <2>3. PICK n \in Seq(Words) : n = <<>> /\ n \o n = n
    BY <2>2, ConcatEmptySeq
  <2> QED BY <2>1, <2>3 DEF Heard
<1>3. Remaining(Peer(p)) = <<>>
  BY <1>1 DEF Remaining, RemainingOf
<1>4. PICK n \in Seq(Words) : n = <<>> /\ n \o n = n
  <2>1. <<>> \in Seq(Words)
    OBVIOUS
  <2> QED BY <2>1, ConcatEmptySeq
<1>5. WordsOf(accepted[Peer(p)]) = n
  BY <1>1, <1>4, WordsOfEmpty
<1> QED BY <1>2, <1>3, <1>4, <1>5 DEF Account, Carried

LEMMA AccountsStep ==
    TypeOK /\ TypeOK' /\ Born /\ WritersOK /\ AgreementInv /\ Utters /\ Asks /\ TurnsInv
    /\ Announced /\ DeliveredInOrder /\ Sized /\ Accounts /\ [Next]_vars => Accounts'
<1> SUFFICES ASSUME TypeOK, TypeOK', Born, WritersOK, AgreementInv, Utters, Asks, TurnsInv,
                    Announced, DeliveredInOrder, Sized, Accounts, [Next]_vars
             PROVE  Accounts'
  OBVIOUS
<1> SUFFICES ASSUME NEW p \in Ends PROVE Account(p)'
  BY DEF Accounts
<1>0. UNCHANGED kind /\ kind \in {"framed", "raw"} /\ Stays(p) /\ Account(p)
  BY KindStays, StaysStep, LimitsAssumption DEF TypeOK, Accounts
<1>1. ASSUME NEW d \in Ends, Shuts(d), UNCHANGED accepted PROVE Account(p)'
  BY <1>0, <1>1, AccountShut
<1>2. ASSUME NEW d \in Ends, Aborted(d) \/ PeerClosed(d) \/ ConnectionLost(d) PROVE Account(p)'
  BY <1>1, <1>2, FailureShuts DEF userVars
<1>3. ASSUME NEW d \in Ends, Transfer(d) PROVE Account(p)'
  BY <1>0, <1>3, AccountTransfer
<1>4. ASSUME NEW d \in Ends, ValidationWritten(d) PROVE Account(p)'
  BY <1>0, <1>4, AccountValidation
<1>5. ASSUME NEW d \in Ends, HeaderWritten(d) \/ BodyWritten(d) \/ RawWritten(d) PROVE Account(p)'
  BY <1>0, <1>5, AccountWritten
<1>6. ASSUME NEW d \in Ends, ReadHeader(d) \/ ReadBody(d) \/ BodyRead(d) \/ ReadRaw(d)
      PROVE  Account(p)'
  <2>1. Account(d)
    BY DEF Accounts
  <2> QED BY <1>0, <1>6, <2>1, AccountRead
<1>7. ASSUME NEW d \in Ends, RunPosted(d) PROVE Account(p)'
  <2>1. ASSUME NEW m \in Sendable, Queues(d, m) PROVE Account(p)'
    BY <1>0, <2>1, AccountPosted
  <2> QED BY <1>1, <1>7, <2>1, LambdaRuns
<1>8. ASSUME NEW d \in Ends, User(d) PROVE Account(p)'
  <2>1. UNCHANGED <<socket, readVars, writeVars, accepted>>
    BY <1>8 DEF User, Send, Disconnect
  <2>2. Heard(p)' = Heard(p)
    BY <1>0, <2>1, SameListener DEF readVars
  <2>3. PICK e \in Ends : e = Peer(p)
    BY Others
  <2>4. (IsConnected(e)' => IsConnected(e)) /\ Remaining(e)' = Remaining(e)
    BY <1>0, <2>1, SameWriter DEF writeVars
  <2> QED BY <1>0, <2>1, <2>2, <2>3, <2>4, AccountSame
<1>9. ASSUME ConnectToClient PROVE Account(p)'
  BY <1>0, <1>9, AccountAccepted
<1>10. ASSUME ConnectToServer PROVE Account(p)'
  BY <1>0, <1>10, AccountConnected
<1>11. ASSUME ReadChallenge \/ ReadResponse \/ WaitForValidation PROVE Account(p)'
  <2>1. reading["client"] \in {"challenge", "notify"} \/ reading["server"] = "response"
    BY <1>11 DEF ReadChallenge, ReadResponse, WaitForValidation, Arrives
  <2>2. kind = "framed"
    BY <1>0, <2>1 DEF TypeOK, Reads, OpNames, Ends
  <2>3. HandshakeOK /\ Turns
    BY <2>2 DEF AgreementInv, TurnsInv
  <2> QED BY <1>0, <1>11, <2>2, <2>3, AccountChallenge, AccountResponse, AccountNotified
<1>12. ASSUME DestroyConnection PROVE Account(p)'
  BY <1>1, <1>12, EndShuts DEF Ends
<1>13. ASSUME UNCHANGED vars PROVE Account(p)'
  <2>1. Heard(p)' = Heard(p)
    BY <1>0, <1>13, SameListener DEF vars
  <2>2. PICK e \in Ends : e = Peer(p)
    BY Others
  <2>3. (IsConnected(e)' => IsConnected(e)) /\ Remaining(e)' = Remaining(e)
    BY <1>0, <1>13, SameWriter DEF vars
  <2> QED BY <1>0, <1>13, <2>1, <2>2, <2>3, AccountSame DEF vars
<1> QED BY <1>2, <1>3, <1>4, <1>5, <1>6, <1>7, <1>8, <1>9, <1>10, <1>11, <1>12, <1>13
        DEF Next, Handler

-----------------------------------------------------------------------------
(* In order.                                                                *)

LEMMA ContentsKept ==
    ASSUME UNCHANGED kind, NEW q PROVE Contents(q)' = Contents(q)
BY DEF Contents, BodyOf

LEMMA RawContents == ASSUME kind = "raw", NEW q PROVE Contents(q) = WordsOf(q)
BY DEF Contents, WordsOf, Whole

\* A message is accepted behind those of which some are delivered.
LEMMA OrderQueued ==
    ASSUME TypeOK, DeliveredInOrder, NEW p \in Ends, NEW m \in Sendable
    PROVE  IsPrefix(Contents(received[p]), Contents(Append(accepted[Peer(p)], m)))
<1>0. kind \in {"framed", "raw"}
  BY LimitsAssumption DEF TypeOK
<1>1. PICK q \in Seq(Carriable), s \in Seq(Carriable) : q = accepted[Peer(p)] /\ s = received[p]
  BY ReceivedCarriable
<1>2. m \in Carriable
  BY SentIsCarriable
<1>3. CASE kind = "framed"
  <2>1. PICK u \in Seq(Carriable) : q = s \o u
    BY <1>1, <1>3, ReceivedCarriable
  <2>2. PICK v \in Seq(Carriable) : v = Append(u, m)
    <3>1. Append(u, m) \in Seq(Carriable)
      BY <1>2
    <3> QED BY <3>1
  <2>3. Append(q, m) = s \o v
    <3>1. s \o Append(u, m) = Append(s \o u, m)
      BY <1>2, ConcatAppend
    <3> QED BY <2>1, <2>2, <3>1
  <2>4. IsPrefix(s, s \o v)
    BY <2>2, PrefixOfConcat
  <2>5. Contents(s) = s /\ Contents(Append(q, m)) = Append(q, m)
    BY <1>3 DEF Contents
  <2> QED BY <1>1, <2>3, <2>4, <2>5
<1>4. CASE kind = "raw"
  <2>1. IsPrefix(WordsOf(s), WordsOf(q))
    <3>1. PICK e \in Ends : e = Peer(p) /\ p = Peer(e)
      BY Others
    <3>2. IsPrefix(Contents(received[Peer(e)]), Contents(accepted[e]))
      BY DEF DeliveredInOrder
    <3> QED BY <1>1, <1>4, <3>1, <3>2, RawContents
  <2>2. PICK a \in Seq(Words), b \in Seq(Words), x \in Seq(Words) :
           a = WordsOf(s) /\ b = WordsOf(q) /\ x = Whole(m)
    <3>1. WordsOf(s) \in Seq(Words) /\ WordsOf(q) \in Seq(Words) /\ Whole(m) \in Seq(Words)
      BY <1>2, WordsOfType, WholeType
    <3> QED BY <3>1
  <2>3. WordsOf(Append(q, m)) = b \o x
    BY <1>2, <2>2, WordsOfAppend
  <2>4. IsPrefix(a, b \o x)
    BY <2>1, <2>2, PrefixGrows
  <2> QED BY <1>1, <1>4, <2>2, <2>3, <2>4, RawContents
<1> QED BY <1>0, <1>3, <1>4

\* What ReadRaw delivers continues what was delivered.
LEMMA OrderRaw ==
    ASSUME TypeOK, TypeOK', Born, Announced, DeliveredInOrder, UNCHANGED kind, NEW p \in Ends,
           Account(p), ReadRaw(p)
    PROVE  IsPrefix(Contents(received'[p]), Contents(accepted[Peer(p)]))
<1>1. reading[p] = "raw" /\ Alive(p)
  BY DEF ReadRaw, Arrives, Alive
<1>2. kind = "raw" /\ reading'[p] # "body"
  <2>1. kind = "raw"
    BY <1>1, LimitsAssumption DEF TypeOK, Reads, OpNames
  <2>2. \E m : AddToIncomingMessageQueue(p, m)
    BY DEF ReadRaw
  <2> QED BY <2>1, <2>2, ReadingNext
<1>3. PICK q : q = accepted[Peer(p)]
  OBVIOUS
<1>4. PICK rest \in Seq(Words) : WordsOf(q) = Heard(p) \o rest
  BY <1>1, <1>2, <1>3, AccountOf DEF Listening
<1>5. PICK s \in Seq(Carriable) : s = received'[p]
  <2>1. received'[p] \in Seq(Frames')
    BY DEF TypeOK
  <2>2. Frames' = Frames /\ Carriable = Frames
    BY <1>2, KindKept DEF Carriable
  <2> QED BY <2>1, <2>2
<1>6. PICK a \in Seq(Words) : a = WordsOf(s)
  BY WordsOfType
<1>7. PICK w \in Seq(Words) : w = Picked(wire'[p], Speech)
  <2>1. wire'[p] \in Seq(Words)
    BY KindKept DEF TypeOK
  <2>2. PICK B : B = Words \cap Speech
    OBVIOUS
  <2>3. Picked(wire'[p], Speech) \in Seq(B)
    BY <2>1, <2>2, PickedType
  <2>4. Seq(B) \subseteq Seq(Words)
    BY <2>2, SeqMonotone
  <2> QED BY <2>3, <2>4
<1>8. Heard(p)' = (a \o <<>>) \o w
  <2>1. WordsOf(s)' = a /\ Speech' = Speech
    BY <1>6, WordsKept, SpeechKept
  <2>2. Partial(p)' = <<>>
    BY <1>2 DEF Partial
  <2> QED BY <1>5, <1>7, <2>1, <2>2 DEF Heard
<1>9. a \o <<>> = a
  BY ConcatEmptySeq
<1>10. WordsOf(q) = (a \o w) \o rest
  BY <1>4, <1>8, <1>9, HeardRaw
<1>11. PICK v \in Seq(Words) : v = w \o rest
  BY Elements
<1>12. WordsOf(q) = a \o v
  <2>1. Grouped(a, w, rest)
    BY Associates
  <2> QED BY <1>10, <1>11, <2>1 DEF Grouped
<1>13. IsPrefix(a, WordsOf(q))
  BY <1>12, PrefixOfConcat
<1> QED BY <1>2, <1>3, <1>5, <1>6, <1>13, RawContents

Ordered(p) == IsPrefix(Contents(received[p]), Contents(accepted[Peer(p)]))

LEMMA EachInOrder == DeliveredInOrder <=> \A p \in Ends : Ordered(p)
BY Others DEF DeliveredInOrder, Ordered

LEMMA OrderedFrom ==
    ASSUME UNCHANGED kind, NEW p \in Ends, NEW q, NEW r, received'[p] = q,
           accepted'[Peer(p)] = r, IsPrefix(Contents(q), Contents(r))
    PROVE  Ordered(p)'
BY ContentsKept DEF Ordered

LEMMA OrderStep ==
    TypeOK /\ TypeOK' /\ Born /\ AgreementInv /\ Announced /\ Sized /\ Accounts
    /\ DeliveredInOrder /\ [Next]_vars => DeliveredInOrder'
<1> SUFFICES ASSUME TypeOK, TypeOK', Born, AgreementInv, Announced, Sized, Accounts,
                    DeliveredInOrder, [Next]_vars
             PROVE  DeliveredInOrder'
  OBVIOUS
<1> SUFFICES ASSUME NEW p \in Ends PROVE Ordered(p)'
  BY Others DEF DeliveredInOrder, Ordered
<1> USE DEF userVars, writeVars, readVars
<1>0. UNCHANGED kind /\ Ordered(p) /\ Account(p)
  BY KindStays, EachInOrder DEF Accounts
<1>1. ASSUME received'[p] = received[p], accepted'[Peer(p)] = accepted[Peer(p)]
      PROVE  Ordered(p)'
  BY <1>0, <1>1, OrderedFrom DEF Ordered
<1>2. ASSUME UNCHANGED <<received, accepted>> PROVE Ordered(p)'
  BY <1>1, <1>2
<1>3. ASSUME NEW d \in Ends, Shuts(d), UNCHANGED accepted PROVE Ordered(p)'
  BY <1>2, <1>3 DEF Shuts
<1>4. ASSUME NEW d \in Ends, Aborted(d) \/ PeerClosed(d) \/ ConnectionLost(d) PROVE Ordered(p)'
  BY <1>3, <1>4, FailureShuts
<1>5. ASSUME NEW d \in Ends, \/ Transfer(d) \/ ValidationWritten(d) \/ HeaderWritten(d)
                             \/ BodyWritten(d) \/ RawWritten(d) \/ User(d)
      PROVE  Ordered(p)'
  <2>1. ASSUME NEW names, Finished(d, names) PROVE UNCHANGED <<received, accepted>>
    BY <2>1 DEF Finished
  <2>2. ValidationWritten(d) \/ HeaderWritten(d) \/ BodyWritten(d) \/ RawWritten(d)
            => UNCHANGED <<received, accepted>>
    BY <2>1 DEF ValidationWritten, HeaderWritten, BodyWritten, RawWritten
  <2>3. Transfer(d) \/ User(d) => UNCHANGED <<received, accepted>>
    BY DEF Transfer, User, Send, Disconnect
  <2> QED BY <1>2, <1>5, <2>2, <2>3
<1>6. ASSUME NEW d \in Ends, RunPosted(d) PROVE Ordered(p)'
  <2>1. ASSUME NEW m \in Sendable, Queues(d, m) PROVE Ordered(p)'
    <3>1. received' = received /\ accepted' = [accepted EXCEPT ![d] = Append(@, m)]
      BY <2>1 DEF Queues
    <3>2. PICK e \in Ends : e = Peer(p)
      BY Others
    <3>3. CASE e = d
      <4>1. PICK r : r = Append(accepted[e], m) /\ accepted'[e] = r
        BY <3>1, <3>3 DEF TypeOK
      <4>2. IsPrefix(Contents(received[p]), Contents(r))
        BY <3>2, <4>1, OrderQueued
      <4> QED BY <1>0, <3>1, <3>2, <4>1, <4>2, OrderedFrom
    <3>4. CASE e # d
      <4>1. accepted'[e] = accepted[e]
        BY <3>1, <3>4 DEF TypeOK
      <4> QED BY <1>1, <3>1, <3>2, <4>1
    <3> QED BY <3>3, <3>4
  <2> QED BY <1>3, <1>6, <2>1, LambdaRuns
<1>7. ASSUME NEW d \in Ends, ReadHeader(d) \/ ReadBody(d) PROVE Ordered(p)'
  <2>1. ReadHeader(d) => UNCHANGED <<received, accepted>>
    BY HeaderKept
  <2>2. ReadBody(d) => UNCHANGED <<received, accepted>>
    BY DEF ReadBody
  <2> QED BY <1>2, <1>7, <2>1, <2>2
<1>8. ASSUME NEW d \in Ends, BodyRead(d) PROVE Ordered(p)'
  <2>1. accepted' = accepted /\ received' = [received EXCEPT ![d] = Append(@, m_msgTemporaryIn[d])]
    BY <1>8 DEF BodyRead, AddToIncomingMessageQueue
  <2>2. CASE p # d
    <3>1. received'[p] = received[p]
      BY <2>1, <2>2 DEF TypeOK
    <3> QED BY <1>1, <2>1, <3>1
  <2>3. CASE p = d
    <3>1. kind = "framed" /\ m_msgTemporaryIn[p] \in Msgs
      BY <1>0, <1>8, <2>3, BodyIsNext
    <3>2. PICK t \in Seq(Msgs) : accepted[Peer(p)] = Append(received[p], m_msgTemporaryIn[p]) \o t
      BY <1>0, <1>8, <2>3, BodyIsNext
    <3>3. PICK s \in Seq(Msgs) : s = Append(received[p], m_msgTemporaryIn[p])
      <4>1. received[p] \in Seq(Msgs)
        BY <3>1, ReceivedCarriable DEF Carriable
      <4>2. Append(received[p], m_msgTemporaryIn[p]) \in Seq(Msgs)
        BY <3>1, <4>1
      <4> QED BY <4>2
    <3>4. received'[p] = s
      BY <2>1, <2>3, <3>3 DEF TypeOK
    <3>5. PICK r : r = accepted[Peer(p)] /\ accepted'[Peer(p)] = r /\ r = s \o t
      BY <2>1, <3>2, <3>3
    <3>6. IsPrefix(Contents(s), Contents(r))
      <4>1. IsPrefix(s, s \o t)
        BY PrefixOfConcat
      <4>2. Contents(s) = s /\ Contents(r) = r
        BY <3>1 DEF Contents
      <4> QED BY <3>5, <4>1, <4>2
    <3> QED BY <1>0, <3>4, <3>5, <3>6, OrderedFrom
  <2> QED BY <2>2, <2>3
<1>9. ASSUME NEW d \in Ends, ReadRaw(d) PROVE Ordered(p)'
  <2>1. accepted' = accepted /\ (p # d => received'[p] = received[p])
    BY <1>9 DEF ReadRaw, AddToIncomingMessageQueue, TypeOK
  <2>2. CASE p = d
    <3>1. PICK q, r : q = received'[p] /\ r = accepted[Peer(p)] /\ accepted'[Peer(p)] = r
      BY <2>1
    <3>2. IsPrefix(Contents(q), Contents(r))
      BY <1>0, <1>9, <2>2, <3>1, OrderRaw
    <3> QED BY <1>0, <3>1, <3>2, OrderedFrom
  <2> QED BY <1>1, <2>1, <2>2
<1>10. ASSUME ConnectToClient \/ ConnectToServer \/ ReadChallenge \/ ReadResponse
              \/ WaitForValidation \/ DestroyConnection
       PROVE  Ordered(p)'
  <2>1. ConnectToClient \/ ConnectToServer => UNCHANGED <<received, accepted>>
    BY DEF ConnectToClient, ConnectToServer, CloseSocket
  <2>2. ReadChallenge \/ ReadResponse \/ WaitForValidation => UNCHANGED <<received, accepted>>
    BY DEF ReadChallenge, ReadResponse, WaitForValidation, CloseSocket
  <2>3. DestroyConnection => UNCHANGED <<received, accepted>>
    BY DEF DestroyConnection, CloseSocket
  <2> QED BY <1>2, <1>10, <2>1, <2>2, <2>3
<1>11. ASSUME UNCHANGED vars PROVE Ordered(p)'
  BY <1>2, <1>11 DEF vars
<1> QED BY <1>4, <1>5, <1>6, <1>7, <1>8, <1>9, <1>10, <1>11 DEF Next, Handler

(***************************************************************************)
(* The invariant: the writers, the handshake, whose turn it is, and the    *)
(* account of each direction, on which the order of delivery rests.        *)
(***************************************************************************)
StreamInv ==
    /\ Inv /\ AgreementInv
    /\ Utters /\ Asks /\ TurnsInv
    /\ Announced /\ Accounts /\ DeliveredInOrder

LEMMA OrderInit == Init => DeliveredInOrder
<1> SUFFICES ASSUME Init, NEW e \in Ends
             PROVE  IsPrefix(Contents(received[Peer(e)]), Contents(accepted[e]))
  BY DEF DeliveredInOrder
<1>1. received[Peer(e)] = <<>> /\ accepted[e] = <<>>
  BY Others DEF Init
<1>2. Contents(<<>>) = <<>>
  <2>1. kind = "framed" => Contents(<<>>) = <<>>
    BY DEF Contents
  <2>2. kind = "raw" => Contents(<<>>) = <<>>
    BY RawContents, WordsOfEmpty
  <2> QED BY <2>1, <2>2, LimitsAssumption DEF Init
<1>3. PICK n \in Seq(Words) : n = <<>> /\ n \o n = n
  <2>1. <<>> \in Seq(Words)
    OBVIOUS
  <2> QED BY <2>1, ConcatEmptySeq
<1>4. IsPrefix(n, n \o n)
  BY PrefixOfConcat
<1> QED BY <1>1, <1>2, <1>3, <1>4

LEMMA StreamInit == Init => StreamInv
BY InvInit, AgreementInit, UttersInit, AsksInit, TurnsInit, AnnouncedInit, AccountsInit, OrderInit
DEF StreamInv

LEMMA StreamStep == Sized /\ StreamInv /\ [Next]_vars => StreamInv'
<1> SUFFICES ASSUME Sized, StreamInv, [Next]_vars PROVE StreamInv'
  OBVIOUS
<1>1. Inv' /\ TypeOK /\ TypeOK' /\ Born /\ WritersOK
  BY InvStep DEF StreamInv, Inv
<1>2. AgreementInv' /\ Utters' /\ Asks'
  BY <1>1, AgreementStep, UttersStep, AsksStep DEF StreamInv
<1>3. TurnsInv'
  BY <1>1, TurnsStep DEF StreamInv
<1>4. Announced'
  BY <1>1, AnnouncedStep DEF StreamInv
<1>5. Accounts'
  BY <1>1, AccountsStep DEF StreamInv
<1>6. DeliveredInOrder'
  BY <1>1, OrderStep DEF StreamInv
<1> QED BY <1>1, <1>2, <1>3, <1>4, <1>5, <1>6 DEF StreamInv

LEMMA StreamInvariant == ASSUME Sized PROVE Spec => []StreamInv
<1>1. Init => StreamInv
  BY StreamInit
<1>2. StreamInv /\ [Next]_vars => StreamInv'
  BY StreamStep
<1> QED BY <1>1, <1>2, PTL DEF Spec

(***************************************************************************)
(* When every message sent has the size of its body, and whatever is sent, *)
(* when the users disconnect and when the connection is lost: the other    *)
(* end's queue gets what entered this end's, unchanged, each message once, *)
(* in order; on a raw connection each byte, however messages are cut.      *)
(***************************************************************************)
THEOREM InOrder == ASSUME Sized PROVE Spec => []DeliveredInOrder
<1>1. StreamInv => DeliveredInOrder
  BY DEF StreamInv
<1> QED BY <1>1, StreamInvariant, PTL

-----------------------------------------------------------------------------
(* In step.                                                                 *)

\* What comes to an end that reads messages is words of messages.
LEMMA OnlySpeech ==
    ASSUME TypeOK, TurnsInv, kind = "framed", NEW p \in Ends, reading[p] \in {"header", "body"}
    PROVE  Picked(wire[p], Speech) = wire[p]
<1>1. PICK e \in Ends : e = Peer(p) /\ p = Peer(e)
  BY Others
<1>2. Pending(e) = 0
  <2>1. p = "server" => e = "client"
    BY <1>1 DEF Peer
  <2>2. p = "client" => e = "server"
    BY <1>1 DEF Peer
  <2> QED BY <2>1, <2>2 DEF TurnsInv, Turns, Ends
<1>3. Count(wire[p], Numbers) = 0
  <2>1. Pending(e) = Count(wire[p], Numbers) + Count(writes[e], NumberOps)
    BY <1>1 DEF Pending
  <2>2. Count(wire[p], Numbers) \in Nat /\ Count(writes[e], NumberOps) \in Nat
    BY CountTypes
  <2>3. \A i, j \in Nat : i + j = 0 => i = 0
    OBVIOUS
  <2> QED BY <1>2, <2>1, <2>2, <2>3
<1>4. PICK s \in Seq(Words) : s = wire[p]
  BY DEF TypeOK
<1>5. Picked(s, Numbers) = <<>>
  <2>1. PICK B : B = Words \cap Numbers
    OBVIOUS
  <2>2. PICK t \in Seq(B) : t = Picked(s, Numbers)
    BY <2>1, PickedType
  <2>3. Len(t) = 0
    BY <1>3, <1>4, <2>2 DEF Count
  <2> QED BY <2>2, <2>3, EmptySeq
<1> QED BY <1>4, <1>5, PickedRest DEF Speech

\* What an end that reads messages has not delivered yet begins with what
\* it has read of a message and what is on the wire.
Begun(p, u) == \E rest \in Seq(Words) : WordsOf(u) = Partial(p) \o (wire[p] \o rest)

LEMMA ReadsOn ==
    ASSUME TypeOK, StreamInv, NEW p \in Ends, reading[p] \in {"header", "body"}
    PROVE  kind = "framed" /\ \E u \in Seq(Msgs) : Begun(p, u)
<1>1. kind = "framed"
  BY LimitsAssumption DEF TypeOK, Reads, OpNames
<1>2. /\ Born /\ AgreementInv /\ TurnsInv /\ Announced /\ DeliveredInOrder /\ Account(p)
  BY DEF StreamInv, Inv, Accounts
<1>3. Alive(p) /\ Listening(p)
  BY <1>2, ReadsListening
<1>4. PICK u \in Seq(Msgs) : \E rest \in Seq(Words) :
         WordsOf(u) = Partial(p) \o (Picked(wire[p], Speech) \o rest)
  BY <1>1, <1>2, <1>3, Unread
<1>5. Picked(wire[p], Speech) = wire[p]
  BY <1>1, <1>2, OnlySpeech
<1> QED BY <1>1, <1>4, <1>5 DEF Begun

LEMMA HeaderMeetsHeader ==
    ASSUME TypeOK, StreamInv, NEW p \in Ends, wire[p] # <<>>, reading[p] = "header"
    PROVE  Head(wire[p]).word = "header"
<1>1. kind = "framed"
  BY ReadsOn
<1>2. PICK u \in Seq(Msgs) : Begun(p, u)
  BY ReadsOn
<1>3. PICK rest \in Seq(Words) : WordsOf(u) = Partial(p) \o (wire[p] \o rest)
  BY <1>2 DEF Begun
<1>4. PICK s \in Seq(Words) : s = wire[p] /\ s # <<>>
  BY DEF TypeOK
<1>5. PICK h \in Words, b \in Seq(Words) : h = Head(s) /\ b = Tail(s)
  <2>1. Head(s) \in Words /\ Tail(s) \in Seq(Words)
    BY <1>4
  <2> QED BY <2>1
<1>6. WordsOf(u) = (<<h>> \o b) \o rest
  <2>1. Partial(p) = <<>>
    BY DEF Partial
  <2>2. PICK v \in Seq(Words) : v = s \o rest
    BY Elements
  <2>3. <<>> \o v = v
    BY ConcatEmptySeq
  <2>4. s = <<h>> \o b
    BY <1>4, <1>5
  <2> QED BY <1>3, <1>4, <2>1, <2>2, <2>3, <2>4
<1>7. HeaderOf(Head(u)) = h
  BY <1>1, <1>6, FirstUnread
<1>8. HeaderOf(Head(u)).word = "header"
  BY DEF HeaderOf
<1> QED BY <1>4, <1>5, <1>7, <1>8

LEMMA BodyMeetsBody ==
    ASSUME TypeOK, StreamInv, Sized, NEW p \in Ends, wire[p] # <<>>, reading[p] = "body",
           Len(m_msgTemporaryIn[p].body) < Wanted(p)
    PROVE  Head(wire[p]).word = "body"
<1>1. kind = "framed"
  BY ReadsOn
<1>2. PICK u \in Seq(Msgs) : Begun(p, u)
  BY ReadsOn
<1>3. PICK rest \in Seq(Words) : WordsOf(u) = Partial(p) \o (wire[p] \o rest)
  BY <1>2 DEF Begun
<1>4. PICK s \in Seq(Words) : s = wire[p] /\ s # <<>>
  BY DEF TypeOK
<1>5. PICK in \in Frames : in = m_msgTemporaryIn[p]
  BY DEF StreamInv, Inv, Born
<1>6. PICK h \in Words : h = HeaderOf(in)
  BY <1>5 DEF StreamInv, Announced
<1>7. PICK b \in Seq(Words) : b = BodyOf(in) /\ Len(b) = Len(in.body)
  <2>1. in.body \in Seq(Parts)
    BY <1>1 DEF Frames
  <2>2. BodyOf(in) \in Seq(BodyWords) /\ Len(BodyOf(in)) = Len(in.body)
    BY <2>1, BodyType
  <2>3. BodyWords \subseteq Words
    BY DEF Words
  <2> QED BY <2>2, <2>3, SeqMonotone
<1>8. PICK c \in Seq(Words) : c = s \o rest
  BY Elements
<1>9. WordsOf(u) = (<<h>> \o b) \o c
  BY <1>3, <1>4, <1>5, <1>6, <1>7, <1>8 DEF Partial
<1>10. /\ u # <<>> /\ Head(u) \in Msgs /\ Tail(u) \in Seq(Msgs) /\ HeaderOf(Head(u)) = h
       /\ BodyOf(Head(u)) \o WordsOf(Tail(u)) = b \o c
  BY <1>1, <1>9, FirstUnread
<1>11. PICK m \in Msgs, t \in Seq(Msgs) : m = Head(u) /\ t = Tail(u)
  BY <1>10
<1>12. m.size = in.size
  BY <1>6, <1>10, <1>11, SameHeader
<1>13. PICK d \in Seq(Words), v \in Seq(Words) :
          d = BodyOf(m) /\ v = WordsOf(t) /\ Len(d) = Len(m.body)
  <2>1. m \in Sendable /\ Carriable = Msgs
    BY <1>1 DEF Sendable, Carriable
  <2>2. BodyOf(m) \in Seq(Words) /\ WordsOf(t) \in Seq(Words) /\ Len(BodyOf(m)) = Len(m.body)
    BY <2>1, WordsType, WordsOfType
  <2> QED BY <2>2
<1>14. d \o v = b \o c
  BY <1>7, <1>10, <1>11, <1>13
<1>15. Len(b) < Len(d)
  <2>1. m.size - 1 = Len(m.body)
    BY SizedBody
  <2> QED BY <1>5, <1>7, <1>12, <1>13, <2>1 DEF Wanted
<1>16. PICK k \in Nat : k = Len(b) + 1 /\ k \in 1..Len(d)
  <2>1. Len(b) \in Nat /\ Len(d) \in Nat
    OBVIOUS
  <2>2. \A i, j \in Nat : i < j => i + 1 \in Nat /\ i + 1 \in 1..j
    OBVIOUS
  <2> QED BY <1>15, <2>1, <2>2
<1>17. (d \o v)[k] = d[k]
  BY <1>16, Elements
<1>18. (b \o c)[k] = Head(s)
  <2>1. 1 \in 1..Len(c) /\ 1 \in 1..Len(s)
    <3>1. Len(s) # 0 /\ Len(s) \in Nat
      BY <1>4, EmptySeq
    <3>2. Len(c) = Len(s) + Len(rest) /\ Len(rest) \in Nat
      BY <1>8, Elements
    <3>3. \A i, j \in Nat : i # 0 => 1 \in 1..i /\ 1 \in 1..(i + j)
      OBVIOUS
    <3> QED BY <3>1, <3>2, <3>3
  <2>2. (b \o c)[Len(b) + 1] = c[1]
    BY <2>1, Elements
  <2>3. c[1] = s[1]
    BY <1>8, <2>1, Elements
  <2>4. s[1] = Head(s)
    BY <1>4
  <2> QED BY <1>16, <2>2, <2>3, <2>4
<1>19. d[k] = [word |-> "body", part |-> m.body[k]]
  BY <1>13, <1>16 DEF BodyOf
<1>20. d[k].word = "body"
  BY <1>19
<1>21. d[k] = Head(s)
  BY <1>14, <1>17, <1>18
<1> QED BY <1>4, <1>20, <1>21

(***************************************************************************)
(* Under the same condition a read meets the kind of word it is for:       *)
(* ReadHeader a header, and ReadBody a piece of a body as long as the      *)
(* header that was read wants one.                                         *)
(***************************************************************************)
THEOREM StaysInStep == ASSUME Sized PROVE Spec => []InStep
<1>1. StreamInv => InStep
  <2> SUFFICES ASSUME StreamInv PROVE InStep
    OBVIOUS
  <2>1. TypeOK
    BY DEF StreamInv, Inv
  <2> QED BY <2>1, HeaderMeetsHeader, BodyMeetsBody DEF InStep
<1> QED BY <1>1, StreamInvariant, PTL

-----------------------------------------------------------------------------
(* Unpacked.                                                                *)

\* What UnpackedAsPacked says of a message delivered, and of the body sent.
Unpacks(in, b) ==
    \A k \in 0..Len(b) :
        LET second == Output(in, Len(b) - k)
            first == Output(second.msg, k)
        IN /\ second.data = SubSeq(b, k + 1, Len(b))
           /\ first.data = SubSeq(b, 1, k)
           /\ first.msg = Input(NewMsg(in.type), <<>>)

LEMMA CutInTwo ==
    ASSUME NEW in, NEW b \in Seq(Parts), in.body = b PROVE Unpacks(in, b)
<1> SUFFICES ASSUME NEW k \in 0..Len(b), NEW second, second = Output(in, Len(b) - k),
                    NEW first, first = Output(second.msg, k)
             PROVE  /\ second.data = SubSeq(b, k + 1, Len(b))
                    /\ first.data = SubSeq(b, 1, k)
                    /\ first.msg = Input(NewMsg(in.type), <<>>)
  BY DEF Unpacks
<1>1. PICK c \in Seq(Parts) : c = SubSeq(b, 1, k) /\ Len(c) = k
  <2>1. SubSeq(b, 1, k) \in Seq(Parts) /\ Len(SubSeq(b, 1, k)) = k
    BY Joined
  <2> QED BY <2>1
<1>2. Len(b) - (Len(b) - k) = k /\ k \in Nat /\ Len(b) \in Nat
  OBVIOUS
<1>3. second.data = SubSeq(b, k + 1, Len(b)) /\ second.msg = Resized(in, c)
  BY <1>1, <1>2 DEF Output, Rest
<1>4. PICK msg : msg = second.msg /\ msg.body = c /\ msg.type = in.type
  BY <1>3 DEF Resized
<1>5. SubSeq(c, 1, k) = c /\ SubSeq(c, 1, 0) = <<>>
  BY <1>1, SubSeqFull
<1>6. Len(c) - k + 1 = 1 /\ Len(c) - k = 0
  BY <1>1, <1>2
<1>7. first.data = c /\ first.msg = Resized(msg, <<>>)
  BY <1>1, <1>4, <1>5, <1>6 DEF Output, Rest
<1>8. Resized(msg, <<>>) = Resized(NewMsg(in.type), <<>>)
  BY <1>4 DEF Resized, NewMsg
<1>9. Input(NewMsg(in.type), <<>>) = Resized(NewMsg(in.type), <<>>)
  BY DEF Input, NewMsg
<1> QED BY <1>1, <1>3, <1>7, <1>8, <1>9

(***************************************************************************)
(* And what two << put into a message two >> take out of the message       *)
(* delivered for it, the second value first.                               *)
(***************************************************************************)
THEOREM RoundTrip == ASSUME Sized PROVE Spec => []UnpackedAsPacked
<1>1. StreamInv => UnpackedAsPacked
  <2> SUFFICES ASSUME StreamInv, kind = "framed", NEW p \in Ends, NEW i \in DOMAIN received[p]
               PROVE  Unpacks(received[p][i], accepted[Peer(p)][i].body)
    BY DEF UnpackedAsPacked, Unpacks
  <2>1. TypeOK /\ DeliveredInOrder
    BY DEF StreamInv, Inv
  <2>2. PICK s \in Seq(Msgs), u \in Seq(Msgs) : s = received[p] /\ accepted[Peer(p)] = s \o u
    <3>1. received[p] \in Seq(Msgs)
      BY <2>1, ReceivedCarriable DEF Carriable
    <3>2. \E u \in Seq(Msgs) : accepted[Peer(p)] = received[p] \o u
      BY <2>1, ReceivedCarriable DEF Carriable
    <3> QED BY <3>1, <3>2
  <2>3. PICK in \in Msgs : received[p][i] = in /\ accepted[Peer(p)][i] = in
    <3>1. i \in 1..Len(s) /\ s[i] \in Msgs
      BY <2>2
    <3>2. (s \o u)[i] = s[i]
      BY <3>1, Elements
    <3> QED BY <2>2, <3>1, <3>2
  <2>4. PICK b \in Seq(Parts) : in.body = b
    BY MsgsAssumption
  <2>5. Unpacks(in, b)
    BY <2>4, CutInTwo DEF Unpacks
  <2> QED BY <2>3, <2>4, <2>5
<1> QED BY <1>1, StreamInvariant, PTL

-----------------------------------------------------------------------------
(* The duplex stream.                                                       *)

\* An end that reads messages, or words, is ready.
ReadsWhenReady == \A p \in Ends : reading[p] \in {"header", "body", "raw"} => validated[p]

\* A step neither makes an end unready nor lets it read words before it is.
Settles(p) == /\ validated[p] => validated'[p]
              /\ reading'[p] = "raw" => reading[p] = "raw" \/ validated'[p]

LEMMA SettlesStep ==
    ASSUME TypeOK, UNCHANGED kind, [Next]_vars, NEW p \in Ends PROVE Settles(p)
<1> USE DEF userVars, writeVars, readVars
<1>1. ASSUME UNCHANGED <<reading, validated>> PROVE Settles(p)
  BY <1>1 DEF Settles
<1>2. ASSUME NEW d \in Ends, Shuts(d) PROVE Settles(p)
  <2>1. UNCHANGED validated /\ (reading' = reading \/ reading' = [reading EXCEPT ![d] = "none"])
    BY <1>2 DEF Shuts
  <2>2. reading'[p] \in {reading[p], "none"}
    BY <2>1 DEF TypeOK
  <2> QED BY <2>1, <2>2 DEF Settles
<1>3. ASSUME NEW d \in Ends, RawBegins(d) PROVE Settles(p)
  BY <1>3 DEF RawBegins, Settles, TypeOK
<1>4. ASSUME UNCHANGED validated, NEW d \in Ends, NEW r,
             r = "raw" => reading[d] = "raw", reading' = [reading EXCEPT ![d] = r]
      PROVE  Settles(p)
  BY <1>4 DEF Settles, TypeOK
<1>5. ASSUME UNCHANGED validated, NEW d \in Ends, NEW name, NEW nothing,
              name = "raw" => reading[d] = "raw", ReadOn(d, name, nothing)
       PROVE  Settles(p)
  <2>1. /\ reading'[d] \in {name, "none"}
        /\ p # d => reading'[p] = reading[p]
    BY <1>5, ReadingOn
  <2>2. reading'[p] = "raw" => reading[p] = "raw"
    BY <1>5, <2>1
  <2> QED BY <1>5, <2>2 DEF Settles
<1>6. ASSUME NEW d \in Ends, Aborted(d) \/ PeerClosed(d) \/ ConnectionLost(d) PROVE Settles(p)
  BY <1>2, <1>6, FailureShuts
<1>7. ASSUME NEW d \in Ends, Transfer(d) \/ User(d) \/ ReadBody(d) PROVE Settles(p)
  <2>1. Transfer(d) \/ ReadBody(d) => UNCHANGED <<reading, validated>>
    BY DEF Transfer, ReadBody
  <2>2. User(d) => UNCHANGED <<reading, validated>>
    BY DEF User, Send, Disconnect
  <2> QED BY <1>1, <1>7, <2>1, <2>2
<1>8. ASSUME NEW d \in Ends, HeaderWritten(d) \/ BodyWritten(d) \/ RawWritten(d)
      PROVE  Settles(p)
  BY <1>1, <1>8 DEF HeaderWritten, BodyWritten, RawWritten, Finished
<1>9. ASSUME NEW d \in Ends, ValidationWritten(d) PROVE Settles(p)
  <2>1. UNCHANGED validated /\ (UNCHANGED reading \/ ReadOn(d, "notify", FALSE))
    BY <1>9 DEF ValidationWritten, Finished
  <2> QED BY <1>1, <1>5, <2>1
<1>10. ASSUME NEW d \in Ends, ReadHeader(d) \/ BodyRead(d) \/ ReadRaw(d) PROVE Settles(p)
  <2>1. ReadHeader(d) \/ BodyRead(d) => reading[d] \in {"header", "body"}
    BY DEF ReadHeader, BodyRead, Arrives
  <2>2. kind = "framed" \/ reading[d] = "raw"
    <3>1. ReadRaw(d) => reading[d] = "raw"
      BY DEF ReadRaw, Arrives
    <3> QED BY <1>10, <2>1, <3>1, LimitsAssumption DEF TypeOK, Reads, OpNames
  <2>3. ASSUME NEW m, AddToIncomingMessageQueue(d, m)
        PROVE  \E name : (name = "raw" => reading[d] = "raw") /\ ReadOn(d, name, FALSE)
    BY <2>2, <2>3 DEF AddToIncomingMessageQueue
  <2>4. \E name, nothing : (name = "raw" => reading[d] = "raw") /\ ReadOn(d, name, nothing)
    <3>1. ReadHeader(d) => \/ \E nothing : ReadOn(d, "body", nothing)
                           \/ \E m : AddToIncomingMessageQueue(d, m)
      BY DEF ReadHeader
    <3>2. BodyRead(d) \/ ReadRaw(d) => \E m : AddToIncomingMessageQueue(d, m)
      BY DEF BodyRead, ReadRaw
    <3> QED BY <1>10, <2>3, <3>1, <3>2
  <2>5. UNCHANGED validated
    BY <1>10 DEF ReadHeader, BodyRead, ReadRaw
  <2> QED BY <1>5, <2>4, <2>5
<1>11. ASSUME NEW d \in Ends, RunPosted(d) PROVE Settles(p)
  <2>1. (\E m \in Sendable : Queues(d, m)) => UNCHANGED <<reading, validated>>
    BY DEF Queues
  <2> QED BY <1>1, <1>2, <1>11, <2>1, LambdaRuns
<1>12. ASSUME ConnectToClient PROVE Settles(p)
  <2>1. ASSUME UNCHANGED validated, reading' = [reading EXCEPT !["server"] = "response"]
        PROVE  Settles(p)
    BY <1>4, <2>1 DEF Ends
  <2> QED BY <1>2, <1>3, <1>12, <2>1, CloseShuts DEF ConnectToClient, Ends
<1>13. ASSUME ConnectToServer PROVE Settles(p)
  <2>1. ASSUME UNCHANGED validated, reading' = [reading EXCEPT !["client"] = "challenge"]
        PROVE  Settles(p)
    BY <1>4, <2>1 DEF Ends
  <2> QED BY <1>2, <1>3, <1>13, <2>1, CloseShuts DEF ConnectToServer, Ends
<1>14. ASSUME ReadChallenge PROVE Settles(p)
  BY <1>4, <1>14 DEF ReadChallenge, Ends
<1>15. ASSUME ReadResponse PROVE Settles(p)
  <2>1. CASE Shuts("server")
    BY <1>2, <2>1 DEF Ends
  <2>2. CASE Validates
    <3>1. PICK d \in Ends : d = "server" /\ ReadOn(d, "header", FALSE)
      BY <2>2 DEF Validates, Ends
    <3>2. reading'[p] \in {reading[p], "header", "none"}
      BY <3>1, ReadingOn
    <3>3. validated[p] => validated'[p]
      BY <2>2 DEF Validates, TypeOK
    <3> QED BY <3>2, <3>3 DEF Settles
  <2> QED BY <1>15, <2>1, <2>2, Response
<1>16. ASSUME WaitForValidation PROVE Settles(p)
  <2>1. reading'[p] \in {reading[p], "header", "none"}
    <3>1. ASSUME NEW d \in Ends, ReadOn(d, "header", FALSE)
          PROVE  reading'[p] \in {reading[p], "header", "none"}
      BY <3>1, ReadingOn
    <3>2. CASE reading' = [reading EXCEPT !["client"] = "none"]
      BY <3>2 DEF TypeOK
    <3> QED BY <1>16, <3>1, <3>2 DEF WaitForValidation, Ends
  <2>2. validated[p] => validated'[p]
    BY <1>16 DEF WaitForValidation, TypeOK
  <2> QED BY <2>1, <2>2 DEF Settles
<1>17. ASSUME DestroyConnection PROVE Settles(p)
  BY <1>2, <1>17, EndShuts DEF Ends
<1>18. ASSUME UNCHANGED vars PROVE Settles(p)
  BY <1>1, <1>18 DEF vars
<1> QED
  BY <1>6, <1>7, <1>8, <1>9, <1>10, <1>11, <1>12, <1>13, <1>14, <1>15, <1>16, <1>17, <1>18
  DEF Next, Handler

LEMMA ReadyStep ==
    ASSUME TypeOK, TypeOK', AgreementInv', ReadsWhenReady, [Next]_vars PROVE ReadsWhenReady'
<1> SUFFICES ASSUME NEW p \in Ends, reading'[p] \in {"header", "body", "raw"}
             PROVE  validated'[p]
  BY DEF ReadsWhenReady
<1>1. UNCHANGED kind /\ kind \in {"framed", "raw"}
  BY KindStays, LimitsAssumption DEF TypeOK
<1>2. CASE reading'[p] = "raw"
  BY <1>1, <1>2, SettlesStep DEF Settles, ReadsWhenReady
<1>3. CASE reading'[p] \in {"header", "body"}
  <2>1. kind' = "framed"
    BY <1>1, <1>3 DEF TypeOK, Reads, OpNames
  <2> QED BY <1>3, <2>1 DEF AgreementInv, HandshakeOK
<1> QED BY <1>2, <1>3

\* What the connection shows of itself as a duplex stream.
Closed == [e \in Ends |-> socket[e] = "closed"]
Due == [e \in Ends |-> socket[e] = "closed" /\ reading[e] # "none"]
Sent == [e \in Ends |-> Contents(accepted[e])]
HeardBy == [e \in Ends |-> Contents(received[e])]
Batches == {<<m>> : m \in Msgs} \cup {BodyOf(m) : m \in RawMsgs}

\* One step of the stream, or none.
Streams == [Stream!Next]_(Stream!vars)

LEMMA StreamRests ==
    ASSUME UNCHANGED <<kind, Closed, Due, validated, Sent, HeardBy>> PROVE Streams
BY DEF Streams, Closed, Due, Sent, HeardBy, Stream!vars

LEMMA StreamActs ==
    ASSUME NEW d \in Ends,
           \/ Stream!Close(d) \/ Stream!GetReady(d) \/ Stream!Speak(d) \/ Stream!Hear(d)
           \/ Stream!Lapse(d)
    PROVE  Streams
BY DEF Streams, Stream!Next, Stream!Both, Ends

LEMMA StreamLapses ==
    ASSUME NEW d \in Ends, Due' = [Due EXCEPT ![d] = FALSE],
           UNCHANGED <<kind, Closed, validated, Sent, HeardBy>>
    PROVE  Streams
<1>1. Stream!Lapse(d)
  BY DEF Closed, Due, Sent, HeardBy, Stream!Lapse
<1> QED BY <1>1, StreamActs

LEMMA StreamCloses ==
    ASSUME NEW d \in Ends, ~Closed[d], Closed' = [Closed EXCEPT ![d] = TRUE],
           NEW b \in BOOLEAN, Due' = [Due EXCEPT ![d] = b],
           UNCHANGED <<kind, validated, Sent, HeardBy>>
    PROVE  Streams
<1>1. Stream!Close(d)
  BY DEF Closed, Due, Sent, HeardBy, Stream!Close
<1> QED BY <1>1, StreamActs

\* An end that has not closed, or for which something is due, is awake.
LEMMA AliveIsAwake == ASSUME NEW d \in Ends, Alive(d) PROVE Stream!Awake(d)
BY DEF Alive, Stream!Awake

LEMMA StreamReady ==
    ASSUME NEW d \in Ends, ~validated[d], Alive(d),
           kind = "framed" /\ d = "client" => validated["server"],
           validated' = [validated EXCEPT ![d] = TRUE], Due' = [Due EXCEPT ![d] = FALSE],
           UNCHANGED <<kind, Closed, Sent, HeardBy>>
    PROVE  Streams
<1>1. Stream!Awake(d)
  BY AliveIsAwake
<1>2. Stream!GetReady(d)
  BY <1>1 DEF Closed, Due, Sent, HeardBy, Stream!GetReady
<1> QED BY <1>2, StreamActs

LEMMA StreamSpeaks ==
    ASSUME NEW d \in Ends, NEW b \in Batches, Sent' = [Sent EXCEPT ![d] = @ \o b],
           UNCHANGED <<kind, Closed, Due, validated, HeardBy>>
    PROVE  Streams
<1>1. Stream!Speak(d)
  BY DEF Closed, Due, Sent, HeardBy, Stream!Speak, Batches
<1> QED BY <1>1, StreamActs

LEMMA StreamHears ==
    ASSUME NEW d \in Ends, validated[d], Alive(d),
           NEW n \in Len(HeardBy[d])..Len(Sent[Peer(d)]),
           HeardBy' = [HeardBy EXCEPT ![d] = SubSeq(Sent[Peer(d)], 1, n)],
           Due' = [Due EXCEPT ![d] = FALSE],
           UNCHANGED <<kind, Closed, validated, Sent>>
    PROVE  Streams
<1>1. Stream!Other(d) = Peer(d)
  BY DEF Stream!Other, Peer
<1>2. Stream!Awake(d)
  BY AliveIsAwake
<1>3. Stream!Hear(d)
  BY <1>1, <1>2 DEF Closed, Due, Sent, HeardBy, Stream!Hear
<1> QED BY <1>3, StreamActs

\* What a step leaves alone, and how much what is said or heard grows.
LEMMA ShownKept ==
    ASSUME UNCHANGED kind
    PROVE  /\ UNCHANGED accepted => UNCHANGED Sent
           /\ UNCHANGED received => UNCHANGED HeardBy
           /\ UNCHANGED socket => UNCHANGED Closed
           /\ UNCHANGED <<socket, reading>> => UNCHANGED Due
<1>1. UNCHANGED accepted => UNCHANGED Sent
  BY ContentsKept DEF Sent
<1>2. UNCHANGED received => UNCHANGED HeardBy
  BY ContentsKept DEF HeardBy
<1>3. UNCHANGED socket => UNCHANGED Closed
  BY DEF Closed
<1>4. UNCHANGED <<socket, reading>> => UNCHANGED Due
  BY DEF Due
<1> QED BY <1>1, <1>2, <1>3, <1>4

\* A read that begins or ends changes what is due only after a close.
LEMMA DueAfter ==
    ASSUME NEW d \in Ends, UNCHANGED socket,
           \A e \in Ends : e # d => reading'[e] = reading[e]
    PROVE  /\ socket[d] # "closed" \/ reading'[d] = "none" => Due' = [Due EXCEPT ![d] = FALSE]
           /\ (reading[d] # "none" <=> reading'[d] # "none") => UNCHANGED Due
<1>1. ASSUME socket[d] # "closed" \/ reading'[d] = "none" PROVE Due' = [Due EXCEPT ![d] = FALSE]
  BY <1>1 DEF Due
<1>2. ASSUME reading[d] # "none" <=> reading'[d] # "none" PROVE UNCHANGED Due
  BY <1>2 DEF Due
<1> QED BY <1>1, <1>2

LEMMA DueOfNext ==
    ASSUME TypeOK, NEW d \in Ends, NEW name, ReadOn(d, name, FALSE), UNCHANGED socket
    PROVE  Due' = [Due EXCEPT ![d] = FALSE]
<1>1. \A e \in Ends : e # d => reading'[e] = reading[e]
  BY ReadingOn
<1>2. socket[d] = "closed" => reading'[d] = "none"
  BY DEF ReadOn, TypeOK
<1> QED BY <1>1, <1>2, DueAfter

LEMMA SaysMoreThan ==
    ASSUME TypeOK, UNCHANGED kind, NEW d \in Ends, NEW m \in Sendable,
           accepted' = [accepted EXCEPT ![d] = Append(@, m)]
    PROVE  \E b \in Batches : Sent' = [Sent EXCEPT ![d] = @ \o b]
<1>0. kind \in {"framed", "raw"}
  BY LimitsAssumption DEF TypeOK
<1>1. PICK q \in Seq(Sendable) : q = accepted[d]
  BY DEF TypeOK
<1>2. PICK r \in Seq(Sendable) : r = Append(q, m) /\ accepted'[d] = r
  <2>1. Append(q, m) \in Seq(Sendable)
    OBVIOUS
  <2> QED BY <1>1, <2>1 DEF TypeOK
<1>3. \E b \in Batches : Contents(r) = Contents(q) \o b
  <2>1. CASE kind = "framed"
    <3>1. <<m>> \in Batches
      BY <2>1 DEF Batches, Sendable
    <3>2. Contents(r) = r /\ Contents(q) = q
      BY <2>1 DEF Contents
    <3>3. Append(q, m) = q \o <<m>>
      OBVIOUS
    <3> QED BY <1>2, <3>1, <3>2, <3>3
  <2>2. CASE kind = "raw"
    <3>1. BodyOf(m) \in Batches
      BY <2>2 DEF Batches, Sendable
    <3>2. q \in Seq(Carriable) /\ m \in Carriable
      BY SentIsCarriable, SeqMonotone
    <3>3. WordsOf(Append(q, m)) = WordsOf(q) \o Whole(m)
      BY <3>2, WordsOfAppend
    <3>4. Whole(m) = BodyOf(m)
      BY <2>2 DEF Whole
    <3> QED BY <1>2, <2>2, <3>1, <3>3, <3>4, RawContents
  <2> QED BY <1>0, <2>1, <2>2
<1>4. PICK b \in Batches : Contents(r) = Contents(q) \o b
  BY <1>3
<1>5. ASSUME NEW e \in Ends PROVE Sent'[e] = IF e = d THEN Sent[d] \o b ELSE Sent[e]
  <2>1. CASE e = d
    <3>1. Sent'[e] = Contents(r)'
      BY <1>2, <2>1 DEF Sent
    <3>2. Sent[d] = Contents(q)
      BY <1>1 DEF Sent
    <3> QED BY <1>4, <2>1, <3>1, <3>2, ContentsKept
  <2>2. CASE e # d
    <3>1. PICK s : s = accepted[e] /\ accepted'[e] = s
      BY <2>2 DEF TypeOK
    <3>2. Sent'[e] = Contents(s)' /\ Sent[e] = Contents(s)
      BY <3>1 DEF Sent
    <3> QED BY <2>2, <3>2, ContentsKept
  <2> QED BY <2>1, <2>2
<1>6. Sent' = [Sent EXCEPT ![d] = @ \o b]
  <2>1. Sent' = [e \in Ends |-> Sent'[e]] /\ DOMAIN Sent = Ends
    BY DEF Sent
  <2> QED BY <1>5, <2>1
<1> QED BY <1>6

\* A reader hears what it is given of what was said, and no less than before.
LEMMA HearsNoLess ==
    ASSUME TypeOK, TypeOK', UNCHANGED kind, NEW d \in Ends, NEW in,
           received' = [received EXCEPT ![d] = Append(@, in)]
    PROVE  /\ Len(HeardBy[d]) \in Nat /\ Len(HeardBy'[d]) \in Nat
           /\ Len(HeardBy[d]) <= Len(HeardBy'[d])
           /\ HeardBy' = [HeardBy EXCEPT ![d] = HeardBy'[d]]
           /\ \E S : HeardBy'[d] \in Seq(S)
<1>0. kind \in {"framed", "raw"}
  BY LimitsAssumption DEF TypeOK
<1>1. PICK q \in Seq(Frames) : q = received[d]
  BY DEF TypeOK
<1>2. PICK r \in Seq(Frames) : r = Append(q, in) /\ received'[d] = r
  <2>1. received'[d] = Append(q, in)
    BY <1>1 DEF TypeOK
  <2>2. received'[d] \in Seq(Frames)
    BY KindKept DEF TypeOK
  <2> QED BY <2>1, <2>2
<1>3. HeardBy[d] = Contents(q) /\ HeardBy'[d] = Contents(r)
  <2>1. HeardBy[d] = Contents(q)
    BY <1>1 DEF HeardBy
  <2>2. HeardBy'[d] = Contents(r)'
    BY <1>2 DEF HeardBy
  <2> QED BY <2>1, <2>2, ContentsKept
<1>4. /\ Len(Contents(q)) \in Nat /\ Len(Contents(r)) \in Nat
      /\ Len(Contents(q)) <= Len(Contents(r)) /\ \E S : Contents(r) \in Seq(S)
  <2>1. CASE kind = "framed"
    <3>1. Contents(r) = r /\ Contents(q) = q
      BY <2>1 DEF Contents
    <3>2. Len(r) = Len(q) + 1 /\ Len(q) \in Nat
      BY <1>2
    <3> QED BY <1>2, <3>1, <3>2
  <2>2. CASE kind = "raw"
    <3>1. Carriable = Frames
      BY <2>2 DEF Carriable
    <3>2. in \in Carriable
      <4>1. Len(q) + 1 \in 1..Len(r) /\ r[Len(q) + 1] = in
        BY <1>2
      <4> QED BY <3>1, <4>1
    <3>3. WordsOf(r) = WordsOf(q) \o Whole(in)
      BY <1>2, <3>1, <3>2, WordsOfAppend
    <3>4. PICK a \in Seq(Words), x \in Seq(Words) : a = WordsOf(q) /\ x = Whole(in)
      <4>1. WordsOf(q) \in Seq(Words) /\ Whole(in) \in Seq(Words)
        BY <3>1, <3>2, WordsOfType, WholeType
      <4> QED BY <4>1
    <3>5. /\ Len(a \o x) = Len(a) + Len(x) /\ Len(a) \in Nat /\ Len(x) \in Nat
          /\ a \o x \in Seq(Words)
      OBVIOUS
    <3>6. Contents(q) = a /\ Contents(r) = a \o x
      BY <2>2, <3>3, <3>4, RawContents
    <3> QED BY <3>5, <3>6
  <2> QED BY <1>0, <2>1, <2>2
<1>5. ASSUME NEW e \in Ends, e # d PROVE HeardBy'[e] = HeardBy[e]
  <2>1. PICK s : s = received[e] /\ received'[e] = s
    BY <1>5 DEF TypeOK
  <2>2. HeardBy'[e] = Contents(s)' /\ HeardBy[e] = Contents(s)
    BY <2>1 DEF HeardBy
  <2> QED BY <2>2, ContentsKept
<1>6. HeardBy' = [HeardBy EXCEPT ![d] = HeardBy'[d]]
  <2>1. HeardBy' = [e \in Ends |-> HeardBy'[e]] /\ DOMAIN HeardBy = Ends
    BY DEF HeardBy
  <2> QED BY <1>5, <2>1
<1> QED BY <1>3, <1>4, <1>6

LEMMA Hears ==
    ASSUME TypeOK, TypeOK', DeliveredInOrder', NEW d \in Ends, NEW in,
           validated[d], Alive(d), Due' = [Due EXCEPT ![d] = FALSE],
           received' = [received EXCEPT ![d] = Append(@, in)],
           UNCHANGED <<kind, socket, validated, accepted>>
    PROVE  Streams
<1>0. kind \in {"framed", "raw"}
  BY LimitsAssumption DEF TypeOK
<1>1. PICK c \in Ends : c = Peer(d) /\ d = Peer(c)
  BY Others
<1>2. UNCHANGED Sent /\ UNCHANGED Closed
  BY ShownKept
<1>3. PICK q \in Seq(Sendable) : q = accepted[c]
  BY DEF TypeOK
<1>4. PICK T : Contents(q) \in Seq(T)
  <2>1. CASE kind = "framed"
    BY <2>1 DEF Contents
  <2>2. CASE kind = "raw"
    <3>1. q \in Seq(Carriable)
      BY SentIsCarriable, SeqMonotone
    <3>2. WordsOf(q) \in Seq(Words)
      BY <3>1, WordsOfType
    <3> QED BY <2>2, <3>2, RawContents
  <2> QED BY <1>0, <2>1, <2>2
<1>5. PICK b \in Seq(T) : b = Contents(q) /\ Sent[c] = b
  BY <1>1, <1>3, <1>4 DEF Sent
<1>6. PICK S : HeardBy'[d] \in Seq(S)
  BY HearsNoLess
<1>7. PICK a \in Seq(S) : HeardBy'[d] = a
  BY <1>6
<1>8. IsPrefix(a, b)
  <2>1. IsPrefix(HeardBy[d], Sent[c])'
    BY <1>1 DEF DeliveredInOrder, HeardBy, Sent
  <2> QED BY <1>2, <1>5, <1>7, <2>1 DEF IsPrefix
<1>9. a = SubSeq(b, 1, Len(a)) /\ Len(a) <= Len(b)
  <2>1. SubSeq(a, 1, Len(a)) = a
    OBVIOUS
  <2> QED BY <1>8, <2>1 DEF IsPrefix
<1>10. /\ Len(HeardBy[d]) \in Nat /\ Len(a) \in Nat
      /\ Len(HeardBy[d]) <= Len(a) /\ HeardBy' = [HeardBy EXCEPT ![d] = a]
  BY <1>7, HearsNoLess
<1>11. Len(a) \in Len(HeardBy[d])..Len(b)
  BY <1>9, <1>10
<1> QED BY <1>1, <1>2, <1>5, <1>9, <1>10, <1>11, StreamHears

\* Every step of the connection is one of the stream, or none.
LEMMA StepStreams ==
    Sized /\ StreamInv /\ ReadsWhenReady /\ [Next]_vars => Streams
<1> SUFFICES ASSUME Sized, StreamInv, ReadsWhenReady, [Next]_vars PROVE Streams
  OBVIOUS
<1> USE DEF userVars, writeVars, readVars
<1>0. /\ UNCHANGED kind /\ kind \in {"framed", "raw"} /\ TypeOK /\ TypeOK' /\ Born
      /\ AgreementInv /\ Announced /\ Accounts /\ DeliveredInOrder /\ DeliveredInOrder'
  <2>1. StreamInv'
    BY StreamStep
  <2> QED BY <2>1, KindStays, LimitsAssumption DEF StreamInv, Inv, TypeOK
<1>1. ASSUME UNCHANGED <<Closed, Due, validated, accepted, received>> PROVE Streams
  BY <1>0, <1>1, ShownKept, StreamRests
<1>2. ASSUME NEW d \in Ends, Due' = [Due EXCEPT ![d] = FALSE],
              UNCHANGED <<Closed, validated, accepted, received>>
       PROVE  Streams
  BY <1>0, <1>2, ShownKept, StreamLapses
<1>3. ASSUME NEW d \in Ends, Shuts(d), UNCHANGED accepted PROVE Streams
  <2>1. UNCHANGED <<validated, accepted, received>> /\ socket' = [socket EXCEPT ![d] = "closed"]
    BY <1>3 DEF Shuts
  <2>2. reading' = reading \/ reading' = [reading EXCEPT ![d] = "none"]
    BY <1>3 DEF Shuts
  <2>3. CASE socket[d] = "closed"
    <3>1. UNCHANGED socket
      BY <1>0, <2>1, <2>3 DEF TypeOK
    <3>2. CASE reading' = reading
      BY <1>0, <1>1, <2>1, <3>1, <3>2, ShownKept
    <3>3. CASE reading' = [reading EXCEPT ![d] = "none"]
      <4>1. reading'[d] = "none" /\ \A e \in Ends : e # d => reading'[e] = reading[e]
        BY <1>0, <3>3 DEF TypeOK
      <4> QED BY <1>0, <1>2, <2>1, <3>1, <4>1, ShownKept, DueAfter
    <3> QED BY <2>2, <3>2, <3>3
  <2>4. CASE socket[d] # "closed"
    <3>1. Closed' = [Closed EXCEPT ![d] = TRUE] /\ ~Closed[d]
      BY <1>0, <2>1, <2>4 DEF Closed, TypeOK
    <3>2. PICK b \in BOOLEAN : b = (reading'[d] # "none")
      OBVIOUS
    <3>3. \A e \in Ends : e # d => reading'[e] = reading[e] /\ socket'[e] = socket[e]
      BY <1>0, <2>1, <2>2 DEF TypeOK
    <3>4. socket'[d] = "closed"
      BY <1>0, <2>1 DEF TypeOK
    <3>5. Due' = [Due EXCEPT ![d] = b]
      BY <3>2, <3>3, <3>4 DEF Due
    <3> QED BY <1>0, <2>1, <3>1, <3>5, ShownKept, StreamCloses
  <2> QED BY <2>3, <2>4
<1>4. ASSUME NEW d \in Ends, Alive(d), UNCHANGED <<Closed, accepted, received>>,
             validated' = [validated EXCEPT ![d] = TRUE], Due' = [Due EXCEPT ![d] = FALSE],
             kind = "framed" /\ d = "client" => validated["server"]
      PROVE  Streams
  <2>1. CASE validated[d]
    <3>1. UNCHANGED validated
      BY <1>0, <1>4, <2>1 DEF TypeOK
    <3> QED BY <1>4, <1>2, <3>1
  <2>2. CASE ~validated[d]
    BY <1>0, <1>4, <2>2, ShownKept, StreamReady
  <2> QED BY <2>1, <2>2
<1>5. ASSUME NEW d \in Ends, Aborted(d) \/ PeerClosed(d) \/ ConnectionLost(d) PROVE Streams
  BY <1>3, <1>5, FailureShuts
<1>6. ASSUME NEW d \in Ends, \/ Transfer(d) \/ ValidationWritten(d) \/ HeaderWritten(d)
                             \/ BodyWritten(d) \/ RawWritten(d) \/ User(d)
      PROVE  Streams
  <2>1. ASSUME NEW names, Finished(d, names)
        PROVE  UNCHANGED <<socket, validated, received, accepted>>
    BY <2>1 DEF Finished
  <2>2. HeaderWritten(d) \/ BodyWritten(d) \/ RawWritten(d)
            => UNCHANGED <<socket, reading, validated, received, accepted>>
    BY <2>1 DEF HeaderWritten, BodyWritten, RawWritten
  <2>3. Transfer(d) \/ User(d) => UNCHANGED <<socket, reading, validated, received, accepted>>
    BY DEF Transfer, User, Send, Disconnect
  <2>4. CASE UNCHANGED <<socket, reading, validated, received, accepted>>
    BY <1>0, <1>1, <2>4, ShownKept
  <2>5. CASE ValidationWritten(d)
    <3>1. UNCHANGED <<socket, validated, received, accepted>>
      BY <2>1, <2>5 DEF ValidationWritten
    <3>2. UNCHANGED reading \/ ReadOn(d, "notify", FALSE)
      BY <2>5 DEF ValidationWritten
    <3>3. CASE ReadOn(d, "notify", FALSE)
      BY <1>0, <1>2, <3>1, <3>3, DueOfNext, ShownKept
    <3> QED BY <2>4, <3>1, <3>2, <3>3
  <2> QED BY <1>6, <2>2, <2>3, <2>4, <2>5
<1>7. ASSUME NEW d \in Ends, RunPosted(d) PROVE Streams
  <2>1. ASSUME NEW m \in Sendable, Queues(d, m) PROVE Streams
    <3>1. /\ UNCHANGED <<socket, reading, validated, received>>
          /\ accepted' = [accepted EXCEPT ![d] = Append(@, m)]
      BY <2>1 DEF Queues
    <3>2. PICK b \in Batches : Sent' = [Sent EXCEPT ![d] = @ \o b]
      BY <1>0, <3>1, SaysMoreThan
    <3> QED BY <1>0, <3>1, <3>2, ShownKept, StreamSpeaks
  <2> QED BY <1>0, <1>3, <1>7, <2>1, LambdaRuns
<1>8. ASSUME NEW d \in Ends, ReadHeader(d) \/ ReadBody(d) PROVE Streams
  <2>1. CASE ReadHeader(d)
    <3>1. /\ UNCHANGED <<socket, validated, received, accepted>>
          /\ reading[d] = "header" /\ reading'[d] \in {"body", "none"}
          /\ \A e \in Ends : e # d => reading'[e] = reading[e]
      BY <1>0, <2>1, HeaderKept
    <3>2. UNCHANGED Due \/ Due' = [Due EXCEPT ![d] = FALSE]
      BY <3>1, DueAfter
    <3> QED BY <1>0, <1>1, <1>2, <3>1, <3>2, ShownKept
  <2>2. CASE ReadBody(d)
    <3>1. UNCHANGED <<socket, reading, validated, received, accepted>>
      BY <2>2 DEF ReadBody
    <3> QED BY <1>0, <1>1, <3>1, ShownKept
  <2> QED BY <1>8, <2>1, <2>2
<1>9. ASSUME NEW d \in Ends, BodyRead(d) \/ ReadRaw(d) PROVE Streams
  <2>1. reading[d] \in {"body", "raw"}
    BY <1>9 DEF BodyRead, ReadRaw, Arrives
  <2>2. validated[d] /\ Alive(d)
    BY <2>1 DEF ReadsWhenReady, Alive
  <2>3. PICK in : AddToIncomingMessageQueue(d, in)
    BY <1>9 DEF BodyRead, ReadRaw
  <2>4. UNCHANGED <<socket, validated, accepted>>
    BY <1>9 DEF BodyRead, ReadRaw
  <2>5. received' = [received EXCEPT ![d] = Append(@, in)]
    BY <2>3 DEF AddToIncomingMessageQueue
  <2>6. Due' = [Due EXCEPT ![d] = FALSE]
    BY <1>0, <2>3, <2>4, ReadingNext, DueOfNext
  <2> QED BY <1>0, <2>2, <2>4, <2>5, <2>6, Hears
<1>10. ASSUME NEW d \in Ends, socket[d] # "closed", socket' = [socket EXCEPT ![d] = "open"],
              NEW r, reading' = [reading EXCEPT ![d] = r]
       PROVE  UNCHANGED Closed /\ UNCHANGED Due /\ Due' = [Due EXCEPT ![d] = FALSE] /\ Alive(d)
  <2>1. \A e \in Ends : e # d => socket'[e] = socket[e] /\ reading'[e] = reading[e]
    BY <1>0, <1>10 DEF TypeOK
  <2>2. socket[d] # "closed" /\ socket'[d] # "closed"
    BY <1>0, <1>10 DEF TypeOK
  <2>3. UNCHANGED Closed
    BY <2>1, <2>2 DEF Closed
  <2>4. UNCHANGED Due
    BY <2>1, <2>2 DEF Due
  <2>5. Due' = [Due EXCEPT ![d] = FALSE]
    BY <2>1, <2>2 DEF Due
  <2> QED BY <2>2, <2>3, <2>4, <2>5 DEF Alive
<1>11. ASSUME ConnectToClient PROVE Streams
  <2>1. CASE CloseSocket("server")
    BY <1>3, <1>11, <2>1, CloseShuts DEF ConnectToClient, Ends
  <2>2. CASE ~CloseSocket("server")
    <3>1. /\ socket["server"] = "unborn" /\ socket' = [socket EXCEPT !["server"] = "open"]
          /\ UNCHANGED <<accepted, received>>
      BY <1>11, <2>2 DEF ConnectToClient
    <3>2. \E r : reading' = [reading EXCEPT !["server"] = r]
      BY <1>11, <2>2 DEF ConnectToClient, RawBegins
    <3>3. /\ UNCHANGED Closed /\ UNCHANGED Due /\ Due' = [Due EXCEPT !["server"] = FALSE]
          /\ Alive("server")
      BY <1>10, <3>1, <3>2 DEF Ends
    <3>4. UNCHANGED validated \/ validated' = [validated EXCEPT !["server"] = TRUE]
      BY <1>11, <2>2 DEF ConnectToClient, RawBegins
    <3> QED BY <1>1, <1>4, <3>1, <3>3, <3>4 DEF Ends
  <2> QED BY <2>1, <2>2
<1>12. ASSUME ConnectToServer PROVE Streams
  <2>1. CASE CloseSocket("client")
    BY <1>3, <1>12, <2>1, CloseShuts DEF ConnectToServer, Ends
  <2>2. CASE ~CloseSocket("client")
    <3>1. /\ socket["client"] = "connecting" /\ socket' = [socket EXCEPT !["client"] = "open"]
          /\ UNCHANGED <<accepted, received>>
      BY <1>12, <2>2 DEF ConnectToServer
    <3>2. \E r : reading' = [reading EXCEPT !["client"] = r]
      BY <1>12, <2>2 DEF ConnectToServer, RawBegins
    <3>3. /\ UNCHANGED Closed /\ UNCHANGED Due /\ Due' = [Due EXCEPT !["client"] = FALSE]
          /\ Alive("client")
      BY <1>10, <3>1, <3>2 DEF Ends
    <3>4. \/ UNCHANGED validated
          \/ kind # "framed" /\ validated' = [validated EXCEPT !["client"] = TRUE]
      BY <1>12, <2>2 DEF ConnectToServer, RawBegins
    <3> QED BY <1>1, <1>4, <3>1, <3>3, <3>4 DEF Ends
  <2> QED BY <2>1, <2>2
<1>13. ASSUME ReadChallenge PROVE Streams
  <2>1. /\ UNCHANGED <<socket, validated, received, accepted>>
        /\ reading' = [reading EXCEPT !["client"] = "none"]
    BY <1>13 DEF ReadChallenge
  <2>2. PICK d \in Ends : d = "client" /\ reading' = [reading EXCEPT ![d] = "none"]
    BY <2>1 DEF Ends
  <2>3. reading'[d] = "none" /\ \A e \in Ends : e # d => reading'[e] = reading[e]
    BY <1>0, <2>2 DEF TypeOK
  <2> QED BY <1>0, <1>2, <2>1, <2>3, DueAfter, ShownKept
<1>14. ASSUME ReadResponse PROVE Streams
  <2>1. CASE Shuts("server") /\ UNCHANGED accepted
    BY <1>3, <2>1 DEF Ends
  <2>2. CASE Validates
    <3>1. PICK d \in Ends : d = "server" /\ ReadOn(d, "header", FALSE)
      BY <2>2 DEF Validates, Ends
    <3>2. /\ reading[d] # "none" /\ UNCHANGED <<socket, accepted, received>>
          /\ validated' = [validated EXCEPT ![d] = TRUE]
      BY <2>2, <3>1 DEF Validates, Arrives
    <3>3. Alive(d) /\ Due' = [Due EXCEPT ![d] = FALSE]
      BY <1>0, <3>1, <3>2, DueOfNext DEF Alive
    <3> QED BY <1>0, <1>4, <3>1, <3>2, <3>3, ShownKept
  <2> QED BY <1>14, <2>1, <2>2, Response
<1>15. ASSUME WaitForValidation PROVE Streams
  <2>1. PICK d \in Ends : d = "client"
    BY DEF Ends
  <2>2. reading[d] # "none" /\ UNCHANGED <<socket, accepted, received>>
    BY <1>15, <2>1 DEF WaitForValidation, Arrives
  <2>3. Alive(d)
    BY <2>2 DEF Alive
  <2>4. CASE UNCHANGED validated /\ reading' = [reading EXCEPT !["client"] = "none"]
    <3>1. reading'[d] = "none" /\ \A e \in Ends : e # d => reading'[e] = reading[e]
      BY <1>0, <2>1, <2>4 DEF TypeOK
    <3> QED BY <1>0, <1>2, <2>2, <2>4, <3>1, DueAfter, ShownKept
  <2>5. CASE /\ validated' = [validated EXCEPT !["client"] = TRUE]
             /\ ReadOn("client", "header", FALSE)
    <3>1. validated'["client"] /\ validated'["server"] = validated["server"]
      BY <1>0, <2>5 DEF TypeOK, Ends
    <3>2. kind = "framed" => validated["server"]
      <4>1. AgreementInv'
        BY StreamStep DEF StreamInv
      <4> QED BY <1>0, <3>1, <4>1 DEF AgreementInv, HandshakeOK
    <3>3. validated' = [validated EXCEPT ![d] = TRUE] /\ ReadOn(d, "header", FALSE)
      BY <2>1, <2>5
    <3>4. Due' = [Due EXCEPT ![d] = FALSE]
      BY <1>0, <2>2, <3>3, DueOfNext
    <3> QED BY <1>0, <1>4, <2>2, <2>3, <3>2, <3>3, <3>4, ShownKept
  <2> QED BY <1>15, <2>4, <2>5 DEF WaitForValidation
<1>16. ASSUME DestroyConnection PROVE Streams
  BY <1>3, <1>16, EndShuts DEF Ends
<1>17. ASSUME UNCHANGED vars PROVE Streams
  BY <1>0, <1>1, <1>17, ShownKept DEF vars
<1> QED
  BY <1>5, <1>6, <1>7, <1>8, <1>9, <1>11, <1>12, <1>13, <1>14, <1>15, <1>16, <1>17
  DEF Next, Handler

LEMMA StreamBegins == Init => Stream!Init
<1> SUFFICES ASSUME Init PROVE Stream!Init
  OBVIOUS
<1>1. Contents(<<>>) = <<>>
  <2>1. kind = "framed" => Contents(<<>>) = <<>>
    BY DEF Contents
  <2>2. kind = "raw" => Contents(<<>>) = <<>>
    BY RawContents, WordsOfEmpty
  <2> QED BY <2>1, <2>2, LimitsAssumption DEF Init
<1>2. ASSUME NEW e \in Ends
      PROVE  Contents(accepted[e]) = <<>> /\ Contents(received[e]) = <<>> /\ socket[e] # "closed"
  BY <1>1 DEF Init
<1> QED BY <1>2 DEF Init, Stream!Init, Stream!Both, Ends

(***************************************************************************)
(* Under the same condition the sockets, handlers and queues of both ends  *)
(* implement the duplex stream: whatever happens, an end hears from the    *)
(* other what that has said, from the beginning and without gaps, never    *)
(* before it is ready, and after it has closed at most once more, what was *)
(* due by then.                                                            *)
(***************************************************************************)
THEOREM ConnectionIsStream == ASSUME Sized PROVE Spec => ImplementsStream
<1>1. Init => Stream!Init
  BY StreamBegins
<1>2. Init => ReadsWhenReady
  BY DEF Init, ReadsWhenReady
<1>3. StreamInv /\ StreamInv' /\ ReadsWhenReady /\ [Next]_vars => ReadsWhenReady'
  BY ReadyStep DEF StreamInv, Inv
<1>4. StreamInv /\ ReadsWhenReady /\ [Next]_vars => [Stream!Next]_(Stream!vars)
  BY StepStreams DEF Streams
<1> QED BY <1>1, <1>2, <1>3, <1>4, StreamInvariant, PTL DEF Spec, ImplementsStream, Stream!Spec
=============================================================================
