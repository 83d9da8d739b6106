-------------------------------- MODULE TCPMsg -------------------------------
(***************************************************************************)
(* TCPMsg and TCPRawMsg of TCPMsg.h, and their operators << and >>.  A     *)
(* body is a sequence of words, the same for every kind of value put into  *)
(* it: a structure, a vector and a string differ in their length only.     *)
(* Sizes are counted in words.                                             *)
(***************************************************************************)
EXTENDS Naturals, Sequences

\* sizeof(TCPMsgHeader).
HeaderSize == 1

full_size(msg) == HeaderSize + Len(msg.body)

\* A default-constructed message, but for its type.
NewMsg(type) == [type |-> type, size |-> 0, body |-> <<>>]

\* What << and >> leave: another body, and the size that goes with it.
Resized(msg, body) ==
    [type |-> msg.type, size |-> HeaderSize + Len(body), body |-> body]

\* msg << data, of a structure or a vector.
Input(msg, data) == Resized(msg, msg.body \o data)

\* msg >> data, of a structure or a string of n words: the last n of the body.
\* Fewer than n are undefined in the code, and not asked for here.
Rest(msg, n) == SubSeq(msg.body, 1, Len(msg.body) - n)

\* Mutant: the values come out in the order they went in.
OutputFirst(msg, n) ==
    [data |-> SubSeq(msg.body, 1, n),
     msg |-> Resized(msg, SubSeq(msg.body, n + 1, Len(msg.body)))]

Output(msg, n) ==
    [data |-> SubSeq(msg.body, Len(msg.body) - n + 1, Len(msg.body)),
     msg |-> Resized(msg, Rest(msg, n))]

\* msg >> data of a vector, which takes the whole body.
OutputVector(msg) == [data |-> msg.body, msg |-> Resized(msg, <<>>)]

\* The same of a TCPRawMsg, which has no header: nothing but the body changes.
Rebodied(msg, body) == [type |-> msg.type, size |-> msg.size, body |-> body]
RawInput(msg, data) == Rebodied(msg, msg.body \o data)
RawOutput(msg, n) ==
    [data |-> SubSeq(msg.body, Len(msg.body) - n + 1, Len(msg.body)),
     msg |-> Rebodied(msg, Rest(msg, n))]
=============================================================================
