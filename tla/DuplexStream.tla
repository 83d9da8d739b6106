---------------------------- MODULE DuplexStream ----------------------------
(***************************************************************************)
(* What a connection promises its users, whatever carries it: each end     *)
(* hears what the other end has said, from the beginning, unchanged and    *)
(* without gaps, and never before it is ready.  After an end has closed at *)
(* most one thing more happens to it, and only when that was due by then:  *)
(* it hears once more, or gets ready.                                      *)
(* Where there is a validation, the client is ready only after the server. *)
(* Nothing says that everything said is heard: a connection may close      *)
(* first, and an end that has closed, or is not ready yet, may still       *)
(* speak.                                                                  *)
(***************************************************************************)
EXTENDS Integers, Sequences

CONSTANTS Server, Client,
          Batches     \* what one call may say: sequences of messages, or of bytes

VARIABLES validating, \* the server validates the client
          ready, closed,
          due,        \* something had arrived before an end closed
          sent,       \* all an end has said
          heard       \* all it was given of what the other end said

vars == <<validating, ready, closed, due, sent, heard>>

Both == {Server, Client}
Other(e) == IF e = Server THEN Client ELSE Server

Init ==
    /\ validating \in BOOLEAN
    /\ ready = [e \in Both |-> FALSE]
    /\ closed = [e \in Both |-> FALSE]
    /\ due = [e \in Both |-> FALSE]
    /\ sent = [e \in Both |-> <<>>]
    /\ heard = [e \in Both |-> <<>>]

Awake(e) == ~closed[e] \/ due[e]

GetReady(e) ==
    /\ ~ready[e] /\ Awake(e)
    /\ validating /\ e = Client => ready[Server]
    /\ ready' = [ready EXCEPT ![e] = TRUE]
    /\ due' = [due EXCEPT ![e] = FALSE]
    /\ UNCHANGED <<validating, closed, sent, heard>>

Close(e) ==
    /\ ~closed[e]
    /\ closed' = [closed EXCEPT ![e] = TRUE]
    /\ \E b \in BOOLEAN : due' = [due EXCEPT ![e] = b]
    /\ UNCHANGED <<validating, ready, sent, heard>>

Speak(e) ==
    /\ \E b \in Batches : sent' = [sent EXCEPT ![e] = @ \o b]
    /\ UNCHANGED <<validating, ready, closed, due, heard>>

Hear(e) ==
    /\ ready[e] /\ Awake(e)
    /\ \E n \in Len(heard[e])..Len(sent[Other(e)]) :
          heard' = [heard EXCEPT ![e] = SubSeq(sent[Other(e)], 1, n)]
    /\ due' = [due EXCEPT ![e] = FALSE]
    /\ UNCHANGED <<validating, ready, closed, sent>>

\* What was due comes to nothing.
Lapse(e) ==
    /\ due' = [due EXCEPT ![e] = FALSE]
    /\ UNCHANGED <<validating, ready, closed, sent, heard>>

Next == \E e \in Both : GetReady(e) \/ Close(e) \/ Speak(e) \/ Hear(e) \/ Lapse(e)

Spec == Init /\ [][Next]_vars
=============================================================================
