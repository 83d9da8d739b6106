--------------------------- MODULE MCTCPConnection --------------------------
(***************************************************************************)
(* Small instances of TCPConnection.  Honest messages have a body of two   *)
(* words, of one, or none, and the size that goes with it; Bare is a       *)
(* default-constructed TCPMsg with a type, whose size is still 0.          *)
(***************************************************************************)
EXTENDS TCPConnection

CONSTANTS p, q

Long   == Input(Input(NewMsg("long"), <<p>>), <<q>>)
Short  == Input(NewMsg("short"), <<q>>)
Empty  == Input(NewMsg("empty"), <<>>)
Bare   == NewMsg("bare")

RawLong  == RawInput(RawInput(NewMsg("raw"), <<p>>), <<q>>)
RawShort == RawInput(NewMsg("raw"), <<q>>)
RawEmpty == NewMsg("raw")
RawAll   == {RawLong, RawShort, RawEmpty}

Honest == {Long, Empty}
WithBare == {Short, Bare}

OneEach   == {[server |-> 1, client |-> 1]}
ClientTwo == {[server |-> 0, client |-> 2]}
Either    == OneEach \cup ClientTwo
=============================================================================
