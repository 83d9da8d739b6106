----------------------------- MODULE MsgChannel -----------------------------
(***************************************************************************)
(* What the library promises about messages, whatever carries them: a      *)
(* message that was accepted waits in `pending`, and the messages handed   *)
(* to the receiver are the accepted ones, unchanged, each once, in the     *)
(* order in which they were accepted.  Nothing says that a pending message *)
(* is ever delivered: a connection may close first.                        *)
(***************************************************************************)
EXTENDS Sequences

CONSTANT Messages     \* whatever may be accepted

VARIABLES pending,    \* accepted and not yet handed over, oldest first
          delivered   \* handed over, in the order of the hand-over

vars == <<pending, delivered>>

Init == pending = <<>> /\ delivered = <<>>

Accept(m) ==
    /\ pending' = Append(pending, m)
    /\ UNCHANGED delivered

Deliver ==
    /\ pending # <<>>
    /\ pending' = Tail(pending)
    /\ delivered' = Append(delivered, Head(pending))

Next == Deliver \/ \E m \in Messages : Accept(m)

Spec == Init /\ [][Next]_vars
=============================================================================
