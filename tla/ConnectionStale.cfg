\* A default-constructed TCPMsg behind one with a body.
SPECIFICATION Spec
CONSTANTS
    p = p
    q = q
    Parts = {p, q}
    Msgs <- WithBare
    RawMsgs <- RawAll
    Kinds = {"framed"}
    EarlySenders = {}
    MaxSends <- ClientTwo
    Capacity = 2
INVARIANT DeliveredInOrder
CHECK_DEADLOCK FALSE
