\* Either end may send too early; the client sends two messages, or each end one.
SPECIFICATION FairSpec
CONSTANTS
    p = p
    q = q
    Parts = {p, q}
    Msgs <- Honest
    RawMsgs <- RawAll
    Kinds = {"framed", "raw"}
    EarlySenders = {"server", "client"}
    MaxSends <- Either
    Capacity = 2
INVARIANTS TypeOK Agreement SingleWriter InStep DeliveredInOrder UnpackedAsPacked
PROPERTIES ImplementsStream PatientArrive HandshakeResolves
CHECK_DEADLOCK FALSE
