\* The server sends to a client that it has not validated.
SPECIFICATION FairSpec
CONSTANTS
    p = p
    q = q
    Parts = {p, q}
    Msgs <- Honest
    RawMsgs <- RawAll
    Kinds = {"framed"}
    EarlySenders = {"server"}
    MaxSends <- OneEach
    Capacity = 2
PROPERTY AllArrive
CHECK_DEADLOCK FALSE
