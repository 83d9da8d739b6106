\* A length field that counts the header too.
SPECIFICATION Spec
CONSTANTS
    Formats <- FullLengths
    Bodies <- TwoBodies
    Messages = {m1}
    ReceiveBuffer = 2
    MaxFrames = 3
    MaxSends = 0
    MaxConnects = 1
INVARIANTS CutAtFrames
CHECK_DEADLOCK FALSE
