\* Formats whose length field counts the body, and no header at all; one reconnection.
SPECIFICATION FairSpec
CONSTANTS
    Formats <- BodyLengths
    Bodies <- TwoBodies
    Messages = {m1, m2}
    ReceiveBuffer = 2
    MaxFrames = 2
    MaxSends = 2
    MaxConnects = 2
INVARIANTS TypeOK CutAtFrames BytesInOrder NothingOvertaken OneWrite
PROPERTIES FramesArrive SendsLeave
CHECK_DEADLOCK FALSE
