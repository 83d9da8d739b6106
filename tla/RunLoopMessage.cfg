\* A message that arrives while wait() looks at the queue.
SPECIFICATION FairSpec
CONSTANTS
    ctx = ctx
    det = det
    NoThread = NoThread
    Context = ctx
    Detector = det
    Consumers = {c1}
    Stoppers = {}
    Threads <- AllThreads
    Items = {m1}
    Budgets = {2}
    SizeMax = 3
    MaxItems = 1
    DetectorStops = TRUE
PROPERTY MessageEndsWait
CHECK_DEADLOCK FALSE
