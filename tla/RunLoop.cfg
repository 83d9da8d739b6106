\* One consumer, a stopper, two messages; the server's watching thread.
SPECIFICATION FairSpec
CONSTANTS
    ctx = ctx
    det = det
    NoThread = NoThread
    Context = ctx
    Detector = det
    Consumers = {c1}
    Stoppers = {s1}
    Threads <- AllThreads
    Items = {m1, m2}
    Budgets = {1, 3}
    SizeMax = 3
    MaxItems = 2
    DetectorStops = TRUE
INVARIANTS TypeOK WokenForEveryMessage NoPopFromEmpty
PROPERTIES ImplementsChannel RunDrains
CHECK_DEADLOCK FALSE
