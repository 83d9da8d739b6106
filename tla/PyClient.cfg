\* Two connects, two messages, a background run() and a polling main thread.
SPECIFICATION PyFairSpec
CONSTANTS
    ctx = ctx
    det = det
    NoThread = NoThread
    Context = ctx
    Detector = det
    Consumers = {main, bg}
    Stoppers = {closer}
    Main = main
    Runner = bg
    Closer = closer
    Threads <- AllThreads
    Items = {m1, m2}
    Wanted = {m1}
    NoMsg = none
    Budgets = {3}
    SizeMax = 3
    MaxItems = 2
    MaxConnects = 2
    DetectorStops = FALSE
INVARIANTS PyTypeOK WokenForEveryMessage ConnectionOutlivesHandlers EventsAgree ReturnsNewMessage
PROPERTY DisconnectReturns
CHECK_DEADLOCK FALSE
