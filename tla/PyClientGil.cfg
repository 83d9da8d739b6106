\* connect_and_wait while the validation is on its way.
SPECIFICATION PyFairSpec
CONSTANTS
    ctx = ctx
    det = det
    NoThread = NoThread
    Context = ctx
    Detector = det
    Consumers = {main, bg}
    Stoppers = {closer}
    Main = main
    Runner = bg
    Closer = closer
    Threads <- AllThreads
    Items = {m1, m2}
    Wanted = {m1}
    NoMsg = none
    Budgets = {3}
    SizeMax = 3
    MaxItems = 0
    MaxConnects = 2
    DetectorStops = FALSE
PROPERTY ConnectAndWaitReturns
CHECK_DEADLOCK FALSE
