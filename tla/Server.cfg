\* Two clients, one thread of the user, calls from hooks.
SPECIFICATION FairSpec
CONSTANTS
    Clients = {a, b}
    Context = context
    Users = {user}
    NoClient = null
    IdRange = 2
    MaxCalls = 2
    MaxDepth = 2
INVARIANTS TypeOK RosterKeepsLive NoSilentDrop BackIsNew HooksInOrder BroadcastReaches
PROPERTIES BroadcastSweeps AllAnswered
CHECK_DEADLOCK FALSE
