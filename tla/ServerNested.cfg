\* Calls on the context thread only: the inner one is made by a hook of the outer.
SPECIFICATION Spec
CONSTANTS
    Clients = {a, b}
    Context = context
    Users = {}
    NoClient = null
    IdRange = 2
    MaxCalls = 2
    MaxDepth = 2
INVARIANTS AllMessaged
CHECK_DEADLOCK FALSE
