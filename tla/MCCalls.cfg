SPECIFICATION Spec
CONSTANTS
    Threads <- MCThreads
    Main = 1
    Dispatchers <- MCDispatchers
    Clients <- MCClients
    Sids <- MCSids
    Servers <- MCServers
    Placeholder = Placeholder
    Handlers <- MCHandlers
    Missing <- MCMissing
    Numbers <- MCNumbers
    None = None
    Own = Own
    MaxFrames <- MCMaxFrames
    MaxHandlers <- MCMaxHandlers
    c1 = c1
    c2 = c2
    s1 = s1
    s2 = s2
    h1 = h1
    h2 = h2
CHECK_DEADLOCK FALSE
SYMMETRY Interchangeable
INVARIANTS
    BusyExact
    RepliesMatch
    StacksApart
    ExitHandlersInOrder
