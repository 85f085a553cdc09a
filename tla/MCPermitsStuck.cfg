SPECIFICATION FairSpec
CONSTANTS
    h1 = h1
    h2 = h2
    h3 = h3
    p1 = p1
    p2 = p2
    Handlers = {h1, h2, h3}
    Permits = {p1, p2}
    NoHandler = NoHandler
    NoPermit = NoPermit
    Calls <- Endpoints
    Configs <- OnlyDefault
    Faults = {}
    Ttl = 1
    Capacity = 2
    MaxCalls = 2
    MaxTime = 0
CHECK_DEADLOCK FALSE
PROPERTIES
    RequestsAnswered
