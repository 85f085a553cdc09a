SPECIFICATION PermitsSpec
CONSTANTS
    h1 = h1
    h2 = h2
    h3 = h3
    p1 = p1
    p2 = p2
    Handlers = {h1, h2, h3}
    Permits = {p1, p2}
    NoHandler = NoHandler
    NoPermit = NoPermit
    Calls <- Endpoints
    Configs <- EveryFlag
    Faults = {"audit", "redaction"}
    Ttl = 1
    Capacity = 1
    MaxCalls = 2
    MaxTime = 1
SYMMETRY Symmetry
INVARIANTS
    SingleExecution
    EffectsOnRecord
    RecordIsTrue
    OnlyCircleBlocks
PROPERTIES
    DecidedByCurrentEngine
CHECK_DEADLOCK FALSE
