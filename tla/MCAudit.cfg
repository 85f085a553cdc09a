SPECIFICATION AuditSpec
CONSTANTS
    w1 = w1
    w2 = w2
    b1 = b1
    b2 = b2
    b3 = b3
    x = x
    y = y
    Writers = {w1, w2}
    Bodies = {b1, b2, b3}
    Bytes = {x, y}
    Encoding <- SameBytes
    Unreadable = Unreadable
    Malformed = Malformed
    Damages = {"column", "alias", "move", "delete", "truncate"}
    Faults = {"busy", "rollback", "crash"}
    OverflowChecks = FALSE
    MaxI64 = 3
    MaxU64 = 5
    MaxRange = 2
    NoWriter = NoWriter
    NoCheckpoint = NoCheckpoint
    Junk <- OtherHash
INVARIANTS
    LatestStaysLatest
    NoFalseAlarm
    TamperEvident
    RangeAgrees
    AnswersAreTrue
PROPERTIES
    ImplementsLog
SYMMETRY Symmetry
