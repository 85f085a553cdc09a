\* Three requests at a time on two approvals, with room for one token.
SPECIFICATION Spec
CONSTANTS
    Ids = {i1, i2}
    Digests = {d1, d2}
    Handlers = {h1, h2, h3}
    Ttl = 2
    MaxTokens = 1
    Faults = {"broker", "full", "crash"}
    MaxTime = 3
INVARIANTS
    ApprovedHasToken
    NoOrphanReservation
    PermitPerGrant
PROPERTIES
    MismatchKeepsApproval
SYMMETRY HandlerSymmetry
