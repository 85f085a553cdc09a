\* Agents, operators and the command line on two approvals, with every fault.
SPECIFICATION Spec
CONSTANTS
    g1 = g1 g2 = g2 c1 = c1
    gateway = gateway cli = cli
    Ids = {i1, i2}
    Digests = {d1, d2}
    Threads = {g1, g2, c1}
    Processes = {gateway, cli}
    ProcessOf <- MCProcessOf
    Calls <- Roles
    Ttl = 1
    MaxPending = 2
    Faults = {"audit", "store", "crash"}
    MaxTime = 1
    MaxLog = 4
    NoThread = NoThread
    NoId = NoId
INVARIANTS DecisionsAudited AtMostOneGrant SequenceNamesOwnEvent
PROPERTIES ImplementsLifecycle GrantIsEarned
SYMMETRY IdSymmetry
CHECK_DEADLOCK FALSE
