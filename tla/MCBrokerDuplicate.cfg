\* Two requests for one digest.
SPECIFICATION Spec
CONSTANTS
    g1 = g1  g2 = g2  c1 = c1
    gateway = gateway  cli = cli
    Ids = {i1, i2}
    Digests = {d1}
    Threads = {g1, g2}
    Processes = {gateway}
    ProcessOf <- MCProcessOf
    Calls <- Requesters
    Ttl = 1
    MaxPending = 2
    Faults = {}
    MaxTime = 0
    MaxLog = 2
    NoThread = NoThread
    NoId = NoId
INVARIANTS OneActivePerDigest
CHECK_DEADLOCK FALSE
