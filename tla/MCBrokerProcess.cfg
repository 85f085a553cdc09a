\* Every operation of the library in one process, with audit failures.
SPECIFICATION FairSpec
CONSTANTS
    g1 = g1  g2 = g2  c1 = c1
    gateway = gateway  cli = cli
    Ids = {i1}
    Digests = {d1}
    Threads = {g1, g2}
    Processes = {gateway}
    ProcessOf <- MCProcessOf
    Calls <- Library
    Ttl = 1
    MaxPending = 1
    Faults = {"audit"}
    MaxTime = 3
    MaxLog = 6
    NoThread = NoThread
    NoId = NoId
INVARIANTS ChainAgreesWithTable
PROPERTIES OperationsReturn
CHECK_DEADLOCK FALSE
