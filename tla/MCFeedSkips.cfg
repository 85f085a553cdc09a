CONSTANTS
    Components = {"audit"}
    Words <- MCWords
    Keys = {"pwd"}
    Tokens <- MCTokens
    MaxInput = 6
    MinBearer = 8
    Inputs <- MCInputs
    SecretTexts <- MCSecrets
    DetectorSets <- MCDetectorSets
    MaxSecrets = 2
    MaxSecretLength = 3
    ClientDocs <- MCClientDocs
    Chatter <- MCChatter
    Replies <- MCReplies
    Outcomes = {"permitted", "denied", "failed"}
    MaxLines = 2
    SensitiveKeys = {"token"}
    MaxAsked = 4
    MaxChatter = 1
    Loopback = {"127.0.0.1:7421", "[::1]:80"}
    NotAddresses = {"no"}
    Unreadable = Unreadable
    MaxTtl = 4
    MaxPendingApprovals = 4
    PlatformMax = 8
    Files <- MCFiles
    Environments <- MCEnvironments
    Credentials <- MCCredentials
    Worlds <- MCWorlds
    Clients = {1, 2, 3}
    Kinds <- MCKinds
    PerSecond = 1
    Burst = 2
    Concurrency = 1
    Second = 2
    MaxClock = 2
    Writers = {w1, w2, w3}
    Break = Break
    TailLines = 2
    LookBack = 2
    PollLimit = 2
    MaxEvents = 4
    MaxTruncations = 1
SPECIFICATION Spec
PROPERTY SequencesPublished
CHECK_DEADLOCK FALSE
