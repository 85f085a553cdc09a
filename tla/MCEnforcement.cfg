CONSTANTS
    Oversized <- MCOversized
    Dirty <- MCDirty
    Idents <- MCIdents
    LowerCase <- MCLowerCase
    MaxMetadata = 1
    Null = Null
    Commands <- MCCommands
    FileNames <- MCFileNames
    BadExecutables = {"a b"}
    Encoded = {"-enc"}
    ParentEnv = {"PATH", "TOKEN"}
    AllowedVars = {"PATH"}
    DangerousVars = {"TOKEN"}
    MaxArguments = 2
    MaxEnvironment = 2
    CommandPermits = {p1}
    OutputLimit <- MCOutputLimit
    Chunk = 2
    PipeCapacity = 2
    MaxOutput = 4
    Endpoints <- MCEndpoints
    Answers <- MCAnswers
    Locations <- MCLocations
    MetadataHosts = {"metadata"}
    AllowHttp = FALSE
    AllowLoopback = FALSE
    RequestBodyLimit = 1
    RedirectLimit = 2
    MaxHeaders = 1
    BodyChunks = {1, 2}
    NetworkPermits = {p1}
    Workers = {w1, w2}
    FilePermits = {1, 2, 3, 4}
    FileRequests <- MCRequests
    Names <- MCNames
    Root <- MCRoot
    Start <- MCStart
    Suffixes <- MCSuffixes
    Growth <- MCGrowth
    MaxReadBytes = 2
    MaxWriteBytes = 2
    MaxDirEntries = 5
    MaxHops = 8
SPECIFICATION Spec
INVARIANTS
    OutsideUntouched
    NeverHalfWritten
    ChildReaped
    OutputComplete
    ConnectionsVetted
PROPERTIES
    NoFileLost
    CommandReturns
    NetworkReturns
CHECK_DEADLOCK FALSE
